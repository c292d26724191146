------------------------------ MODULE SendFind ------------------------------
(***************************************************************************)
(* One send_find of the daemon (src/src/ambix_hyb-ctl.c): the reply of the *)
(* module arrives as in NetlinkReply, send_find counts the pages in it,    *)
(* and do_migration or do_switch hands them to move_pages in batches of    *)
(* one process.  The caller holds placement_lock, so there is one at a     *)
(* time.                                                                   *)
(*                                                                         *)
(* How much room a node has changes while the daemon works, as other       *)
(* programs allocate, so each numa_node_size64 returns any number of pages. *)
(* Any page may fail to move: its process exits, another one maps it, the  *)
(* node fills up.                                                          *)
(***************************************************************************)
EXTENDS NetlinkReply, FiniteSets, SequencesExt

CONSTANTS
    Page,            \* the entries of found pages: a process and an address
    n_dram_nodes, n_nvram_nodes,
    Mode

\* An entry that ends a list: the separator, the return value, memory never used.
End == [pid |-> 0, addr |-> 0]

ASSUME NodeAssumption ==
    /\ n_dram_nodes \in Nat \ {0} /\ n_nvram_nodes \in Nat \ {0}
    /\ Mode \subseteq {"DRAM_MODE", "NVRAM_MODE", "SWITCH_MODE"}
    /\ Page # {} /\ Page \cup {End} \subseteq Entry
    /\ \A p \in Page : p.pid \in Nat \ {0} /\ p = [pid |-> p.pid, addr |-> p.addr]

Tier == {"DRAM", "NVRAM"}

VARIABLES
    mode,
    step,          \* where send_find is
    count,         \* its n_found: pages in the reply, pairs of them in a switch
    tier,          \* the tier whose pages are on their way to the other
    addr,          \* addr, or addr_dram and addr_nvram
    processed,     \* how many of them have a node to go to
    old_n_processed,
    node_i,        \* the node whose room is looked at next
    n_migrated,    \* where the next batch begins
    e,             \* failures counted
    free,          \* dram_free and nvram_free
    result,
    last_read,     \* history: the last element of candidates read
    sent,          \* history: what was handed to move_pages
    accepted,      \* history: positions move_pages once reported no failure for
    resumed        \* history: do_switch took DRAM pages a second time

arrays == <<addr, processed, old_n_processed, node_i>>
batches == <<n_migrated, e, free>>
history == <<last_read, sent, accepted, resumed>>
findVars == <<mode, step, count, tier, arrays, batches, result, history>>
vars == <<replyVars, findVars>>

-----------------------------------------------------------------------------
MinOf_Unbounded(a, b) == a
MinOf(a, b) == IF a < b THEN a ELSE b

\* What an earlier reply may have left behind the one that arrives.
Stale == CHOOSE p \in Page : TRUE

\* h pages and the entry behind them: the return value, or the separator of a switch.
List(h) == { p \o <<End>> : p \in TupleOf(Page, h) }

ReplyTo_Unbalanced(m) ==
    IF m = "SWITCH_MODE"
      THEN UNION { { r[1] \o r[2] : r \in List(h + 1) \X List(h) } : h \in 0 .. MAX_N_SWITCH - 1 }
      ELSE UNION { List(h) : h \in 0 .. MAX_N_FIND }

\* What process_req makes of the walk: PageWalk has the pages and their number.
ReplyTo(m) ==
    IF m = "SWITCH_MODE"
      THEN UNION { { r[1] \o r[2] : r \in List(h) \X List(h) } : h \in 0 .. MAX_N_SWITCH }
      ELSE UNION { List(h) : h \in 0 .. MAX_N_FIND }

Init ==
    /\ mode \in Mode
    /\ \E reply \in ReplyTo(mode) :
         /\ n_found = Len(reply)
         /\ found_addrs = [k \in Slot |-> IF k < Len(reply) THEN reply[k + 1] ELSE Stale]
    /\ \E old \in {End, Stale} : candidates = [k \in Slot |-> old]
    /\ at = "put" /\ skb = << >> /\ buffer = << >> /\ curr_pointer = 0
    /\ step = "send_req" /\ count = 0 /\ result = 0
    /\ tier = IF mode = "NVRAM_MODE" THEN "NVRAM" ELSE "DRAM"
    /\ addr = [t \in Tier |-> << >>] /\ processed = [t \in Tier |-> 0]
    /\ old_n_processed = 0 /\ node_i = 0
    /\ n_migrated = 0 /\ e = [t \in Tier |-> 0] /\ free = [t \in Tier |-> TRUE]
    /\ last_read = 0 /\ sent = {} /\ accepted = {} /\ resumed = FALSE

\* Elements of candidates that hold the pages of a tier.
Base(t) == IF mode = "SWITCH_MODE" /\ t = "DRAM" THEN count + 1 ELSE 0

n_nodes(t) == IF t = "DRAM" THEN n_nvram_nodes ELSE n_dram_nodes

-----------------------------------------------------------------------------
\* send_req returned: count the entries up to the first without a process.
Count ==
    /\ at = "count" /\ step = "send_req"
    /\ count' = CHOOSE k \in Slot :
                  candidates[k].pid = 0 /\ \A j \in 0 .. k - 1 : candidates[j].pid > 0
    /\ step' = IF count' = 0 THEN "done" ELSE "assign"
    /\ last_read' = count'
    /\ UNCHANGED <<replyVars, mode, tier, arrays, batches, result, sent, accepted, resumed>>

\* Where the next page comes from; for the DRAM pages of a switch the index begins
\* again at every node and in every pass.
From_Restart(t, j) == Base(t) + j
From(t, j) ==
    IF mode = "SWITCH_MODE" /\ t = "DRAM" THEN Base(t) + j ELSE processed[t] + j

\* One node: as many of the pages as it has room for.
Assign ==
    /\ step = "assign" /\ node_i < n_nodes(tier) /\ processed[tier] < count
    /\ \E n_avail_pages \in 0 .. count :
         LET taken == MinOf(n_avail_pages, count - processed[tier]) IN
         /\ addr' = [addr EXCEPT ![tier] =
                       @ \o [j \in 1 .. taken |-> candidates[From(tier, j - 1)].addr]]
         /\ processed' = [processed EXCEPT ![tier] = @ + taken]
         /\ resumed' = (resumed \/ (mode = "SWITCH_MODE" /\ tier = "DRAM"
                                      /\ processed[tier] > 0 /\ taken > 0))
    /\ node_i' = node_i + 1
    /\ UNCHANGED <<replyVars, mode, step, count, tier, old_n_processed, batches, result,
                   last_read, sent, accepted>>

Assigned == step = "assign" /\ (node_i >= n_nodes(tier) \/ processed[tier] >= count)

\* do_migration goes on to its batches; so does do_switch, if a node had room.
BeginBatches ==
    /\ Assigned /\ (mode # "SWITCH_MODE" \/ old_n_processed < processed[tier])
    /\ step' = "batch" /\ n_migrated' = 0
    /\ free' = [free EXCEPT ![tier] = TRUE]
    /\ UNCHANGED <<replyVars, mode, count, tier, arrays, e, result, history>>

NoRoom ==
    /\ Assigned /\ mode = "SWITCH_MODE" /\ old_n_processed >= processed[tier]
    /\ step' = "half"
    /\ free' = [free EXCEPT ![tier] = FALSE]
    /\ UNCHANGED <<replyVars, mode, count, tier, arrays, n_migrated, e, result, history>>

pid_at(k) == candidates[Base(tier) + k].pid

\* The pages from n_migrated on that belong to the same process.
BatchLength ==
    CHOOSE i \in 1 .. count :
        /\ pid_at(n_migrated + i) # pid_at(n_migrated) \/ n_migrated + i >= processed[tier]
        /\ \A j \in 1 .. i - 1 :
             pid_at(n_migrated + j) = pid_at(n_migrated) /\ n_migrated + j < processed[tier]

\* move_pages for one process; when it reports a failure every page is tried on its
\* own, and those that fail again are counted.
Batch ==
    /\ step = "batch" /\ n_migrated < processed[tier]
    /\ LET batch == n_migrated .. n_migrated + BatchLength - 1 IN
         \E failed \in SUBSET batch :
           /\ e' = [e EXCEPT ![tier] = @ + Cardinality(failed)]
           /\ accepted' = accepted \cup {<<tier, k>> : k \in batch \ failed}
           /\ sent' = sent \cup
                {<<tier, [pid |-> pid_at(n_migrated), addr |-> addr[tier][k + 1]]>> : k \in batch}
    /\ last_read' = Base(tier) + n_migrated + BatchLength
    /\ n_migrated' = n_migrated + BatchLength
    /\ UNCHANGED <<replyVars, mode, step, count, tier, arrays, free, result, resumed>>

Migrated_CountsAll ==
    /\ step = "batch" /\ n_migrated >= processed[tier] /\ mode # "SWITCH_MODE"
    /\ result' = n_migrated
    /\ step' = "done"
    /\ UNCHANGED <<replyVars, mode, count, tier, arrays, batches, history>>

\* do_migration returns.
Migrated ==
    /\ step = "batch" /\ n_migrated >= processed[tier] /\ mode # "SWITCH_MODE"
    /\ result' = n_migrated - e[tier]
    /\ step' = "done"
    /\ UNCHANGED <<replyVars, mode, count, tier, arrays, batches, history>>

HalfMigrated ==
    /\ step = "batch" /\ n_migrated >= processed[tier] /\ mode = "SWITCH_MODE"
    /\ step' = "half"
    /\ UNCHANGED <<replyVars, mode, count, tier, arrays, batches, result, history>>

BeginHalf(t) ==
    /\ tier' = t /\ step' = "assign"
    /\ old_n_processed' = processed[t] /\ node_i' = 0

\* do_switch: DRAM to NVRAM, NVRAM to DRAM, and again while pages are left and a
\* node had room.
OtherHalf ==
    /\ step = "half" /\ tier = "DRAM"
    /\ BeginHalf("NVRAM")
    /\ UNCHANGED <<replyVars, mode, count, addr, processed, batches, result, history>>

AnotherPass_UntilDone == \E t \in Tier : processed[t] < count

AnotherPass == (\E t \in Tier : processed[t] < count) /\ (\E t \in Tier : free[t])

NextPass ==
    /\ step = "half" /\ tier = "NVRAM" /\ AnotherPass
    /\ BeginHalf("DRAM")
    /\ UNCHANGED <<replyVars, mode, count, addr, processed, batches, result, history>>

Switched ==
    /\ step = "half" /\ tier = "NVRAM" /\ ~AnotherPass
    /\ result' = (processed["DRAM"] - e["DRAM"]) + (processed["NVRAM"] - e["NVRAM"])
    /\ step' = "done"
    /\ UNCHANGED <<replyVars, mode, count, tier, arrays, batches, history>>

Migration ==
    \/ Count \/ Assign \/ BeginBatches \/ NoRoom \/ Batch
    \/ Migrated \/ HalfMigrated \/ OtherHalf \/ NextPass \/ Switched

Next == (ReplyNext /\ UNCHANGED findVars) \/ Migration

Spec == Init /\ [][Next]_vars

\* The thread that called send_find runs.
FairSpec == Spec /\ WF_vars(Next)

-----------------------------------------------------------------------------
TypeOK ==
    /\ ReplyTypeOK
    /\ step \in {"send_req", "assign", "batch", "half", "done"}
    /\ count \in Slot /\ tier \in Tier
    /\ \A t \in Tier : Len(addr[t]) = processed[t] /\ processed[t] \in 0 .. count
    /\ e \in [Tier -> Nat] /\ free \in [Tier -> BOOLEAN] /\ result \in Int

(* send_find and its callees read no element of candidates that the reply
   did not write, although each loop looks at an entry before it tests
   whether that is still one of its own.                                   *)
ReadsInReply == step # "send_req" => last_read < n_found

\* What was handed to move_pages, and what has a node to go to.
Sent(t) == {s[2] : s \in {x \in sent : x[1] = t}}
GivenNode(t) == {candidates[Base(t) + k] : k \in 0 .. processed[t] - 1}

(* Every page that was given a node to go to is handed to move_pages under
   its own process, and nothing else is, except that do_switch does not
   keep this for DRAM pages it takes at a second node or in a second pass. *)
SendsAssigned ==
    step = "done" /\ count > 0 =>
        \A t \in IF resumed THEN {"NVRAM"} ELSE Tier : Sent(t) = GivenNode(t)

(* "Send processed pages to NVRAM": the same without the exception.        *)
SendsProcessedPages ==
    step = "done" /\ count > 0 =>
        Sent("DRAM") = GivenNode("DRAM")

(* The number send_find returns, which memcheck prints and sleeps by, is the
   number of pages move_pages reported no failure for.  do_switch sends all
   pages again in every pass and counts a page that fails twice twice: then
   it may be less, but never more.                                         *)
CountIsHonest ==
    step = "done" =>
        /\ result <= Cardinality(accepted)
        /\ mode # "SWITCH_MODE" => result = Cardinality(accepted)

(* A reply that was sent is migrated as far as there is room, and send_find
   returns: do_switch makes no pass for ever.                              *)
SendFindEnds == at = "sent" ~> step = "done"
=============================================================================
