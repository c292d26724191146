------------------------------ MODULE PageWalk ------------------------------
(***************************************************************************)
(* One FIND at a time through the page tables of the managed processes     *)
(* (src/src/ambix_hyb-mod.c): the PTE callbacks, do_page_walk, mem_walk,   *)
(* switch_walk and clear_walk.                                             *)
(*                                                                         *)
(* A step is one PTE callback, the start or the end of one                 *)
(* walk_page_range, or what a walk does when it has its pages.  Meanwhile  *)
(* the processes run and the kernel reclaims: the MMU sets the accessed    *)
(* and dirty bits of any page at any time, reclaim and writeback clear     *)
(* them, so a callback finds any bits; what they mean is the business of   *)
(* PteBits.  Processes exit between two walk_page_range calls, and pages   *)
(* change node between requests, when the daemon migrates what it was      *)
(* given.                                                                  *)
(***************************************************************************)
EXTENDS Integers, Sequences, PteClass

CONSTANTS
    n_pids,       \* processes in the list, fixed here; PidList changes it
    LAST,         \* the last page below MAX_ADDRESS; addresses count pages
    MAX_N_FIND, MAX_N_SWITCH,
    Count,        \* the numbers of pages asked for
    Mode,         \* the modes asked for
    Layout        \* the node of every page at the start

Proc == 0 .. n_pids - 1
Addr == 0 .. LAST
Page == Proc \X Addr

ASSUME SizeAssumption ==
    /\ n_pids \in Nat \ {0} /\ LAST \in Nat
    /\ MAX_N_FIND \in Nat /\ MAX_N_SWITCH \in Nat
    /\ Count \subseteq Int
    /\ Mode \subseteq DOMAIN CallbackOf

\* "other": not present or write protected.
ASSUME LayoutAssumption == Layout \in [Page -> Tier \cup {"other"}]

VARIABLES
    mm,          \* the processes that have an mm
    node,        \* where each page is
    last_pid, last_addr,  \* the cursors, one for each tier
    pc,          \* the step the handler is at
    mode,        \* the mode of the request
    walk,        \* the callback of the walk in progress
    start,       \* the arguments of the last do_page_walk of each tier
    leg, addr,   \* which walk_page_range, and the PTE it is at
    found,       \* found_addrs: pages, and the separator of a switch
    backups,     \* backup_addrs and switch_backup_addrs
    n_to_find,
    ret,
    visited,     \* history: the pages this do_page_walk called back for
    seen         \* history: the pages this request had a use for

cursors == <<last_pid, last_addr>>
lists == <<found, backups, n_to_find>>
request == <<mode, walk, start, ret>>
history == <<visited, seen>>
vars == <<mm, node, cursors, pc, request, leg, addr, lists, history>>

-----------------------------------------------------------------------------
IntMin(a, b) == IF a > b THEN b ELSE a

Separator == << >>

\* do_page_walk: from the cursor to the end of its process, the processes after
\* it, those before it, and its process again up to and including the cursor.
\* clear_walk: every process in turn, whole.
Origin == IF walk = "clear" THEN <<0, 0>> ELSE start[TierOf(walk)]
LastLeg == IF walk = "clear" THEN n_pids - 1 ELSE n_pids
LegProc_NoWrap == Origin[1] + leg
LegProc == (Origin[1] + leg) % n_pids
LegFrom == IF leg = 0 THEN Origin[2] ELSE 0
LegTo_Whole == LAST
LegTo == IF leg = n_pids THEN Origin[2] ELSE LAST

Here == <<LegProc, addr>>
Full == Len(found) = n_to_find

Init ==
    /\ mm = Proc
    /\ node = Layout
    /\ last_pid = [t \in Tier |-> 0] /\ last_addr = [t \in Tier |-> 0]
    /\ pc = "idle"
    /\ mode = "none" /\ walk = "none" /\ start = [t \in Tier |-> <<0, 0>>] /\ ret = -1
    /\ leg = 0 /\ addr = 0
    /\ found = << >> /\ backups = [mem |-> << >>, switch |-> << >>] /\ n_to_find = 0
    /\ visited = {} /\ seen = {}

-----------------------------------------------------------------------------
(* The machine around the module.                                          *)

\* exit_mm; the entry stays in the list, as its number is in use.
Exit(q) ==
    /\ q \in mm /\ ~(pc = "pte" /\ LegProc = q)
    /\ mm' = mm \ {q}
    /\ UNCHANGED <<node, cursors, pc, request, leg, addr, lists, history>>

\* The daemon's move_pages, between requests.
Move(p) ==
    /\ pc = "idle" /\ node[p] \in Tier
    /\ node' = [node EXCEPT ![p] = CHOOSE t \in Tier : t # node[p]]
    /\ UNCHANGED <<mm, cursors, pc, request, leg, addr, lists, history>>

Environment ==
    \/ \E p \in Page : Move(p)
    \/ \E q \in Proc : Exit(q)

-----------------------------------------------------------------------------
(* do_page_walk and clear_walk.                                            *)

Walking(cb) ==
    /\ walk' = cb /\ pc' = "leg" /\ leg' = 0 /\ addr' = 0
    /\ start' = IF cb = "clear" THEN start
                ELSE [start EXCEPT ![TierOf(cb)] = <<last_pid[TierOf(cb)], last_addr[TierOf(cb)]>>]
    /\ visited' = {}

\* process_req, mem_walk and switch_walk up to their first walk.
Receive(m, n) ==
    /\ pc = "idle"
    /\ mode' = m
    /\ Walking(CallbackOf[m])
    /\ n_to_find' = CASE m = "SWITCH_MODE" -> IntMin(MAX_N_SWITCH, n)
                      [] m = "NVRAM_CLEAR" -> 0
                      [] OTHER -> IntMin(MAX_N_FIND, n)
    /\ UNCHANGED <<mm, node, cursors, found, backups, ret, seen>>

\* do_page_walk skips a process without an mm; clear_walk locks a field of it.
BeginLeg ==
    /\ pc = "leg"
    /\ IF LegProc \in mm
         THEN pc' = "pte" /\ addr' = LegFrom
         ELSE pc' = (IF walk = "clear" THEN "oops" ELSE "over") /\ addr' = addr
    /\ UNCHANGED <<mm, node, cursors, request, leg, lists, history>>

\* walk_page_range goes on to the next PTE, or is done.
NextPte ==
    IF addr = LegTo THEN pc' = "over" /\ addr' = 0
                    ELSE pc' = pc /\ addr' = addr + 1

\* The list is full: the callback saves the address and stops this leg.
StopFull ==
    /\ pc = "pte" /\ walk # "clear" /\ Full
    /\ last_addr' = [last_addr EXCEPT ![TierOf(walk)] = addr]
    /\ pc' = "over" /\ addr' = 0
    /\ UNCHANGED <<mm, node, last_pid, request, leg, lists, history>>

\* A callback with room left: a page of its tier is taken, or deferred to a backup
\* list while that can still be of use.
Collect_OneShort(cb, list) ==
    /\ pc = "pte" /\ walk = cb /\ ~Full
    /\ visited' = visited \cup {Here}
    /\ \E y, d \in BOOLEAN :
         IF node[Here] = TierOf(cb) /\ (Takes(cb, y, d) \/ Defers(cb, y, d))
           THEN /\ found' = IF Takes(cb, y, d) THEN Append(found, Here) ELSE found
                /\ backups' = IF Defers(cb, y, d) /\ Len(backups[list]) < n_to_find - Len(found) - 1
                                THEN [backups EXCEPT ![list] = Append(@, Here)] ELSE backups
                /\ seen' = seen \cup {Here}
           ELSE UNCHANGED <<found, backups, seen>>
    /\ NextPte
    /\ UNCHANGED <<mm, node, cursors, request, leg, n_to_find>>

Collect(cb, list) ==
    /\ pc = "pte" /\ walk = cb /\ ~Full
    /\ visited' = visited \cup {Here}
    /\ \E y, d \in BOOLEAN :
         IF node[Here] = TierOf(cb) /\ (Takes(cb, y, d) \/ Defers(cb, y, d))
           THEN /\ found' = IF Takes(cb, y, d) THEN Append(found, Here) ELSE found
                /\ backups' = IF Defers(cb, y, d) /\ Len(backups[list]) < n_to_find - Len(found)
                                THEN [backups EXCEPT ![list] = Append(@, Here)] ELSE backups
                /\ seen' = seen \cup {Here}
           ELSE UNCHANGED <<found, backups, seen>>
    /\ NextPte
    /\ UNCHANGED <<mm, node, cursors, request, leg, n_to_find>>

pte_callback_mem == Collect("mem", "mem")
pte_callback_nvram_force == Collect("force", "mem")
pte_callback_nvram_write == Collect("write", "mem")
pte_callback_nvram_intensive == Collect("intensive", "mem")
pte_callback_nvram_switch == Collect("switch", "switch")

\* The clear callback looks at no list and stops for nothing.
pte_callback_nvram_clear ==
    /\ pc = "pte" /\ walk = "clear"
    /\ visited' = visited \cup {Here}
    /\ NextPte
    /\ UNCHANGED <<mm, node, cursors, request, leg, lists, seen>>

Callback ==
    \/ StopFull
    \/ pte_callback_mem
    \/ pte_callback_nvram_force
    \/ pte_callback_nvram_write
    \/ pte_callback_nvram_intensive
    \/ pte_callback_nvram_switch
    \/ pte_callback_nvram_clear

\* walk_page_range returned, or was skipped: the next leg, or the end of the walk.
\* do_page_walk returns the process that filled the list, or the one it began with.
EndLeg_NextProc ==
    /\ pc = "over"
    /\ IF leg < LastLeg /\ ~(walk # "clear" /\ Len(found) >= n_to_find)
         THEN pc' = "leg" /\ leg' = leg + 1 /\ UNCHANGED last_pid
         ELSE /\ pc' = IF walk = "clear" THEN "reply" ELSE "end"
              /\ leg' = 0
              /\ last_pid' = IF walk = "clear" THEN last_pid
                             ELSE [last_pid EXCEPT ![TierOf(walk)] = LegProc + 1]
    /\ UNCHANGED <<mm, node, last_addr, request, addr, lists, history>>

EndLeg_FirstProc ==
    /\ pc = "over"
    /\ IF leg < LastLeg /\ ~(walk # "clear" /\ Len(found) >= n_to_find)
         THEN pc' = "leg" /\ leg' = leg + 1 /\ UNCHANGED last_pid
         ELSE /\ pc' = IF walk = "clear" THEN "reply" ELSE "end"
              /\ leg' = 0
              /\ UNCHANGED last_pid
    /\ UNCHANGED <<mm, node, last_addr, request, addr, lists, history>>

EndLeg ==
    /\ pc = "over"
    /\ IF leg < LastLeg /\ ~(walk # "clear" /\ Len(found) >= n_to_find)
         THEN pc' = "leg" /\ leg' = leg + 1 /\ UNCHANGED last_pid
         ELSE /\ pc' = IF walk = "clear" THEN "reply" ELSE "end"
              /\ leg' = 0
              /\ last_pid' = IF walk = "clear" THEN last_pid
                             ELSE [last_pid EXCEPT ![TierOf(walk)] = LegProc]
    /\ UNCHANGED <<mm, node, last_addr, request, addr, lists, history>>

-----------------------------------------------------------------------------
(* What a walk does with its pages.                                        *)

MemEnd_WholeBackup ==
    /\ pc = "end" /\ mode # "SWITCH_MODE"
    /\ found' = IF n_to_find > Len(found) THEN found \o backups.mem ELSE found
    /\ ret' = IF Len(found') >= n_to_find THEN 0 ELSE -1
    /\ pc' = "reply"
    /\ UNCHANGED <<mm, node, cursors, mode, walk, start, leg, addr, backups, n_to_find, history>>

\* mem_walk makes up for missing pages from the backup list.
MemEnd ==
    /\ pc = "end" /\ mode # "SWITCH_MODE"
    /\ LET short == n_to_find - Len(found)
           extra == SubSeq(backups.mem, 1, IntMin(short, Len(backups.mem)))
       IN found' = IF short > 0 THEN found \o extra ELSE found
    /\ ret' = IF Len(found') >= n_to_find THEN 0 ELSE -1
    /\ pc' = "reply"
    /\ UNCHANGED <<mm, node, cursors, mode, walk, start, leg, addr, backups, n_to_find, history>>

\* switch_walk has its NVRAM pages and looks for as many in DRAM.
SwitchTurn ==
    /\ pc = "end" /\ walk = "switch"
    /\ found' = Append(found, Separator)
    /\ IF Len(found) = 0 /\ Len(backups.switch) = 0
         THEN /\ pc' = "reply"
              /\ UNCHANGED <<walk, start, leg, addr, backups, n_to_find, visited>>
         ELSE /\ n_to_find' = Len(found) + 1
                                + IntMin(Len(found) + Len(backups.switch), n_to_find)
              /\ backups' = [backups EXCEPT !.mem = << >>]
              /\ Walking("mem")
    /\ UNCHANGED <<mm, node, cursors, mode, ret, seen>>

\* Pairs of the NVRAM pages n and the DRAM pages d, the shorter side filled up from
\* its backup list; none at all when there is no backup to fill it from.
Pairs(n, d, nb, db) ==
    CASE Len(d) = Len(n) -> n \o <<Separator>> \o d
      [] Len(d) < Len(n) /\ Len(db) > 0 ->
            LET k == IntMin(Len(n), Len(d) + Len(db)) IN
            SubSeq(n, 1, k) \o <<Separator>> \o d \o SubSeq(db, 1, k - Len(d))
      [] Len(n) < Len(d) /\ Len(nb) > 0 ->
            LET k == IntMin(Len(d), Len(n) + Len(nb)) IN
            n \o SubSeq(nb, 1, k - Len(n)) \o <<Separator>> \o SubSeq(d, 1, k)
      [] OTHER -> <<Separator>>

SwitchEnd ==
    /\ pc = "end" /\ mode = "SWITCH_MODE" /\ walk = "mem"
    /\ LET s == CHOOSE k \in 1 .. Len(found) : found[k] = Separator
       IN found' = Pairs(SubSeq(found, 1, s - 1), SubSeq(found, s + 1, Len(found)),
                         backups.switch, backups.mem)
    /\ ret' = 0 /\ pc' = "reply"
    /\ UNCHANGED <<mm, node, cursors, mode, walk, start, leg, addr, backups, n_to_find, history>>

\* The reply leaves.  The lists are reset here instead of when they are next used.
Reply ==
    /\ pc = "reply"
    /\ pc' = "idle" /\ mode' = "none" /\ walk' = "none" /\ ret' = -1
    /\ start' = [t \in Tier |-> <<0, 0>>]
    /\ found' = << >> /\ backups' = [mem |-> << >>, switch |-> << >>] /\ n_to_find' = 0
    /\ visited' = {} /\ seen' = {}
    /\ UNCHANGED <<mm, node, cursors, leg, addr>>

\* All but the end of switch_walk.
Walks == BeginLeg \/ Callback \/ EndLeg \/ MemEnd \/ SwitchTurn \/ Reply

Handler == Walks \/ SwitchEnd

Next ==
    \/ Environment
    \/ \E m \in Mode, n \in Count : Receive(m, n)
    \/ Handler

Spec == Init /\ [][Next]_vars

-----------------------------------------------------------------------------
TypeOK ==
    /\ mm \subseteq Proc
    /\ node \in [Page -> Tier \cup {"other"}]
    /\ last_pid \in [Tier -> Proc] /\ last_addr \in [Tier -> Addr]
    /\ pc \in {"idle", "leg", "pte", "over", "end", "reply", "oops"}
    /\ start \in [Tier -> Page]
    /\ leg \in 0 .. n_pids /\ addr \in Addr
    /\ \A k \in 1 .. Len(found) : found[k] \in Page \cup {Separator}
    /\ \A b \in {"mem", "switch"} : \A k \in 1 .. Len(backups[b]) : backups[b][k] \in Page
    /\ n_to_find \in Int /\ ret \in {0, -1}

(* A walk that ends without enough pages has been everywhere, and so has a
   CLEAR: it called back for every page of every process that still has its
   tables, wherever the cursor was when it began.                          *)
FullCycle ==
    (pc = "end" /\ Len(found) < n_to_find) \/ (pc = "reply" /\ walk = "clear") =>
        \A q \in mm : {q} \X Addr \subseteq visited

(* A reply shorter than asked for leaves nothing out: every page a callback
   had a use for is in it.  The bound on the backup list, which shrinks as
   pages are found, never costs a page that is missing in the end.         *)
ShortMeansAll ==
    pc = "reply" /\ mode \notin {"SWITCH_MODE", "NVRAM_CLEAR"} /\ Len(found) < n_to_find =>
        \A p \in seen : \E k \in 1 .. Len(found) : found[k] = p

(* A reply never has more pages than were asked for, all of them in the tier
   the daemon is going to move them out of.                                *)
ReplyInBounds ==
    pc = "reply" /\ mode \notin {"SWITCH_MODE", "NVRAM_CLEAR"} =>
        /\ Len(found) <= n_to_find
        /\ \A k \in 1 .. Len(found) : node[found[k]] = TierOf(walk)

(* A switch reply is as many NVRAM pages as DRAM pages with the separator
   between them: do_switch finds the DRAM half by the length of the other. *)
SwitchBalanced ==
    pc = "reply" /\ mode = "SWITCH_MODE" =>
        \E h \in 0 .. Len(found) :
            /\ Len(found) = 2 * h + 1 /\ found[h + 1] = Separator
            /\ \A k \in 1 .. h : found[k] \in Page /\ node[found[k]] = "NVRAM"
            /\ \A k \in h + 2 .. 2 * h + 1 : found[k] \in Page /\ node[found[k]] = "DRAM"

(* Only the page the cursor was at when the walk began can be reported twice:
   it is the first and the last page of the cycle.                         *)
TwiceOnlyAtCursor ==
    pc = "reply" =>
        \A j, k \in 1 .. Len(found) :
            j # k /\ found[j] = found[k] => \E t \in Tier : found[j] = start[t]

(* A walk that filled the list leaves its cursor in the process that filled
   it, so that the next one goes on there.                                 *)
CursorAtFiller ==
    pc = "end" /\ Full /\ n_to_find > 0 =>
        last_pid[TierOf(walk)] = found[Len(found)][1]

(* "If found all save last addr": a walk that filled the list resumes after
   the page that filled it.                                                *)
FullListSavesAddr ==
    pc = "end" /\ Full /\ n_to_find > 0 =>
        last_addr[TierOf(walk)] = found[Len(found)][2] + 1
=============================================================================
