------------------------------ MODULE PteBits ------------------------------
(***************************************************************************)
(* What the accessed and dirty bits tell the daemon when it looks for      *)
(* pages in heavy use in NVRAM: memcheck_placement sends a CLEAR, waits    *)
(* clear_interval, and sends a FIND for intensive or switch pages          *)
(* (src/src/ambix_hyb-ctl.c 561-588, src/src/ambix_hyb-mod.c).  It holds   *)
(* placement_lock meanwhile, which keeps other FINDs out, and releases     *)
(* comm_lock between the two, which lets a BIND in.                        *)
(*                                                                         *)
(* In ambix_MixM it looks for pages that are read, and releases            *)
(* placement_lock between the two as well, which lets in every FIND typed  *)
(* on stdin.                                                               *)
(*                                                                         *)
(* A page stands for a process with that one page.  A walk visits managed  *)
(* pages in any order; PageWalk has the order, the limits and the cursors. *)
(*                                                                         *)
(* The callbacks change a PTE and flush no TLB.  A processor that holds    *)
(* the translation of a page goes on to use it, and records in the PTE     *)
(* only what its own copy of the two bits does not say yet.                *)
(***************************************************************************)
EXTENDS PteClass

CONSTANTS
    Page,
    Build              \* of the two programs

ASSUME BuildAssumption == Build \subseteq {"hyb", "MixM"}

VARIABLES
    build,
    managed,           \* pages of processes in the list
    tier, young, dirty,
    tlb,               \* the most any processor holds of a page's translation
    phase, walk,       \* where memcheck is, and the callback of its last FIND
    todo,              \* pages the walk in progress still has to visit
    taken, deferred,   \* what the FIND found, and what it put on a backup list
    touched, written,  \* history: accessed and written since a CLEAR saw it
    stale,             \* history: held as dirty by a processor when a CLEAR cleaned it
    late,              \* history: bound since the CLEAR
    swept              \* history: cleaned or moved by another FIND since the CLEAR

bits == <<young, dirty, tlb>>
since == <<touched, written, stale>>
lists == <<taken, deferred>>
window == <<late, swept>>
vars == <<build, managed, tier, bits, phase, walk, todo, lists, since, window>>

-----------------------------------------------------------------------------
Init ==
    /\ build \in Build /\ managed = {} /\ tier \in [Page -> Tier]
    /\ young = Page /\ dirty = Page /\ tlb = [p \in Page |-> "none"]
    /\ phase = "idle" /\ walk = "none" /\ todo = {}
    /\ taken = {} /\ deferred = {}
    /\ touched = Page /\ written = Page /\ stale = {}
    /\ late = {} /\ swept = {}

(* The processes and the kernel.                                           *)

\* The walk of the page table sets the accessed bit, a hit does not.
Read(p) ==
    /\ \/ /\ young' = young \cup {p}
          /\ tlb' = [tlb EXCEPT ![p] = IF p \in dirty \/ @ = "dirty" THEN "dirty" ELSE "clean"]
       \/ tlb[p] # "none" /\ UNCHANGED <<young, tlb>>
    /\ touched' = touched \cup {p}
    /\ UNCHANGED <<managed, tier, dirty, phase, walk, todo, lists, written, stale, window>>

\* Only a write through a translation held as dirty leaves the PTE as it is.
Write(p) ==
    /\ \/ /\ young' = young \cup {p} /\ dirty' = dirty \cup {p}
          /\ tlb' = [tlb EXCEPT ![p] = "dirty"]
       \/ tlb[p] = "dirty" /\ UNCHANGED bits
    /\ touched' = touched \cup {p} /\ written' = written \cup {p}
    /\ UNCHANGED <<managed, tier, phase, walk, todo, lists, stale, window>>

\* Reclaim tests and clears the accessed bit.
Age(p) ==
    /\ young' = young \ {p}
    /\ UNCHANGED <<managed, tier, dirty, tlb, phase, walk, todo, lists, since, window>>

\* A processor drops the translation, for room, at a context switch or by a
\* flush; another may still hold it, not as dirty.
Evict(p) ==
    /\ tlb[p] # "none"
    /\ \E held \in {"none", "clean"} : tlb' = [tlb EXCEPT ![p] = held]
    /\ UNCHANGED <<managed, tier, young, dirty, phase, walk, todo, lists, since, window>>

Environment == \E p \in Page : Read(p) \/ Write(p) \/ Age(p) \/ Evict(p)

(* The daemon and the module.                                              *)

\* stdin or the socket: between two requests of memcheck at any time.
Bind(p) ==
    /\ phase \in {"idle", "window"} /\ p \notin managed
    /\ managed' = managed \cup {p}
    /\ late' = IF phase = "window" THEN late \cup {p} ELSE late
    /\ UNCHANGED <<tier, bits, phase, walk, todo, lists, since, swept>>

\* The kernel maps a migrated page with the bits it had or with fresh ones, and
\* flushes what processors hold of it.
Remap(moved) ==
    /\ young' \in {young, young \ moved}
    /\ dirty' \in {dirty, dirty \ moved}
    /\ tlb' = [p \in Page |-> IF p \in moved THEN "none" ELSE tlb[p]]

\* A FIND of thresh_act sends a page to the other tier.
Migrate(p) ==
    /\ phase = "idle" /\ p \in managed
    /\ tier' = [tier EXCEPT ![p] = CHOOSE t \in Tier : t # tier[p]]
    /\ Remap({p})
    /\ UNCHANGED <<managed, phase, walk, todo, lists, since, window>>

SendClear ==
    /\ phase = "idle"
    /\ phase' = "clear" /\ walk' = "clear" /\ todo' = managed
    /\ late' = {} /\ swept' = {}
    /\ UNCHANGED <<managed, tier, bits, lists, since>>

\* What the callback of the walk in progress makes of a page of its tier.
IsTaken(y, d) == IF build = "MixM" THEN TakesMixM(walk, y, d) ELSE Takes(walk, y, d)
IsDeferred(y, d) == IF build = "MixM" THEN DefersMixM(walk, y, d) ELSE Defers(walk, y, d)
IsCleaned(y, d) == IF build = "MixM" THEN CleansMixM(walk, y, d) ELSE Cleans(walk, y, d)

\* One callback.  ptep_modify_prot_start and _commit flush nothing.
Visit(p) ==
    /\ p \in todo
    /\ todo' = todo \ {p}
    /\ LET y == p \in young
           d == p \in dirty
           mine == tier[p] = TierOf(walk)
           cleans == mine /\ IsCleaned(y, d)
           cleared == mine /\ walk = "clear"
       IN /\ dirty' = IF cleans THEN dirty \ {p} ELSE dirty
          /\ touched' = IF cleared THEN touched \ {p} ELSE touched
          /\ written' = IF cleared THEN written \ {p} ELSE written
          /\ taken' = IF mine /\ IsTaken(y, d) THEN taken \cup {p} ELSE taken
          /\ deferred' = IF mine /\ IsDeferred(y, d) THEN deferred \cup {p} ELSE deferred
          /\ swept' = IF cleans /\ phase = "other" THEN swept \cup {p} ELSE swept
          /\ stale' = IF ~cleared THEN stale
                       ELSE IF tlb[p] = "dirty" THEN stale \cup {p} ELSE stale \ {p}
    /\ UNCHANGED <<managed, tier, young, tlb, phase, walk, late>>

ClearDone ==
    /\ phase = "clear" /\ todo = {}
    /\ phase' = "window"
    /\ UNCHANGED <<managed, tier, bits, walk, todo, lists, since, window>>

\* After clear_interval: pages for a full DRAM to switch with, or a free one to take.
SendFind ==
    /\ phase = "window"
    /\ phase' = "find" /\ walk' \in {"intensive", "switch"} /\ todo' = managed
    /\ UNCHANGED <<managed, tier, bits, lists, since, window>>

\* ambix_MixM asks for nothing when DRAM is over its threshold.
NoFind ==
    /\ build = "MixM" /\ phase = "window"
    /\ phase' = "idle" /\ walk' = "none" /\ late' = {} /\ swept' = {}
    /\ UNCHANGED <<managed, tier, bits, todo, lists, since>>

\* ambix_MixM: the thread of stdin gets placement_lock first.
SendOther ==
    /\ build = "MixM" /\ phase = "window"
    /\ phase' = "other" /\ walk' \in {"mem", "force", "write", "switch"} /\ todo' = managed
    /\ UNCHANGED <<managed, tier, bits, lists, since, window>>

\* do_migration or do_switch, as far as there is room for the pages.
MoveFound(moved) ==
    /\ moved \subseteq taken \cup deferred
    /\ tier' = [p \in Page |->
                 IF p \in moved THEN CHOOSE t \in Tier : t # TierOf(walk) ELSE tier[p]]
    /\ Remap(moved)
    /\ taken' = {} /\ deferred' = {}

FindDone ==
    /\ phase = "find" /\ todo = {}
    /\ \E moved \in SUBSET Page : MoveFound(moved)
    /\ phase' = "idle" /\ walk' = "none" /\ late' = {} /\ swept' = {}
    /\ UNCHANGED <<managed, todo, since>>

OtherDone ==
    /\ phase = "other" /\ todo = {}
    /\ \E moved \in SUBSET Page : MoveFound(moved) /\ swept' = swept \cup moved
    /\ phase' = "window" /\ walk' = "none"
    /\ UNCHANGED <<managed, todo, since, late>>

Next ==
    /\ UNCHANGED build
    /\ \/ Environment
       \/ \E p \in Page : Bind(p) \/ Migrate(p) \/ Visit(p)
       \/ SendClear \/ ClearDone \/ NoFind \/ SendFind \/ FindDone
       \/ SendOther \/ OtherDone

Spec == Init /\ [][Next]_vars

-----------------------------------------------------------------------------
(* A page memcheck of ambix_hyb finds as written is one that was written
   after the CLEAR was at it, unless its process was bound in the window
   between CLEAR and FIND, which no lock closes.                           *)
PriorityIsHot == build = "hyb" => taken \subseteq written \cup late

(* A page memcheck of ambix_MixM takes because nobody writes to it was not
   written between the CLEAR and that moment, with two exceptions.  Another
   FIND got in between, which cleans and moves pages: the lock is not held
   for the whole window.  Or a processor held the page as dirty when the CLEAR
   cleaned it: no walk flushes the TLB, so that its writes show in no PTE until
   it lets go of the translation, and a page in heavy use passes as unwritten. *)
UnwrittenWhenTaken ==
    [][ build = "MixM" /\ phase = "find" =>
          \A p \in taken' \ taken : p \in written => p \in swept \cup stale ]_vars

(* "unset modified bit", next to pte_mkold, with the dirty bit named on its
   own line: a page the CLEAR was at and nobody accessed since is not young. *)
ClearedIsOld ==
    phase \in {"window", "find"} =>
        \A p \in (managed \ late) \ touched : tier[p] = "NVRAM" => p \notin young
=============================================================================
