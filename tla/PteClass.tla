------------------------------ MODULE PteClass ------------------------------
(***************************************************************************)
(* What each PTE callback of the kernel module makes of a page from its    *)
(* accessed bit y and its dirty bit d (src/src/ambix_hyb-mod.c 168-403).   *)
(* A page the callback's tier does not hold, that is not present or that   *)
(* is write protected is passed over before the bits are looked at.        *)
(***************************************************************************)

Tier == {"DRAM", "NVRAM"}

\* The callback each mode walks with first; a switch goes on with "mem".
CallbackOf ==
    [DRAM_MODE |-> "mem", NVRAM_MODE |-> "force", NVRAM_INTENSIVE_MODE |-> "intensive",
     NVRAM_WRITE_MODE |-> "write", SWITCH_MODE |-> "switch", NVRAM_CLEAR |-> "clear"]

TierOf(cb) == IF cb = "mem" THEN "DRAM" ELSE "NVRAM"

\* The page goes on the list of found pages.
Takes(cb, y, d) ==
    CASE cb = "mem" -> ~y
      [] cb \in {"force", "write", "intensive", "switch"} -> y /\ d
      [] cb = "clear" -> FALSE

\* The page goes on a backup list, if that has room.
Defers(cb, y, d) ==
    CASE cb = "mem" -> y /\ ~d
      [] cb = "force" -> ~(y /\ d)
      [] cb = "write" -> ~y /\ d
      [] cb \in {"intensive", "switch"} -> y /\ ~d
      [] cb = "clear" -> FALSE

Cleans_NotOnClear(cb, y, d) ==
    CASE cb = "mem" -> y
      [] cb = "force" -> ~(y /\ d)
      [] OTHER -> FALSE

\* The callback writes the PTE back: without its dirty bit, and with the accessed
\* bit it had, because the second assignment to *ptep starts from old_pte again.
Cleans(cb, y, d) ==
    CASE cb = "mem" -> y
      [] cb = "force" -> ~(y /\ d)
      [] cb \in {"write", "intensive", "switch"} -> FALSE
      [] cb = "clear" -> TRUE

(* The module of ambix_MixM (src/src/ambix-MixM/ambix_MixM-mod.c 168-397),
   where DRAM is a cache of some of NVRAM.  Its priority pages are read and
   not written, and these two callbacks go on to write the PTE back.       *)
TakesMixM_AsHyb(cb, y, d) == Takes(cb, y, d)

TakesMixM(cb, y, d) ==
    CASE cb \in {"intensive", "switch"} -> y /\ ~d
      [] OTHER -> Takes(cb, y, d)

DefersMixM(cb, y, d) ==
    CASE cb \in {"mem", "intensive", "switch"} -> y /\ d
      [] OTHER -> Defers(cb, y, d)

CleansMixM(cb, y, d) ==
    CASE cb = "intensive" -> ~(y /\ ~d)
      [] cb = "switch" -> TRUE
      [] OTHER -> Cleans(cb, y, d)
=============================================================================
