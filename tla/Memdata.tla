------------------------------- MODULE Memdata -------------------------------
(***************************************************************************)
(* The file through which the bandwidth sampler tells the daemon how busy  *)
(* the memory is, in time: PCM measures for PCM_DELAY seconds and replaces *)
(* the file (src/src/pcm-mod/pcm-memory.cpp); memcheck_placement looks at  *)
(* the file's modification time, reads it, acts, and sleeps                *)
(* (src/src/ambix_hyb-ctl.c).                                              *)
(*                                                                         *)
(* Time passes in ticks.  Two programs share a disk and no lock; either is *)
(* at most LATE ticks behind its timer, PCM with all it does in a period.  *)
(***************************************************************************)
EXTENDS Integers

CONSTANTS
    SECOND,      \* ticks in a second; PCM_DELAY and MEMCHECK_INTERVAL are one second
    CLEAR,       \* ticks in clear_interval
    LATE,
    MAX_TIME,    \* bound: the time the model covers
    Switched,    \* numbers do_switch returns; it counts some failures twice
    Moved,       \* numbers do_migration returns
    Crashes      \* PCM may be killed and started again; bound: once

ASSUME TimeAssumption ==
    /\ SECOND \in Nat /\ CLEAR \in Nat /\ LATE \in Nat /\ MAX_TIME \in Nat
    /\ 0 < SECOND /\ CLEAR < SECOND /\ Crashes \in BOOLEAN
    /\ Switched \subseteq Int /\ Moved \subseteq Nat

VARIABLES
    now,
    pcm, due,            \* where PCM is, and when it had to wake up
    BeforeTime,          \* when its measurement began
    md_pcm,              \* what it measured
    tmp, file,           \* memdata.tmp and memdata
    at, wake,            \* where memcheck is, and the time of its next step
    prev_memdata_lmod,
    md,                  \* what it read
    switch_migrated,
    clear_at,            \* history: when it sent its last CLEAR
    since,               \* history: the CLEAR, or the end, of the last round that counted pages
    seen,                \* history: what the daemon has done with the sample in the file
    ignored,             \* history: rounds in a row that found the file old
    crashed              \* history

clock == <<now>>
sampler == <<pcm, due, BeforeTime, md_pcm>>
files == <<tmp, file>>
daemon == <<at, wake, prev_memdata_lmod, md, switch_migrated, clear_at, since>>
history == <<seen, ignored>>
vars == <<clock, sampler, files, daemon, history, crashed>>

NoFile == [mtime |-> 0, sample |-> [from |-> 0, to |-> 0], data |-> "none"]
NoSample == NoFile.sample
Old == [mtime |-> 1, sample |-> [from |-> 0, to |-> 1], data |-> "whole"]
START == 2 * SECOND

\* st_mtime counts seconds.
Mtime_Coarse(t) == t \div (2 * SECOND)
Mtime(t) == t \div SECOND

Init ==
    /\ now = START
    /\ pcm = "sleep" /\ due \in now .. now + SECOND /\ BeforeTime = now /\ md_pcm = NoSample
    /\ tmp = NoFile /\ file \in {NoFile, Old}
    /\ at = "stat" /\ wake = now /\ prev_memdata_lmod = 0 /\ md = NoFile /\ switch_migrated = 0
    /\ clear_at = 0 /\ since = 0
    /\ seen = "no" /\ ignored = 0 /\ crashed = FALSE

\* Time passes until somebody would be later than LATE.
Tick ==
    /\ now < MAX_TIME
    /\ pcm # "dead" => now < due + LATE
    /\ now < wake + LATE
    /\ now' = now + 1
    /\ UNCHANGED <<sampler, files, daemon, history, crashed>>

-----------------------------------------------------------------------------
(* main and write_memdata of PCM.                                          *)

PcmMeasure ==
    /\ pcm = "sleep" /\ now >= due
    /\ md_pcm' = [from |-> BeforeTime, to |-> now]
    /\ BeforeTime' = now
    /\ pcm' = "fopen"
    /\ UNCHANGED <<clock, due, files, daemon, history, crashed>>

PcmOpen_InPlace ==
    /\ pcm = "fopen"
    /\ file' = [mtime |-> Mtime(now), sample |-> md_pcm, data |-> "none"]
    /\ pcm' = "fwrite"
    /\ UNCHANGED <<clock, due, BeforeTime, md_pcm, tmp, daemon, history, crashed>>

\* fopen("memdata.tmp", "w") empties a file an earlier run left behind.
PcmOpen ==
    /\ pcm = "fopen"
    /\ tmp' = [mtime |-> Mtime(now), sample |-> md_pcm, data |-> "none"]
    /\ pcm' = "fwrite"
    /\ UNCHANGED <<clock, due, BeforeTime, md_pcm, file, daemon, history, crashed>>

\* fwrite and fclose; nobody looks whether the disk was full.
PcmWrite ==
    /\ pcm = "fwrite"
    /\ \E data \in {"whole", "short"} :
         tmp' = [mtime |-> Mtime(now), sample |-> md_pcm, data |-> data]
    /\ pcm' = "rename"
    /\ UNCHANGED <<clock, due, BeforeTime, md_pcm, file, daemon, history, crashed>>

PcmRename_SleepsTwice ==
    /\ pcm = "rename"
    /\ file' = tmp /\ tmp' = NoFile
    /\ pcm' = "sleep" /\ due' = now + 2 * SECOND
    /\ seen' = IF at = "read" THEN "swapped" ELSE "no"
    /\ UNCHANGED <<clock, BeforeTime, md_pcm, daemon, ignored, crashed>>

\* rename, and the next MySleep.
PcmRename ==
    /\ pcm = "rename"
    /\ file' = tmp /\ tmp' = NoFile
    /\ pcm' = "sleep" /\ due' = now + SECOND
    /\ seen' = IF at = "read" THEN "swapped" ELSE "no"
    /\ UNCHANGED <<clock, BeforeTime, md_pcm, daemon, ignored, crashed>>

PcmCrash ==
    /\ Crashes /\ ~crashed
    /\ pcm' = "dead" /\ crashed' = TRUE
    /\ UNCHANGED <<clock, due, BeforeTime, md_pcm, files, daemon, history>>

PcmStart ==
    /\ pcm = "dead"
    /\ pcm' = "sleep" /\ due' = now + SECOND /\ BeforeTime' = now
    /\ UNCHANGED <<clock, md_pcm, files, daemon, history, crashed>>

Pcm == PcmMeasure \/ PcmOpen \/ PcmWrite \/ PcmRename \/ PcmCrash \/ PcmStart

-----------------------------------------------------------------------------
(* memcheck_placement.                                                     *)

Due(l) == at = l /\ now >= wake

\* "Old or invalid memdata values. Ignoring..."
StatOld ==
    /\ Due("stat")
    /\ file.mtime = 0 \/ file.mtime = prev_memdata_lmod
    /\ at' = "thresh" /\ wake' = now
    /\ ignored' = IF file.mtime = 0 THEN 0 ELSE IF ignored < 2 THEN ignored + 1 ELSE 2
    /\ UNCHANGED <<clock, sampler, files, prev_memdata_lmod, md, switch_migrated, clear_at, since, seen, crashed>>

StatNew_Forgets ==
    /\ Due("stat")
    /\ file.mtime # 0 /\ file.mtime # prev_memdata_lmod
    /\ at' = "read" /\ wake' = now
    /\ ignored' = 0
    /\ UNCHANGED <<clock, sampler, files, prev_memdata_lmod, md, switch_migrated, clear_at, since, seen, crashed>>

StatNew ==
    /\ Due("stat")
    /\ file.mtime # 0 /\ file.mtime # prev_memdata_lmod
    /\ prev_memdata_lmod' = file.mtime
    /\ at' = "read" /\ wake' = now
    /\ ignored' = 0
    /\ UNCHANGED <<clock, sampler, files, md, switch_migrated, clear_at, since, seen, crashed>>

\* read_memdata opens the file again; a short file leaves md as malloc returned it.
Read ==
    /\ Due("read")
    /\ md' = file
    /\ at' = "decide" /\ wake' = now
    /\ seen' = IF seen = "swapped" THEN "raced" ELSE "read"
    /\ UNCHANGED <<clock, sampler, files, prev_memdata_lmod, switch_migrated, clear_at, since,
                   ignored, crashed>>

\* The values are valid and above NVRAM_BW_THRESH, or not: send_find(0, NVRAM_CLEAR).
Decide ==
    /\ Due("decide")
    /\ \/ at' = "thresh" /\ wake' = now /\ UNCHANGED clear_at
       \/ at' = "find" /\ wake' = now + CLEAR /\ clear_at' = now
    /\ UNCHANGED <<clock, sampler, files, prev_memdata_lmod, md, switch_migrated, since, history,
                   crashed>>

\* After clear_interval.
Find ==
    /\ Due("find")
    /\ switch_migrated' \in Switched
    /\ at' = "thresh" /\ wake' = now
    /\ UNCHANGED <<clock, sampler, files, prev_memdata_lmod, md, clear_at, since, history, crashed>>

SleepInterval_Once(thresh_migrated) == SECOND

\* "give time for bw to settle given the migrated pages", if n_migrated > 0.
SleepInterval(thresh_migrated) ==
    IF switch_migrated + thresh_migrated > 0
    THEN 2 * SECOND - (IF switch_migrated > 0 THEN CLEAR ELSE 0)
    ELSE SECOND

\* thresh_act migrates or does not, and memcheck sleeps.
Thresh ==
    /\ Due("thresh")
    /\ \E thresh_migrated \in Moved :
         /\ wake' = now + SleepInterval(thresh_migrated)
         /\ since' = IF switch_migrated + thresh_migrated > 0
                     THEN IF switch_migrated > 0 THEN clear_at ELSE now
                     ELSE since
    /\ at' = "stat" /\ md' = NoFile /\ clear_at' = 0 /\ switch_migrated' = 0
    /\ UNCHANGED <<clock, sampler, files, prev_memdata_lmod, history, crashed>>

Memcheck == StatOld \/ StatNew \/ Read \/ Decide \/ Find \/ Thresh

Next == Tick \/ Pcm \/ Memcheck

Spec == Init /\ [][Next]_vars

-----------------------------------------------------------------------------
(* What memcheck looks at is a sample PCM had finished writing, whatever PCM
   is doing meanwhile and wherever it was killed.  It may be short because
   the disk was full.                                                      *)
SampleFinished == at = "decide" => md.data # "none"

(* The daemon reads no sample a second time, except one that replaced the
   file between its stat and its fopen: the next stat shows an mtime it does
   not know, and the sample counts as new once more, and only once.        *)
UsedAgainOnlyAfterRace ==
    [][ Read => seen # "read" ]_vars

(* A round that ignores the file as old misses nothing: the daemon has used
   the sample in it, although mtimes are compared by the second.           *)
IgnoredWasUsed == [][ StatOld /\ file.mtime # 0 => seen # "no" ]_vars

(* While PCM runs, no two rounds in a row go without a new sample.         *)
FreshEverySecondRound == ~crashed => ignored <= 1

(* While PCM runs, no sample the daemon decides on reaches back behind the
   CLEAR of the last round that ended with n_migrated > 0, or behind its end
   if do_switch's part of that was not positive, except by how late PCM was in
   three periods.  What the round did after its CLEAR the sample may take in:
   clear_interval is taken off the sleep.  A round that ends with n_migrated
   at 0 or below sleeps one period and is not among them, even if it moved
   pages: do_switch takes off the failures it counts again in every pass.  *)
MeasuredAfterClear ==
    at = "decide" /\ ~crashed => md.sample.from + 3 * LATE >= since
=============================================================================
