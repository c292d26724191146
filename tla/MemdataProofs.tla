-------------------------- MODULE MemdataProofs --------------------------
(***************************************************************************)
(* Proofs about Memdata, for a second of any number of ticks, any delays,  *)
(* any length of time, and with or without a crash of the sampler.         *)
(***************************************************************************)
EXTENDS Memdata, TLAPS

-----------------------------------------------------------------------------
(* Modification times.                                                     *)

LEMMA MtimeNat == \A t \in Nat : Mtime(t) \in Nat
BY TimeAssumption DEF Mtime

(* Later is not earlier by the second.                                     *)
LEMMA MtimeMonotone ==
    ASSUME NEW s \in Nat, NEW t \in Nat, s <= t
    PROVE  Mtime(s) <= Mtime(t)
<1>1. /\ s \div SECOND \in Nat /\ s % SECOND \in 0 .. SECOND - 1
      /\ s = SECOND * (s \div SECOND) + (s % SECOND)
  BY TimeAssumption
<1>2. /\ t \div SECOND \in Nat /\ t % SECOND \in 0 .. SECOND - 1
      /\ t = SECOND * (t \div SECOND) + (t % SECOND)
  BY TimeAssumption
<1> DEFINE q == s \div SECOND
           r == t \div SECOND
<1>3. SECOND * q < SECOND * (r + 1)
  <2>1. SECOND * (r + 1) = SECOND * r + SECOND
    BY <1>2, TimeAssumption
  <2> QED
    BY <1>1, <1>2, <2>1, TimeAssumption
<1>4. q < r + 1
  BY <1>1, <1>2, <1>3, TimeAssumption
<1> QED
  BY <1>1, <1>2, <1>4 DEF Mtime

(* A second later the mtime is another one.                                *)
LEMMA MtimeAdvances ==
    ASSUME NEW t \in Nat
    PROVE  Mtime(t) < Mtime(t + SECOND)
<1>1. /\ t \div SECOND \in Nat /\ t % SECOND \in 0 .. SECOND - 1
      /\ t = SECOND * (t \div SECOND) + (t % SECOND)
  BY TimeAssumption
<1> DEFINE u == t + SECOND
<1>2. /\ u \div SECOND \in Nat /\ u % SECOND \in 0 .. SECOND - 1
      /\ u = SECOND * (u \div SECOND) + (u % SECOND)
  BY TimeAssumption
<1> DEFINE q == t \div SECOND
           r == u \div SECOND
<1>3. SECOND * (q + 1) < SECOND * (r + 1)
  <2>1. SECOND * (r + 1) = SECOND * r + SECOND /\ SECOND * (q + 1) = SECOND * q + SECOND
    BY <1>1, <1>2, TimeAssumption
  <2> QED
    BY <1>1, <1>2, <2>1, TimeAssumption
<1>4. q + 1 < r + 1
  BY <1>1, <1>2, <1>3, TimeAssumption
<1> QED
  BY <1>1, <1>2, <1>4 DEF Mtime

(* The first file PCM writes is newer than one of an earlier run.          *)
LEMMA MtimeStart == Mtime(START) >= 2
<1>1. START \in Nat /\ SECOND \in Nat /\ START = SECOND + SECOND
  BY TimeAssumption DEF START
<1>2. Mtime(SECOND) < Mtime(SECOND + SECOND) /\ Mtime(0) < Mtime(0 + SECOND)
  BY MtimeAdvances, <1>1
<1>3. Mtime(0) \in Nat /\ Mtime(SECOND) \in Nat /\ Mtime(START) \in Nat
  BY MtimeNat, <1>1
<1>4. 0 + SECOND = SECOND
  BY <1>1
<1> QED
  BY <1>1, <1>2, <1>3, <1>4

-----------------------------------------------------------------------------
(* The inductive invariant.                                                *)

Sample == [from : Nat, to : Nat]
File == [mtime : Nat, sample : Sample, data : {"whole", "short", "none"}]

Types ==
    /\ now \in Nat /\ START <= now
    /\ pcm \in {"sleep", "fopen", "fwrite", "rename", "dead"}
    /\ due \in Nat /\ BeforeTime \in Nat /\ md_pcm \in Sample
    /\ tmp \in File /\ file \in File
    /\ at \in {"stat", "read", "decide", "find", "thresh"}
    /\ wake \in Nat /\ prev_memdata_lmod \in Nat /\ md \in File
    /\ switch_migrated \in Int /\ clear_at \in Nat /\ since \in Nat
    /\ seen \in {"no", "read", "swapped", "raced"} /\ ignored \in 0 .. 2
    /\ crashed \in BOOLEAN

(* The next file PCM renames is newer by the second than the one there is,
   and finished; no file at all has mtime 0.                               *)
Ordered ==
    /\ file.mtime <= Mtime(now)
    /\ pcm = "sleep" => file.mtime < Mtime(due)
    /\ pcm \in {"fopen", "fwrite"} => file.mtime < Mtime(now)
    /\ pcm = "rename" =>
          file.mtime < tmp.mtime /\ tmp.mtime <= Mtime(now) /\ tmp.data # "none" /\ tmp.mtime >= 2
    /\ file.data = "none" => file.mtime = 0

(* What prev_memdata_lmod says about the sample in the file.               *)
Used ==
    /\ prev_memdata_lmod <= file.mtime
    /\ at = "read" => prev_memdata_lmod # 0
    /\ at = "decide" => md.data # "none"
    /\ seen = "no" => IF at = "read" THEN prev_memdata_lmod = file.mtime
                                      ELSE file.mtime = 0 \/ prev_memdata_lmod < file.mtime
    /\ seen = "swapped" => at = "read" /\ prev_memdata_lmod < file.mtime
    /\ seen = "read" => at # "read" /\ prev_memdata_lmod = file.mtime
    /\ seen = "raced" /\ at = "read" => prev_memdata_lmod = file.mtime

(* How long ago a running PCM began what it wrote: a period for the sample
   and one in the file, and what it is late by.                            *)
Punctual ==
    ~ crashed =>
        /\ pcm # "dead" /\ now <= due + LATE /\ due <= now + SECOND
        /\ pcm = "sleep" => due <= BeforeTime + SECOND + LATE
        /\ pcm # "sleep" =>
              due <= now /\ due <= BeforeTime /\ due <= md_pcm.from + SECOND + LATE
        /\ pcm \in {"fwrite", "rename"} => tmp.sample = md_pcm
        /\ file.mtime >= 2 => due <= file.sample.from + 2 * SECOND + 2 * LATE

(* A file that is older than PCM is read in the first round or never.      *)
FirstRound ==
    file.mtime = 1 =>
        /\ at = "read" => since = 0
        /\ prev_memdata_lmod = 0 => at = "stat" /\ since = 0

(* The daemon looks at the file two seconds after the time in since.       *)
Settled ==
    /\ at = "stat" => since + 2 * SECOND <= wake
    /\ at # "stat" => since + 2 * SECOND <= now
    /\ at = "find" => clear_at + CLEAR <= wake
    /\ switch_migrated # 0 => at = "thresh" /\ clear_at + CLEAR <= now

IInv ==
    /\ Types /\ Ordered /\ Used /\ Punctual /\ FirstRound /\ Settled /\ MeasuredAfterClear

-----------------------------------------------------------------------------
LEMMA IInvInit == Init => IInv
<1> SUFFICES ASSUME Init PROVE IInv
  OBVIOUS
<1> USE TimeAssumption DEF Init, NoFile, Old, NoSample, START
<1>1. Types
  <2>1. NoSample \in Sample /\ NoFile \in File /\ file \in File
    BY DEF Sample, File
  <2>2. now \in Nat /\ START <= now /\ due \in Nat
    OBVIOUS
  <2>3. tmp = NoFile /\ md = NoFile /\ md_pcm = NoSample
    OBVIOUS
  <2>4. switch_migrated \in Int
    OBVIOUS
  <2>6. crashed \in BOOLEAN
    OBVIOUS
  <2>5. /\ BeforeTime \in Nat /\ wake \in Nat /\ prev_memdata_lmod \in Nat /\ clear_at \in Nat
        /\ since \in Nat /\ ignored \in 0 .. 2 /\ pcm = "sleep" /\ at = "stat" /\ seen = "no"
    BY <2>2
  <2> QED
    BY ONLY <2>1, <2>2, <2>3, <2>4, <2>5, <2>6 DEF Types
<1>2. /\ Mtime(now) \in Nat /\ Mtime(now) >= 2 /\ Mtime(due) \in Nat /\ Mtime(due) >= 2
  BY <1>1, MtimeStart, MtimeMonotone, MtimeNat DEF Types
<1>3. Ordered /\ Used
  BY <1>1, <1>2 DEF Ordered, Used, Types
<1>4. Punctual /\ FirstRound /\ Settled /\ MeasuredAfterClear
  BY <1>1 DEF Punctual, FirstRound, Settled, MeasuredAfterClear, Types, Sample, File
<1> QED
  BY <1>1, <1>3, <1>4 DEF IInv

LEMMA TickStep == ASSUME IInv, Tick PROVE IInv'
<1> USE TimeAssumption DEF IInv, clock, sampler, files, daemon, history, Tick
<1>1. Types'
  BY DEF Types, START
<1>2. Ordered'
  <2>1. Mtime(now) <= Mtime(now + 1) /\ Mtime(now) \in Nat /\ Mtime(now + 1) \in Nat
    BY MtimeNat, MtimeMonotone DEF Types
  <2> QED
    BY <1>1, <2>1 DEF Types, File, Ordered
<1>3. Used'
  BY <1>1 DEF Types, Ordered, Used
<1>4. Punctual'
  BY <1>1 DEF Types, Ordered, Punctual, Sample, File
<1>5. FirstRound'
  BY <1>1 DEF Types, Ordered, Used, FirstRound
<1>6. Settled'
  BY <1>1 DEF Types, Settled
<1>7. MeasuredAfterClear'
  BY <1>1 DEF Types, Ordered, Used, Punctual, FirstRound, Settled, MeasuredAfterClear, Sample, File
<1> QED
  BY <1>1, <1>2, <1>3, <1>4, <1>5, <1>6, <1>7

LEMMA PcmMeasureStep == ASSUME IInv, PcmMeasure PROVE IInv'
<1> USE TimeAssumption DEF IInv, clock, sampler, files, daemon, history, PcmMeasure
<1>1. Types'
  BY DEF Types, Sample, File
<1>2. Ordered'
  <2>1. Mtime(due) <= Mtime(now) /\ Mtime(now) \in Nat /\ Mtime(due) \in Nat
    BY MtimeNat, MtimeMonotone DEF Types
  <2> QED
    BY <1>1, <2>1 DEF Types, File, Ordered
<1>3. Used'
  BY <1>1 DEF Types, Ordered, Used
<1>4. Punctual'
  BY <1>1 DEF Types, Ordered, Punctual, Sample, File
<1>5. FirstRound'
  BY <1>1 DEF Types, Ordered, Used, FirstRound
<1>6. Settled'
  BY <1>1 DEF Types, Settled
<1>7. MeasuredAfterClear'
  BY <1>1 DEF Types, Ordered, Used, Punctual, FirstRound, Settled, MeasuredAfterClear, Sample, File
<1> QED
  BY <1>1, <1>2, <1>3, <1>4, <1>5, <1>6, <1>7

LEMMA PcmOpenStep == ASSUME IInv, PcmOpen PROVE IInv'
<1> USE TimeAssumption DEF IInv, clock, sampler, files, daemon, history, PcmOpen
<1>1. Types'
  BY MtimeNat, MtimeMonotone, MtimeAdvances, MtimeStart DEF Types, Sample, File
<1>2. Ordered'
  BY <1>1, MtimeNat, MtimeMonotone, MtimeAdvances, MtimeStart DEF Types, Ordered
<1>3. Used'
  BY <1>1 DEF Types, Ordered, Used
<1>4. Punctual'
  BY <1>1 DEF Types, Ordered, Punctual, Sample, File
<1>5. FirstRound'
  BY <1>1 DEF Types, Ordered, Used, FirstRound
<1>6. Settled'
  BY <1>1 DEF Types, Settled
<1>7. MeasuredAfterClear'
  BY <1>1 DEF Types, Ordered, Used, Punctual, FirstRound, Settled, MeasuredAfterClear, Sample, File
<1> QED
  BY <1>1, <1>2, <1>3, <1>4, <1>5, <1>6, <1>7

LEMMA PcmWriteStep == ASSUME IInv, PcmWrite PROVE IInv'
<1> USE TimeAssumption DEF IInv, clock, sampler, files, daemon, history, PcmWrite
<1>1. Types'
  BY MtimeNat, MtimeMonotone, MtimeAdvances, MtimeStart DEF Types, Sample, File
<1>2. Ordered'
  <2>1. Mtime(START) <= Mtime(now) /\ Mtime(START) >= 2 /\ Mtime(START) \in Nat /\ Mtime(now) \in Nat
    BY MtimeNat, MtimeMonotone, MtimeStart DEF Types, START
  <2>2. tmp'.mtime = Mtime(now) /\ tmp'.data # "none"
    OBVIOUS
  <2> QED
    BY <1>1, <2>1, <2>2 DEF Types, File, Ordered
<1>3. Used'
  BY <1>1 DEF Types, Ordered, Used
<1>4. Punctual'
  BY <1>1 DEF Types, Ordered, Punctual, Sample, File
<1>5. FirstRound'
  BY <1>1 DEF Types, Ordered, Used, FirstRound
<1>6. Settled'
  BY <1>1 DEF Types, Settled
<1>7. MeasuredAfterClear'
  BY <1>1 DEF Types, Ordered, Used, Punctual, FirstRound, Settled, MeasuredAfterClear, Sample, File
<1> QED
  BY <1>1, <1>2, <1>3, <1>4, <1>5, <1>6, <1>7

LEMMA PcmRenameStep == ASSUME IInv, PcmRename PROVE IInv'
<1> USE TimeAssumption DEF IInv, clock, sampler, files, daemon, history, PcmRename, NoFile, NoSample
<1>1. Types'
  BY DEF Types, Sample, File
<1>2. Ordered'
  <2>1. Mtime(now) < Mtime(now + SECOND) /\ Mtime(now) \in Nat /\ Mtime(now + SECOND) \in Nat
    BY MtimeNat, MtimeAdvances DEF Types
  <2> QED
    BY <1>1, <2>1 DEF Types, File, Ordered
<1>3. Used'
  <2>1. /\ file'.mtime = tmp.mtime /\ file.mtime < tmp.mtime
        /\ file.mtime \in Nat /\ tmp.mtime \in Nat
        /\ prev_memdata_lmod <= file.mtime
        /\ UNCHANGED <<at, md, prev_memdata_lmod>>
    BY DEF Types, File, Ordered, Used
  <2>2. prev_memdata_lmod \in Nat /\ prev_memdata_lmod < file'.mtime
    BY <2>1 DEF Types
  <2>3. seen' = IF at = "read" THEN "swapped" ELSE "no"
    OBVIOUS
  <2> QED
    BY <2>1, <2>2, <2>3 DEF Used
<1>4. Punctual'
  BY <1>1 DEF Types, Ordered, Punctual, Sample, File
<1>5. FirstRound'
  BY <1>1 DEF Types, Ordered, Used, FirstRound
<1>6. Settled'
  BY <1>1 DEF Types, Settled
<1>7. MeasuredAfterClear'
  BY <1>1 DEF Types, Ordered, Used, Punctual, FirstRound, Settled, MeasuredAfterClear, Sample, File
<1> QED
  BY <1>1, <1>2, <1>3, <1>4, <1>5, <1>6, <1>7

LEMMA PcmCrashStep == ASSUME IInv, PcmCrash PROVE IInv'
<1> USE TimeAssumption DEF IInv, clock, sampler, files, daemon, history, PcmCrash
<1>1. Types'
  BY DEF Types, Sample, File
<1>2. Ordered'
  BY <1>1, MtimeNat, MtimeMonotone, MtimeAdvances, MtimeStart DEF Types, Ordered
<1>3. Used'
  BY <1>1 DEF Types, Ordered, Used
<1>4. Punctual'
  BY <1>1 DEF Types, Ordered, Punctual, Sample, File
<1>5. FirstRound'
  BY <1>1 DEF Types, Ordered, Used, FirstRound
<1>6. Settled'
  BY <1>1 DEF Types, Settled
<1>7. MeasuredAfterClear'
  BY <1>1 DEF Types, Ordered, Used, Punctual, FirstRound, Settled, MeasuredAfterClear, Sample, File
<1> QED
  BY <1>1, <1>2, <1>3, <1>4, <1>5, <1>6, <1>7

LEMMA PcmStartStep == ASSUME IInv, PcmStart PROVE IInv'
<1> USE TimeAssumption DEF IInv, clock, sampler, files, daemon, history, PcmStart
<1>1. Types'
  BY DEF Types, Sample, File
<1>2. Ordered'
  <2>1. Mtime(now) < Mtime(now + SECOND) /\ Mtime(now) \in Nat /\ Mtime(now + SECOND) \in Nat
    BY MtimeNat, MtimeAdvances DEF Types
  <2> QED
    BY <1>1, <2>1 DEF Types, File, Ordered
<1>3. Used'
  BY <1>1 DEF Types, Ordered, Used
<1>4. Punctual'
  BY <1>1 DEF Types, Ordered, Punctual, Sample, File
<1>5. FirstRound'
  BY <1>1 DEF Types, Ordered, Used, FirstRound
<1>6. Settled'
  BY <1>1 DEF Types, Settled
<1>7. MeasuredAfterClear'
  BY <1>1 DEF Types, Ordered, Used, Punctual, FirstRound, Settled, MeasuredAfterClear, Sample, File
<1> QED
  BY <1>1, <1>2, <1>3, <1>4, <1>5, <1>6, <1>7

LEMMA StatOldStep == ASSUME IInv, StatOld PROVE IInv'
<1> USE TimeAssumption DEF IInv, clock, sampler, files, daemon, history, StatOld, Due
<1>1. Types'
  BY DEF Types, Sample, File
<1>2. Ordered'
  BY <1>1, MtimeNat, MtimeMonotone, MtimeAdvances, MtimeStart DEF Types, Ordered
<1>3. Used'
  BY <1>1 DEF Types, Ordered, Used
<1>4. Punctual'
  BY <1>1 DEF Types, Ordered, Punctual, Sample, File
<1>5. FirstRound'
  BY <1>1 DEF Types, Ordered, Used, FirstRound
<1>6. Settled'
  BY <1>1 DEF Types, Settled
<1>7. MeasuredAfterClear'
  BY <1>1 DEF Types, Ordered, Used, Punctual, FirstRound, Settled, MeasuredAfterClear, Sample, File
<1> QED
  BY <1>1, <1>2, <1>3, <1>4, <1>5, <1>6, <1>7

LEMMA StatNewStep == ASSUME IInv, StatNew PROVE IInv'
<1> USE TimeAssumption DEF IInv, clock, sampler, files, daemon, history, StatNew, Due
<1>1. Types'
  BY DEF Types, Sample, File
<1>2. Ordered'
  BY <1>1, MtimeNat, MtimeMonotone, MtimeAdvances, MtimeStart DEF Types, Ordered
<1>3. Used'
  BY <1>1 DEF Types, Ordered, Used
<1>4. Punctual'
  BY <1>1 DEF Types, Ordered, Punctual, Sample, File
<1>5. FirstRound'
  BY <1>1 DEF Types, Ordered, Used, FirstRound
<1>6. Settled'
  BY <1>1 DEF Types, Settled
<1>7. MeasuredAfterClear'
  BY <1>1 DEF Types, Ordered, Used, Punctual, FirstRound, Settled, MeasuredAfterClear, Sample, File
<1> QED
  BY <1>1, <1>2, <1>3, <1>4, <1>5, <1>6, <1>7

LEMMA ReadStep == ASSUME IInv, Read PROVE IInv'
<1> USE TimeAssumption DEF IInv, clock, sampler, files, daemon, history, Read, Due
<1>1. Types'
  BY DEF Types, Sample, File
<1>2. Ordered'
  BY <1>1, MtimeNat, MtimeMonotone, MtimeAdvances, MtimeStart DEF Types, Ordered
<1>3. Used'
  <2>1. file.data # "none"
    BY DEF Types, File, Ordered, Used
  <2>2. at' = "decide" /\ md' = file /\ seen' = IF seen = "swapped" THEN "raced" ELSE "read"
    OBVIOUS
  <2>3. seen # "swapped" => prev_memdata_lmod = file.mtime
    BY DEF Types, File, Ordered, Used
  <2> QED
    BY <2>1, <2>2, <2>3 DEF Types, Used
<1>4. Punctual'
  BY <1>1 DEF Types, Ordered, Punctual, Sample, File
<1>5. FirstRound'
  BY <1>1 DEF Types, Ordered, Used, FirstRound
<1>6. Settled'
  BY <1>1 DEF Types, Settled
<1>7. MeasuredAfterClear'
  BY <1>1 DEF Types, Ordered, Used, Punctual, FirstRound, Settled, MeasuredAfterClear, Sample, File
<1> QED
  BY <1>1, <1>2, <1>3, <1>4, <1>5, <1>6, <1>7

LEMMA DecideStep == ASSUME IInv, Decide PROVE IInv'
<1> USE TimeAssumption DEF IInv, clock, sampler, files, daemon, history, Decide, Due
<1>1. Types'
  BY DEF Types, Sample, File
<1>2. Ordered'
  BY <1>1, MtimeNat, MtimeMonotone, MtimeAdvances, MtimeStart DEF Types, Ordered
<1>3. Used'
  BY <1>1 DEF Types, Ordered, Used
<1>4. Punctual'
  BY <1>1 DEF Types, Ordered, Punctual, Sample, File
<1>5. FirstRound'
  BY <1>1 DEF Types, Ordered, Used, FirstRound
<1>6. Settled'
  <2>1. since + 2 * SECOND <= now /\ switch_migrated = 0
    BY DEF Types, Settled
  <2>2. CASE at' = "find" /\ wake' = now + CLEAR /\ clear_at' = now
    BY <2>1, <2>2 DEF Types, Settled
  <2>3. CASE at' = "thresh" /\ UNCHANGED clear_at
    BY <2>1, <2>3 DEF Types, Settled
  <2> QED
    BY <2>2, <2>3
<1>7. MeasuredAfterClear'
  BY <1>1 DEF Types, Ordered, Used, Punctual, FirstRound, Settled, MeasuredAfterClear, Sample, File
<1> QED
  BY <1>1, <1>2, <1>3, <1>4, <1>5, <1>6, <1>7

LEMMA FindStep == ASSUME IInv, Find PROVE IInv'
<1> USE TimeAssumption DEF IInv, clock, sampler, files, daemon, history, Find, Due
<1>1. Types'
  BY DEF Types, Sample, File
<1>2. Ordered'
  BY <1>1, MtimeNat, MtimeMonotone, MtimeAdvances, MtimeStart DEF Types, Ordered
<1>3. Used'
  BY <1>1 DEF Types, Ordered, Used
<1>4. Punctual'
  BY <1>1 DEF Types, Ordered, Punctual, Sample, File
<1>5. FirstRound'
  BY <1>1 DEF Types, Ordered, Used, FirstRound
<1>6. Settled'
  BY <1>1 DEF Types, Settled
<1>7. MeasuredAfterClear'
  BY <1>1 DEF Types, Ordered, Used, Punctual, FirstRound, Settled, MeasuredAfterClear, Sample, File
<1> QED
  BY <1>1, <1>2, <1>3, <1>4, <1>5, <1>6, <1>7

LEMMA ThreshStep == ASSUME IInv, Thresh PROVE IInv'
<1> USE TimeAssumption DEF IInv, clock, sampler, files, daemon, history, Thresh, Due, NoFile, NoSample, SleepInterval
<1>1. Types'
  <2>1. \A n \in Moved : SleepInterval(n) \in Nat
    BY DEF Types
  <2>2. NoFile \in File
    BY DEF Sample, File
  <2> HIDE DEF SleepInterval, NoFile
  <2>3. PICK n \in Moved :
          /\ wake' = now + SleepInterval(n)
          /\ since' = IF switch_migrated + n > 0
                      THEN IF switch_migrated > 0 THEN clear_at ELSE now
                      ELSE since
    OBVIOUS
  <2>4. at' = "stat" /\ md' = NoFile /\ clear_at' = 0 /\ switch_migrated' = 0
    OBVIOUS
  <2>5. wake' \in Nat /\ since' \in Nat
    BY <2>1, <2>3 DEF Types
  <2>6. switch_migrated' \in Int
    BY <2>4
  <2> QED
    BY <2>2, <2>4, <2>5, <2>6 DEF Types
<1>2. Ordered'
  BY <1>1, MtimeNat, MtimeMonotone, MtimeAdvances, MtimeStart DEF Types, Ordered
<1>3. Used'
  BY <1>1 DEF Types, Ordered, Used
<1>4. Punctual'
  BY <1>1 DEF Types, Ordered, Punctual, Sample, File
<1>5. FirstRound'
  BY <1>1 DEF Types, Ordered, Used, FirstRound
<1>6. Settled'
  BY <1>1 DEF Types, Settled
<1>7. MeasuredAfterClear'
  BY <1>1 DEF Types, Ordered, Used, Punctual, FirstRound, Settled, MeasuredAfterClear, Sample, File
<1> QED
  BY <1>1, <1>2, <1>3, <1>4, <1>5, <1>6, <1>7

LEMMA IInvStep == IInv /\ [Next]_vars => IInv'
<1> SUFFICES ASSUME IInv, [Next]_vars PROVE IInv'
  OBVIOUS
<1>1. CASE Pcm
  BY <1>1, PcmMeasureStep, PcmOpenStep, PcmWriteStep, PcmRenameStep, PcmCrashStep, PcmStartStep DEF Pcm
<1>2. CASE Memcheck
  BY <1>2, StatOldStep, StatNewStep, ReadStep, DecideStep, FindStep, ThreshStep DEF Memcheck
<1>3. CASE UNCHANGED vars
  BY <1>3 DEF vars, clock, sampler, files, daemon, history, IInv, Types, Ordered, Used, Punctual,
              FirstRound, Settled, MeasuredAfterClear
<1> QED
  BY <1>1, <1>2, <1>3, TickStep DEF Next

(* The inductive invariant of sampler, file and daemon.                    *)
THEOREM Invariance == Spec => []IInv
BY IInvInit, IInvStep, PTL DEF Spec

-----------------------------------------------------------------------------
(* What follows.                                                           *)

(* The daemon never decides on a file that PCM has opened and not yet
   written, wherever PCM was killed.                                       *)
THEOREM SamplesFinished == Spec => []SampleFinished
<1>1. IInv => SampleFinished
  BY DEF IInv, Used, SampleFinished
<1> QED
  BY <1>1, Invariance, PTL

(* The sample the daemon decides on began no earlier than the CLEAR of the
   last round that ended with n_migrated > 0, but for three times the delay of
   PCM; a round in which do_switch's failures outweigh what was moved is not
   among these.                                                            *)
THEOREM SamplesSettled == Spec => []MeasuredAfterClear
BY Invariance, PTL DEF IInv

(* No sample is read twice unless it came between a stat and its fopen.    *)
THEOREM UsedOnce == Spec => UsedAgainOnlyAfterRace
<1>1. IInv /\ [Next]_vars => [Read => seen # "read"]_vars
  BY DEF IInv, Used, Read, Due
<1> QED
  BY <1>1, Invariance, PTL DEF Spec, UsedAgainOnlyAfterRace

(* No sample is taken for an old one: mtimes in seconds tell any two that
   PCM writes apart.                                                       *)
THEOREM NothingMissed == Spec => IgnoredWasUsed
<1>1. IInv /\ [Next]_vars => [StatOld /\ file.mtime # 0 => seen # "no"]_vars
  <2> SUFFICES ASSUME IInv, StatOld, file.mtime # 0, seen = "no"
               PROVE  FALSE
    OBVIOUS
  <2>1. file.mtime = prev_memdata_lmod /\ at = "stat"
    BY DEF StatOld, Due
  <2>2. file.mtime \in Nat
    BY DEF IInv, Types, File
  <2> QED
    BY <2>1, <2>2 DEF IInv, Used
<1> QED
  BY <1>1, Invariance, PTL DEF Spec, IgnoredWasUsed

-----------------------------------------------------------------------------
(* Two rounds in a row.                                                    *)

(* A file the daemon has used is replaced within a second of that, so the
   first round that ignores it is the last one, if PCM is less than a
   second late.                                                            *)
Replaced ==
    ~ crashed =>
        /\ ignored <= 1
        /\ file.mtime = prev_memdata_lmod /\ file.mtime # 0 =>
              /\ at = "stat" /\ ignored = 0 => due <= wake
              /\ at = "stat" /\ ignored = 1 => due + SECOND <= wake
              /\ at # "stat" /\ ignored = 1 => due <= now

LEMMA ReplacedStep ==
    ASSUME LATE < SECOND, IInv, Replaced, [Next]_vars
    PROVE  Replaced'
<1> USE TimeAssumption
    DEF IInv, Types, File, Sample, Punctual, Replaced, clock, sampler, files, daemon, history
<1>1. CASE Tick
  BY <1>1 DEF Tick
<1>2. CASE PcmMeasure
  BY <1>2 DEF PcmMeasure
<1>3. CASE PcmOpen
  BY <1>3 DEF PcmOpen
<1>4. CASE PcmWrite
  BY <1>4 DEF PcmWrite
<1>5. CASE PcmRename
  BY <1>5 DEF PcmRename, Ordered, Used
<1>6. CASE PcmCrash
  BY <1>6 DEF PcmCrash
<1>7. CASE PcmStart
  BY <1>7 DEF PcmStart
<1>8. CASE StatOld
  BY <1>8 DEF StatOld, Due
<1>9. CASE StatNew
  BY <1>9 DEF StatNew, Due
<1>10. CASE Read
  BY <1>10 DEF Read, Due
<1>11. CASE Decide
  BY <1>11 DEF Decide, Due
<1>12. CASE Find
  BY <1>12 DEF Find, Due
<1>13. CASE Thresh
  BY <1>13 DEF Thresh, Due, SleepInterval
<1>14. CASE UNCHANGED vars
  BY <1>14 DEF vars
<1> QED
  BY <1>1, <1>2, <1>3, <1>4, <1>5, <1>6, <1>7,
     <1>8, <1>9, <1>10, <1>11, <1>12, <1>13, <1>14 DEF Next, Pcm, Memcheck

(* While PCM runs and is less than a second late, of two rounds in a row
   one has a new sample.                                                   *)
THEOREM FreshSamples == ASSUME LATE < SECOND PROVE Spec => []FreshEverySecondRound
<1>1. Init => Replaced
  BY TimeAssumption DEF Init, NoFile, Old, NoSample, Replaced
<1>2. IInv /\ Replaced /\ [Next]_vars => Replaced'
  BY ReplacedStep
<1>3. Replaced => FreshEverySecondRound
  BY DEF Replaced, FreshEverySecondRound
<1> QED
  BY <1>1, <1>2, <1>3, Invariance, PTL DEF Spec
=============================================================================
