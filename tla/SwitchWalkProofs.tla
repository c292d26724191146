--------------------------- MODULE SwitchWalkProofs ---------------------------
(***************************************************************************)
(* Proofs about SwitchWalk: whatever the two walks of a switch have found, *)
(* the loops of switch_walk stay within the array and leave in it the      *)
(* pairs of PageWalk, so that everything proved of PageWalk holds of the   *)
(* module with its loops.                                                  *)
(***************************************************************************)
EXTENDS SwitchWalk, PageWalkProofs

-----------------------------------------------------------------------------
(* What the loops count.                                                   *)

Switching == pc = "end" /\ mode = "SWITCH_MODE" /\ walk = "mem"

Numbers ==
    /\ nvram_found \in Nat /\ dram_found \in Nat
    /\ n_backup \in Nat /\ n_switch_backup \in Nat
    /\ Len(found) = nvram_found + 1 + dram_found
    /\ found[nvram_found + 1] = Separator

LEMMA Counted ==
    ASSUME Types, Sorted, Switching
    PROVE  Numbers
<1>1. PICK s \in 1 .. Len(found) :
         s = CHOOSE k \in 1 .. Len(found) : found[k] = Separator
  BY Parts DEF Switching
<1>2. found[s] = Separator
  <2>1. \E k \in 1 .. Len(found) : found[k] = Separator
    BY DEF Sorted, Turned, Switching
  <2> QED
    BY <1>1, <2>1, Zenon
<1>3. nvram_found = s - 1
  BY <1>1, Zenon DEF nvram_found
<1>4. Len(found) \in Nat /\ n_backup \in Nat /\ n_switch_backup \in Nat
  BY DEF Types, n_backup, n_switch_backup
<1> QED
  BY <1>2, <1>3, <1>4 DEF Numbers, dram_found

LEMMA Room ==
    ASSUME Types, Sorted, Bounded, Sized, Switching
    PROVE  nvram_found <= MAX_N_SWITCH /\ dram_found <= MAX_N_SWITCH
<1>1. Numbers
  BY Counted
<1>2. PICK s \in 1 .. Len(found) : s = nvram_found + 1 /\ found[s] = Separator
  BY <1>1 DEF Numbers
<1>3. s - 1 <= MAX_N_SWITCH /\ n_to_find - s <= MAX_N_SWITCH
  BY <1>2 DEF Sized, Switching
<1>4. Len(found) <= n_to_find /\ n_to_find \in Nat /\ MAX_N_SWITCH \in Nat
  BY SizeAssumption DEF Bounded, Switching
<1> QED
  BY <1>1, <1>2, <1>3, <1>4 DEF Numbers

\* What the branches of switch_walk set.
LEMMA Branches ==
    ASSUME Numbers
    PROVE  /\ old_dram_start = nvram_found + 1 /\ kept \in Nat
           /\ FewDram =>
                 /\ ~FewNvram /\ to_add \in Nat \ {0} /\ to_add <= n_backup
                 /\ new_dram_start = dram_found + to_add + 1 /\ shifted = dram_found
                 /\ kept = new_dram_start - 1 /\ kept <= nvram_found
                 /\ Discards => new_dram_start < old_dram_start
                 /\ ~Discards => new_dram_start = old_dram_start
           /\ FewNvram =>
                 /\ ~FewDram /\ ~Discards /\ to_add \in Nat \ {0} /\ to_add <= n_switch_backup
                 /\ new_dram_start = nvram_found + 1 + to_add
                 /\ shifted = nvram_found + to_add /\ shifted <= dram_found
                 /\ kept = new_dram_start - 1
           /\ ~FewDram /\ ~FewNvram => /\ ~Discards
                                       /\ kept = IF dram_found = nvram_found THEN nvram_found ELSE 0
<1>1. CASE FewDram
  <2>1. ~FewNvram
    BY <1>1 DEF Numbers, FewDram, FewNvram
  <2> QED
    BY <1>1, <2>1 DEF Numbers, FewDram, Discards, to_add, old_dram_start, new_dram_start, shifted, kept
<1>2. CASE FewNvram
  <2>1. ~FewDram /\ ~Discards
    BY <1>2 DEF Numbers, FewDram, FewNvram, Discards
  <2> QED
    BY <1>2, <2>1 DEF Numbers, FewNvram, to_add, old_dram_start, new_dram_start, shifted, kept, IntMin
<1>3. CASE ~FewDram /\ ~FewNvram
  BY <1>3 DEF Numbers, Discards, old_dram_start, kept
<1> QED
  BY <1>1, <1>2, <1>3

-----------------------------------------------------------------------------
(* The array.                                                              *)

Element == Page \cup {Separator, Unwritten}

\* Element k of the reply.
Final(k) ==
    IF FewDram THEN
      IF k < new_dram_start - 1 THEN found[k + 1]
      ELSE IF k = new_dram_start - 1 THEN Separator
      ELSE IF k < new_dram_start + dram_found THEN found[(old_dram_start + (k - new_dram_start)) + 1]
      ELSE backups["mem"][(k - (new_dram_start + dram_found)) + 1]
    ELSE IF FewNvram THEN
      IF k < nvram_found THEN found[k + 1]
      ELSE IF k < nvram_found + to_add THEN backups["switch"][(k - nvram_found) + 1]
      ELSE IF k = nvram_found + to_add THEN Separator
      ELSE found[(old_dram_start + (k - new_dram_start)) + 1]
    ELSE IF dram_found = nvram_found THEN found[k + 1] ELSE Separator

\* Elements j to k are as they will be, or as they were.
Moved(j, k) == \A e \in j .. k : found_addrs[e] = Final(e)
Still(j, k) == \A e \in j .. k : found_addrs[e] = found[e + 1]

\* How far each loop is.
MInv ==
    /\ found_addrs \in [Slot -> Element]
    /\ loop # "none" => Switching
    /\ loop \in {"none", "left", "append", "right", "fill", "done"}
    /\ loop = "left" =>
          /\ FewDram /\ Discards /\ i \in 0 .. dram_found
          /\ Moved(0, (new_dram_start + i) - 1)
          /\ Still(old_dram_start + i, nvram_found + dram_found)
    /\ loop = "append" =>
          /\ FewDram /\ i \in 0 .. to_add
          /\ Moved(0, (new_dram_start + dram_found + i) - 1)
    /\ loop = "right" =>
          /\ FewNvram /\ i \in -1 .. shifted - 1
          /\ Still(0, old_dram_start + i)
          /\ Moved(new_dram_start + i + 1, new_dram_start + shifted - 1)
    /\ loop = "fill" =>
          /\ FewNvram /\ i \in 0 .. to_add
          /\ Moved(0, (nvram_found + i) - 1)
          /\ Moved(new_dram_start, new_dram_start + shifted - 1)
    /\ loop = "done" => Moved(0, 2 * kept)

\* The loops change nothing they count by.
LEMMA Rigid ==
    ASSUME UNCHANGED <<found, backups>>
    PROVE  /\ UNCHANGED <<nvram_found, dram_found, n_backup, n_switch_backup, FewDram, FewNvram,
                          Discards, to_add, old_dram_start, new_dram_start, shifted, kept, Array>>
           /\ \A k : Final(k)' = Final(k)
<1>1. UNCHANGED <<nvram_found, n_backup, n_switch_backup, Array>>
  BY DEF nvram_found, n_backup, n_switch_backup, Array
<1>2. dram_found' = dram_found
  BY <1>1 DEF dram_found
<1>3. FewDram' = FewDram /\ FewNvram' = FewNvram
  BY <1>1, <1>2 DEF FewDram, FewNvram
<1>4. Discards' = Discards
  BY <1>1, <1>2, <1>3 DEF Discards
<1>5. to_add' = to_add /\ old_dram_start' = old_dram_start
  BY <1>1, <1>2, <1>3, <1>4 DEF to_add, old_dram_start
<1>6. new_dram_start' = new_dram_start
  BY <1>1, <1>2, <1>3, <1>4, <1>5 DEF new_dram_start
<1>7. shifted' = shifted /\ kept' = kept
  BY <1>1, <1>2, <1>3, <1>5, <1>6 DEF shifted, kept
<1> QED
  BY <1>1, <1>2, <1>3, <1>4, <1>5, <1>6, <1>7 DEF Final

\* What is known at the end of the walks of a switch.
Fits ==
    /\ Numbers
    /\ nvram_found <= MAX_N_SWITCH /\ dram_found <= MAX_N_SWITCH
    /\ \A k \in 1 .. Len(found) : found[k] \in Page \cup {Separator}
    /\ \A k \in 1 .. n_backup : backups["mem"][k] \in Page
    /\ \A k \in 1 .. n_switch_backup : backups["switch"][k] \in Page

LEMMA FoundFits ==
    ASSUME Types, Sorted, Bounded, Sized, Switching
    PROVE  Fits
<1>1. Numbers /\ nvram_found <= MAX_N_SWITCH /\ dram_found <= MAX_N_SWITCH
  BY Counted, Room
<1>2. /\ found \in Seq(Page \cup {Separator}) /\ backups["mem"] \in Seq(Page)
      /\ backups["switch"] \in Seq(Page)
  BY DEF Types
<1> QED
  BY <1>1, <1>2, ElementOfSeq DEF Fits, n_backup, n_switch_backup

\* Every element of the reply is within reach of its source.
LEMMA FinalElement ==
    ASSUME Fits, NEW k \in 0 .. 2 * kept
    PROVE  k \in Slot /\ Final(k) \in Page \cup {Separator}
<1>1. k \in Slot
  BY Branches, SizeAssumption DEF Fits, Numbers, Slot, FewDram, FewNvram
<1> SUFFICES Final(k) \in Page \cup {Separator}
  BY <1>1
<1> USE DEF Fits, Numbers
<1>2. CASE FewDram
  <2>1. /\ old_dram_start = nvram_found + 1 /\ to_add \in Nat \ {0} /\ to_add <= n_backup
        /\ new_dram_start = dram_found + to_add + 1 /\ new_dram_start - 1 <= nvram_found
        /\ k <= 2 * (new_dram_start - 1)
    BY <1>2, Branches
  <2>2. CASE k < new_dram_start - 1
    BY <1>2, <2>1, <2>2 DEF Final
  <2>3. CASE k = new_dram_start - 1
    BY <1>2, <2>1, <2>3 DEF Final
  <2>4. CASE k >= new_dram_start /\ k < new_dram_start + dram_found
    <3>1. (old_dram_start + (k - new_dram_start)) + 1 \in 1 .. Len(found)
      BY <2>1, <2>4
    <3>2. Final(k) = found[(old_dram_start + (k - new_dram_start)) + 1]
      BY <1>2, <2>1, <2>4 DEF Final
    <3> QED
      BY <3>1, <3>2
  <2>5. CASE k >= new_dram_start + dram_found
    <3>1. (k - (new_dram_start + dram_found)) + 1 \in 1 .. n_backup
      BY <2>1, <2>5
    <3>2. Final(k) = backups["mem"][(k - (new_dram_start + dram_found)) + 1]
      BY <1>2, <2>1, <2>5 DEF Final
    <3> QED
      BY <3>1, <3>2
  <2>6. \/ k < new_dram_start - 1
        \/ k = new_dram_start - 1
        \/ k >= new_dram_start /\ k < new_dram_start + dram_found
        \/ k >= new_dram_start + dram_found
    BY <2>1
  <2> QED
    BY <2>2, <2>3, <2>4, <2>5, <2>6, Zenon
<1>3. CASE FewNvram
  <2>1. /\ old_dram_start = nvram_found + 1 /\ to_add \in Nat \ {0} /\ to_add <= n_switch_backup
        /\ new_dram_start = nvram_found + 1 + to_add /\ nvram_found + to_add <= dram_found
        /\ k <= 2 * (new_dram_start - 1) /\ ~FewDram
    BY <1>3, Branches
  <2>2. CASE k < nvram_found
    BY <1>3, <2>1, <2>2 DEF Final
  <2>3. CASE k >= nvram_found /\ k < nvram_found + to_add
    <3>1. (k - nvram_found) + 1 \in 1 .. n_switch_backup
      BY <2>1, <2>3
    <3>2. Final(k) = backups["switch"][(k - nvram_found) + 1]
      BY <1>3, <2>1, <2>3 DEF Final
    <3> QED
      BY <3>1, <3>2
  <2>4. CASE k = nvram_found + to_add
    BY <1>3, <2>1, <2>4 DEF Final
  <2>5. CASE k > nvram_found + to_add
    <3>1. (old_dram_start + (k - new_dram_start)) + 1 \in 1 .. Len(found)
      BY <2>1, <2>5
    <3>2. Final(k) = found[(old_dram_start + (k - new_dram_start)) + 1]
      BY <1>3, <2>1, <2>5 DEF Final
    <3> QED
      BY <3>1, <3>2
  <2>6. \/ k < nvram_found
        \/ k >= nvram_found /\ k < nvram_found + to_add
        \/ k = nvram_found + to_add
        \/ k > nvram_found + to_add
    BY <2>1
  <2> QED
    BY <2>2, <2>3, <2>4, <2>5, <2>6, Zenon
<1>4. CASE ~FewDram /\ ~FewNvram
  <2>1. kept = IF dram_found = nvram_found THEN nvram_found ELSE 0
    BY <1>4, Branches
  <2>2. dram_found = nvram_found => k + 1 \in 1 .. Len(found)
    BY <2>1
  <2> QED
    BY <1>4, <2>2 DEF Final
<1> QED
  BY <1>2, <1>3, <1>4

-----------------------------------------------------------------------------
(* The loops.                                                              *)

LEMMA BranchMoves ==
    ASSUME Fits, Switching, Branch
    PROVE  MInv'
<1> USE DEF Fits, Numbers
<1>1. /\ UNCHANGED <<found, backups>> /\ Switching'
      /\ found_addrs' = IF Discards THEN [Array EXCEPT ![new_dram_start - 1] = Separator]
                        ELSE IF kept = 0 THEN [Array EXCEPT ![0] = Separator] ELSE Array
      /\ loop' = IF FewNvram THEN "right" ELSE IF Discards THEN "left"
                 ELSE IF FewDram THEN "append" ELSE "done"
      /\ i' = IF FewNvram THEN shifted - 1 ELSE 0
  BY DEF Branch, SwitchMoves, vars, lists, request, Switching
<1>2. /\ nvram_found + dram_found \in Slot /\ 0 \in Slot
      /\ \A k \in 0 .. nvram_found + dram_found : k \in Slot
  BY SizeAssumption DEF Slot
<1>3. Array \in [Slot -> Element] /\ \A k \in 0 .. nvram_found + dram_found : Array[k] = found[k + 1]
  <2>1. \A k \in Slot : k < Len(found) => k + 1 \in 1 .. Len(found)
    BY SizeAssumption DEF Slot
  <2>2. Array \in [Slot -> Element]
    BY <2>1 DEF Array, Element
  <2> QED
    BY <1>2, <2>2 DEF Array
<1>4. CASE Discards
  <2>1. FewDram /\ ~FewNvram
    BY <1>4, Branches DEF Discards
  <2>2. new_dram_start - 1 \in Slot /\ new_dram_start \in Nat \ {0} /\ new_dram_start < old_dram_start
        /\ old_dram_start = nvram_found + 1 
    BY <1>2, <1>4, <2>1, Branches
  <2>3. /\ found_addrs' \in [Slot -> Element]
        /\ found_addrs'[new_dram_start - 1] = Separator
        /\ \A k \in Slot : k # new_dram_start - 1 => found_addrs'[k] = Array[k]
    BY <1>1, <1>3, <1>4, <2>2 DEF Element
  <2>4. \A k \in 0 .. new_dram_start - 1 : found_addrs'[k] = Final(k)
    BY <1>2, <1>3, <2>1, <2>2, <2>3 DEF Final
  <2>5. \A k \in old_dram_start .. nvram_found + dram_found : found_addrs'[k] = found[k + 1]
    BY <1>2, <1>3, <2>2, <2>3
  <2> QED
    BY <1>1, <1>4, <2>1, <2>2, <2>3, <2>4, <2>5, Rigid DEF MInv, Moved, Still
<1>5. CASE FewNvram
  <2>1. ~Discards /\ ~FewDram /\ kept # 0
    BY <1>5, Branches
  <2>0. /\ old_dram_start = nvram_found + 1 /\ shifted = nvram_found + to_add /\ shifted <= dram_found
        /\ to_add \in Nat \ {0} /\ new_dram_start = nvram_found + 1 + to_add
    BY <1>5, Branches
  <2>2. found_addrs' = Array /\ loop' = "right" /\ i' = shifted - 1
    BY <1>1, <1>5, <2>1
  <2>3. old_dram_start + (shifted - 1) <= nvram_found + dram_found /\ shifted - 1 \in -1 .. shifted - 1
    BY <2>0
  <2>4. \A k \in 0 .. old_dram_start + (shifted - 1) : found_addrs'[k] = found[k + 1]
    BY <1>3, <2>0, <2>2, <2>3
  <2>5. new_dram_start + (shifted - 1) + 1 .. new_dram_start + shifted - 1 = {}
    BY <2>0
  <2> QED
    BY <1>1, <1>3, <1>5, <2>2, <2>3, <2>4, <2>5, Rigid DEF MInv, Moved, Still
<1>6. CASE FewDram /\ ~Discards
  <2>1. /\ ~FewNvram /\ kept = nvram_found /\ kept # 0 /\ to_add \in Nat
        /\ old_dram_start = nvram_found + 1 /\ new_dram_start = nvram_found + 1
    BY <1>6, Branches
  <2>2. found_addrs' = Array /\ loop' = "append" /\ i' = 0
    BY <1>1, <1>6, <2>1
  <2>3. \A k \in 0 .. (new_dram_start + dram_found + 0) - 1 : found_addrs'[k] = Final(k)
    BY <1>3, <1>6, <2>1, <2>2 DEF Final
  <2> QED
    BY <1>1, <1>3, <1>6, <2>1, <2>2, <2>3, Rigid DEF MInv, Moved
<1>7. CASE ~FewDram /\ ~FewNvram
  <2>1. ~Discards /\ kept = IF dram_found = nvram_found THEN nvram_found ELSE 0
    BY <1>7, Branches
  <2>2. loop' = "done" /\ i' = 0
    BY <1>1, <1>7, <2>1
  <2>3. found_addrs' \in [Slot -> Element]
    BY <1>1, <1>2, <1>3, <2>1 DEF Element
  <2>4. \A k \in 0 .. 2 * kept : found_addrs'[k] = Final(k)
    <3>1. CASE dram_found = nvram_found /\ kept # 0
      BY <1>1, <1>3, <1>7, <2>1, <3>1 DEF Final
    <3>2. CASE kept = 0
      <4>1. found_addrs'[0] = Separator
        BY <1>1, <1>2, <1>3, <2>1, <3>2
      <4>2. Final(0) = Separator
        BY <1>7, <2>1, <3>2 DEF Final
      <4> QED
        BY <3>2, <4>1, <4>2
    <3> QED
      BY <2>1, <3>1, <3>2
  <2> QED
    BY <1>1, <2>2, <2>3, <2>4, Rigid DEF MInv, Moved
<1> QED
  BY <1>4, <1>5, <1>6, <1>7

LEMMA LeftMoves ==
    ASSUME Fits, Switching, MInv, ShiftLeft \/ LeftDone
    PROVE  MInv'
<1> USE DEF Fits, Numbers
<1>1. UNCHANGED <<found, backups>> /\ Switching' /\ loop = "left"
  BY DEF ShiftLeft, LeftDone, SwitchMoves, vars, lists, request, Switching
<1>2. /\ FewDram /\ Discards /\ i \in 0 .. dram_found
      /\ \A k \in 0 .. (new_dram_start + i) - 1 : found_addrs[k] = Final(k)
      /\ \A k \in old_dram_start + i .. nvram_found + dram_found : found_addrs[k] = found[k + 1]
      /\ found_addrs \in [Slot -> Element]
  BY <1>1 DEF MInv, Moved, Still
<1>3. /\ ~FewNvram /\ to_add \in Nat \ {0} /\ shifted = dram_found
      /\ old_dram_start = nvram_found + 1 /\ new_dram_start = dram_found + to_add + 1
      /\ new_dram_start < old_dram_start
  BY <1>2, Branches
<1>n. /\ i \in 0 .. dram_found /\ nvram_found \in Nat /\ dram_found \in Nat
      /\ old_dram_start = nvram_found + 1 /\ new_dram_start \in Nat
      /\ new_dram_start < old_dram_start
  BY <1>2, <1>3
<1>4. CASE ShiftLeft
  <2>1. /\ i < dram_found /\ i' = i + 1 /\ loop' = "left"
        /\ found_addrs' = [found_addrs EXCEPT ![new_dram_start + i] = found_addrs[old_dram_start + i]]
    BY <1>1, <1>3, <1>4 DEF ShiftLeft, Shift
  <2>2. /\ new_dram_start + i \in Slot /\ old_dram_start + i \in Slot
        /\ old_dram_start + i \in old_dram_start + i .. nvram_found + dram_found
    BY <1>2, <1>3, <2>1, SizeAssumption DEF Slot
  <2>3. /\ found_addrs' \in [Slot -> Element]
        /\ found_addrs'[new_dram_start + i] = found[(old_dram_start + i) + 1]
        /\ \A k \in Slot : k # new_dram_start + i => found_addrs'[k] = found_addrs[k]
    BY <1>2, <2>1, <2>2
  <2>4. \A k \in 0 .. nvram_found + dram_found : k \in Slot
    BY SizeAssumption DEF Slot
  <2>5. Final(new_dram_start + i) = found[(old_dram_start + i) + 1]
    <3>1. old_dram_start + ((new_dram_start + i) - new_dram_start) = old_dram_start + i
      BY <1>2, <1>3
    <3>2. ~(new_dram_start + i < new_dram_start - 1) /\ new_dram_start + i # new_dram_start - 1
          /\ new_dram_start + i < new_dram_start + dram_found
      BY <1>2, <1>3, <2>1
    <3> QED
      BY <1>2, <3>1, <3>2, Zenon DEF Final
  <2>6. \A k \in 0 .. (new_dram_start + (i + 1)) - 1 : found_addrs'[k] = Final(k)
    <3> TAKE k \in 0 .. (new_dram_start + (i + 1)) - 1
    <3>1. CASE k = new_dram_start + i
      BY <2>3, <2>5, <3>1
    <3>2. CASE k # new_dram_start + i
      <4>1. k \in 0 .. (new_dram_start + i) - 1 /\ k \in 0 .. nvram_found + dram_found
        BY <1>2, <1>3, <2>1, <3>2
      <4> QED
        BY <1>2, <2>3, <2>4, <3>2, <4>1
    <3> QED
      BY <3>1, <3>2
  <2>7. \A k \in old_dram_start + (i + 1) .. nvram_found + dram_found : found_addrs'[k] = found[k + 1]
    <3> TAKE k \in old_dram_start + (i + 1) .. nvram_found + dram_found
    <3>1. k \in old_dram_start + i .. nvram_found + dram_found /\ k \in 0 .. nvram_found + dram_found
          /\ k # new_dram_start + i
      <4> HIDE DEF Fits, Numbers
      <4> QED
        BY <1>n
    <3> QED
      BY <1>2, <2>3, <2>4, <3>1
  <2> QED
    BY <1>1, <1>2, <2>1, <2>3, <2>6, <2>7, Rigid DEF MInv, Moved, Still
<1>5. CASE LeftDone
  <2>1. i >= dram_found /\ i' = 0 /\ loop' = "append" /\ found_addrs' = found_addrs
    BY <1>3, <1>5 DEF LeftDone
  <2>2. (new_dram_start + i) - 1 = (new_dram_start + dram_found + 0) - 1
    BY <1>2, <1>3, <2>1
  <2>3. 0 \in 0 .. to_add
    BY <1>3
  <2> QED
    BY <1>1, <1>2, <2>1, <2>2, <2>3, Rigid DEF MInv, Moved
<1> QED
  BY <1>4, <1>5

LEMMA AppendMoves ==
    ASSUME Fits, Switching, MInv, AppendBackup \/ AppendDone
    PROVE  MInv'
<1> USE DEF Fits, Numbers
<1>1. UNCHANGED <<found, backups>> /\ Switching' /\ loop = "append"
  BY DEF AppendBackup, AppendDone, SwitchMoves, vars, lists, request, Switching
<1>2. /\ FewDram /\ i \in 0 .. to_add
      /\ \A k \in 0 .. (new_dram_start + dram_found + i) - 1 : found_addrs[k] = Final(k)
      /\ found_addrs \in [Slot -> Element]
  BY <1>1 DEF MInv, Moved
<1>3. /\ ~FewNvram /\ to_add \in Nat \ {0} /\ to_add <= n_backup
      /\ new_dram_start = dram_found + to_add + 1 /\ new_dram_start - 1 <= nvram_found
      /\ kept = new_dram_start - 1
  BY <1>2, Branches
<1>n. /\ i \in 0 .. to_add /\ to_add \in Nat /\ to_add <= n_backup /\ n_backup \in Nat
      /\ nvram_found \in Nat /\ dram_found \in Nat /\ kept = new_dram_start - 1
      /\ new_dram_start = dram_found + to_add + 1 /\ new_dram_start - 1 <= nvram_found
      /\ nvram_found <= MAX_N_SWITCH
  BY <1>2, <1>3
<1>m. \A k \in 1 .. n_backup : backups["mem"][k] \in Page
  OBVIOUS
<1> HIDE DEF Fits, Numbers
<1>4. CASE AppendBackup
  <2>1. /\ i < to_add /\ i' = i + 1 /\ loop' = "append"
        /\ found_addrs' =
             [found_addrs EXCEPT ![new_dram_start + dram_found + i] = backups["mem"][i + 1]]
    BY <1>1, <1>4 DEF AppendBackup
  <2>2. new_dram_start + dram_found + i \in Slot /\ i + 1 \in 1 .. n_backup
    <3>1. new_dram_start + dram_found + i <= 2 * nvram_found /\ new_dram_start + dram_found + i \in Nat
      BY <1>n, <2>1
    <3>2. i + 1 \in 1 .. n_backup
      BY <1>n, <2>1
    <3> QED
      BY <1>n, <3>1, <3>2, SizeAssumption DEF Slot
  <2>3. /\ found_addrs' \in [Slot -> Element]
        /\ found_addrs'[new_dram_start + dram_found + i] = backups["mem"][i + 1]
        /\ \A k \in Slot : k # new_dram_start + dram_found + i => found_addrs'[k] = found_addrs[k]
    BY <1>2, <1>m, <2>1, <2>2 DEF Element
  <2>4. Final(new_dram_start + dram_found + i) = backups["mem"][i + 1]
    <3>1. ((new_dram_start + dram_found + i) - (new_dram_start + dram_found)) + 1 = i + 1
      BY <1>n
    <3>2. ~(new_dram_start + dram_found + i < new_dram_start - 1)
          /\ new_dram_start + dram_found + i # new_dram_start - 1
          /\ ~(new_dram_start + dram_found + i < new_dram_start + dram_found)
      BY <1>n, <2>1
    <3> QED
      BY <1>2, <3>1, <3>2, Zenon DEF Final
  <2>5. \A k \in 0 .. (new_dram_start + dram_found + (i + 1)) - 1 : found_addrs'[k] = Final(k)
    <3> TAKE k \in 0 .. (new_dram_start + dram_found + (i + 1)) - 1
    <3>1. CASE k = new_dram_start + dram_found + i
      BY <2>3, <2>4, <3>1
    <3>2. CASE k # new_dram_start + dram_found + i
      <4>1. k \in 0 .. (new_dram_start + dram_found + i) - 1
        BY <1>n, <2>1, <3>2
      <4>2. k \in Slot
        BY <1>n, <2>2, <4>1, SizeAssumption DEF Slot
      <4> QED
        BY <1>2, <2>3, <3>2, <4>1, <4>2
    <3> QED
      BY <3>1, <3>2
  <2>6. i + 1 \in 0 .. to_add
    BY <1>n, <2>1
  <2> QED
    BY <1>1, <1>2, <2>1, <2>3, <2>5, <2>6, Rigid DEF MInv, Moved
<1>5. CASE AppendDone
  <2>1. i >= to_add /\ loop' = "done" /\ found_addrs' = found_addrs
    BY <1>5 DEF AppendDone
  <2>2. (new_dram_start + dram_found + i) - 1 = 2 * kept
    BY <1>n, <2>1
  <2> QED
    BY <1>1, <1>2, <2>1, <2>2, Rigid DEF MInv, Moved
<1> QED
  BY <1>4, <1>5

LEMMA RightMoves ==
    ASSUME Fits, Switching, MInv, ShiftRight \/ RightDone
    PROVE  MInv'
<1> USE DEF Fits, Numbers
<1>1. UNCHANGED <<found, backups>> /\ Switching' /\ loop = "right"
  BY DEF ShiftRight, RightDone, SwitchMoves, vars, lists, request, Switching
<1>2. /\ FewNvram /\ i \in -1 .. shifted - 1
      /\ \A k \in 0 .. old_dram_start + i : found_addrs[k] = found[k + 1]
      /\ \A k \in new_dram_start + i + 1 .. new_dram_start + shifted - 1 : found_addrs[k] = Final(k)
      /\ found_addrs \in [Slot -> Element]
  BY <1>1 DEF MInv, Moved, Still
<1>3. /\ ~FewDram /\ to_add \in Nat \ {0} /\ shifted = nvram_found + to_add /\ shifted <= dram_found
      /\ old_dram_start = nvram_found + 1 /\ new_dram_start = nvram_found + 1 + to_add
  BY <1>2, Branches
<1>n. /\ i \in -1 .. shifted - 1 /\ to_add \in Nat \ {0} /\ nvram_found \in Nat /\ dram_found \in Nat
      /\ shifted = nvram_found + to_add /\ shifted <= dram_found /\ dram_found <= MAX_N_SWITCH
      /\ old_dram_start = nvram_found + 1 /\ new_dram_start = nvram_found + 1 + to_add
      /\ Len(found) = nvram_found + 1 + dram_found
  BY <1>2, <1>3
<1>m. \A k \in 1 .. Len(found) : found[k] \in Page \cup {Separator}
  OBVIOUS
<1> HIDE DEF Fits, Numbers
<1>k. /\ new_dram_start \in Nat /\ old_dram_start \in Nat /\ shifted \in Nat
      /\ i \in -1 .. shifted - 1 /\ old_dram_start < new_dram_start
      /\ new_dram_start + shifted - 1 <= 2 * MAX_N_SWITCH
  BY <1>n, SizeAssumption
<1>4. CASE ShiftRight
  <2>1. /\ i >= 0 /\ i' = i - 1 /\ loop' = "right"
        /\ found_addrs' = [found_addrs EXCEPT ![new_dram_start + i] = found_addrs[old_dram_start + i]]
    BY <1>1, <1>4 DEF ShiftRight, Shift
  <2>2. /\ new_dram_start + i \in Slot /\ old_dram_start + i \in Slot
        /\ old_dram_start + i \in 0 .. old_dram_start + i
    BY <1>k, <2>1, SizeAssumption DEF Slot
  <2>3. /\ found_addrs' \in [Slot -> Element]
        /\ found_addrs'[new_dram_start + i] = found[(old_dram_start + i) + 1]
        /\ \A k \in Slot : k # new_dram_start + i => found_addrs'[k] = found_addrs[k]
    BY <1>2, <2>1, <2>2
  <2>4. \A k \in 0 .. new_dram_start + shifted - 1 : k \in Slot
    BY <1>k, SizeAssumption DEF Slot
  <2>5. Final(new_dram_start + i) = found[(old_dram_start + i) + 1]
    <3>1. old_dram_start + ((new_dram_start + i) - new_dram_start) = old_dram_start + i
      BY <1>n
    <3>2. ~(new_dram_start + i < nvram_found) /\ ~(new_dram_start + i < nvram_found + to_add)
          /\ new_dram_start + i # nvram_found + to_add
      BY <1>n, <2>1
    <3> QED
      BY <1>2, <1>3, <3>1, <3>2, Zenon DEF Final
  <2>6. \A k \in new_dram_start + (i - 1) + 1 .. new_dram_start + shifted - 1 : found_addrs'[k] = Final(k)
    <3> TAKE k \in new_dram_start + (i - 1) + 1 .. new_dram_start + shifted - 1
    <3>1. CASE k = new_dram_start + i
      BY <2>3, <2>5, <3>1
    <3>2. CASE k # new_dram_start + i
      <4>1. k \in new_dram_start + i + 1 .. new_dram_start + shifted - 1
            /\ k \in 0 .. new_dram_start + shifted - 1
        BY <1>k, <2>1, <3>2
      <4> QED
        BY <1>2, <2>3, <2>4, <3>2, <4>1
    <3> QED
      BY <3>1, <3>2
  <2>7. \A k \in 0 .. old_dram_start + (i - 1) : found_addrs'[k] = found[k + 1]
    <3> TAKE k \in 0 .. old_dram_start + (i - 1)
    <3>1. k \in 0 .. old_dram_start + i /\ k # new_dram_start + i /\ k \in 0 .. new_dram_start + shifted - 1
      BY <1>k, <2>1
    <3> QED
      BY <1>2, <2>3, <2>4, <3>1
  <2>8. i - 1 \in -1 .. shifted - 1
    BY <1>k, <2>1
  <2> QED
    BY <1>1, <1>2, <2>1, <2>3, <2>6, <2>7, <2>8, Rigid DEF MInv, Moved, Still
<1>5. CASE RightDone
  <2>1. i < 0 /\ i' = 0 /\ loop' = "fill" /\ found_addrs' = found_addrs
    BY <1>5 DEF RightDone
  <2>2. new_dram_start + i + 1 = new_dram_start /\ 0 \in 0 .. to_add
    BY <1>n, <2>1
  <2>3. \A k \in 0 .. (nvram_found + 0) - 1 : found_addrs[k] = Final(k)
    <3> TAKE k \in 0 .. (nvram_found + 0) - 1
    <3>1. k \in 0 .. old_dram_start + i /\ k < nvram_found
      BY <1>n, <2>1
    <3> QED
      BY <1>2, <1>3, <3>1 DEF Final
  <2> QED
    BY <1>1, <1>2, <2>1, <2>2, <2>3, Rigid DEF MInv, Moved
<1> QED
  BY <1>4, <1>5

LEMMA FillMoves ==
    ASSUME Fits, Switching, MInv, FillBackup \/ FillDone
    PROVE  MInv'
<1> USE DEF Fits, Numbers
<1>1. UNCHANGED <<found, backups>> /\ Switching' /\ loop = "fill"
  BY DEF FillBackup, FillDone, SwitchMoves, vars, lists, request, Switching
<1>2. /\ FewNvram /\ i \in 0 .. to_add
      /\ \A k \in 0 .. (nvram_found + i) - 1 : found_addrs[k] = Final(k)
      /\ \A k \in new_dram_start .. new_dram_start + shifted - 1 : found_addrs[k] = Final(k)
      /\ found_addrs \in [Slot -> Element]
  BY <1>1 DEF MInv, Moved
<1>3. /\ ~FewDram /\ to_add \in Nat \ {0} /\ to_add <= n_switch_backup
      /\ shifted = nvram_found + to_add /\ shifted <= dram_found
      /\ new_dram_start = nvram_found + 1 + to_add /\ kept = new_dram_start - 1
  BY <1>2, Branches
<1>4. \A k \in 0 .. 2 * kept : k \in Slot
  BY <1>3, SizeAssumption DEF Slot
<1>n. /\ i \in 0 .. to_add /\ to_add \in Nat \ {0} /\ to_add <= n_switch_backup
      /\ n_switch_backup \in Nat /\ nvram_found \in Nat /\ dram_found \in Nat
      /\ shifted = nvram_found + to_add /\ shifted <= dram_found /\ dram_found <= MAX_N_SWITCH
      /\ new_dram_start = nvram_found + 1 + to_add /\ kept = new_dram_start - 1
  BY <1>2, <1>3
<1>m. \A k \in 1 .. n_switch_backup : backups["switch"][k] \in Page
  OBVIOUS
<1> HIDE DEF Fits, Numbers
<1>5. CASE FillBackup
  <2>1. /\ i < to_add /\ i' = i + 1 /\ loop' = "fill"
        /\ found_addrs' = [found_addrs EXCEPT ![nvram_found + i] = backups["switch"][i + 1]]
    BY <1>1, <1>5 DEF FillBackup
  <2>2. nvram_found + i \in Slot /\ i + 1 \in 1 .. n_switch_backup
    <3>1. nvram_found + i <= dram_found /\ nvram_found + i \in Nat
      BY <1>n, <2>1
    <3>2. i + 1 \in 1 .. n_switch_backup
      BY <1>n, <2>1
    <3> QED
      BY <1>n, <3>1, <3>2, SizeAssumption DEF Slot
  <2>3. /\ found_addrs' \in [Slot -> Element]
        /\ found_addrs'[nvram_found + i] = backups["switch"][i + 1]
        /\ \A k \in Slot : k # nvram_found + i => found_addrs'[k] = found_addrs[k]
    BY <1>2, <1>m, <2>1, <2>2 DEF Element
  <2>4. Final(nvram_found + i) = backups["switch"][i + 1]
    <3>1. ((nvram_found + i) - nvram_found) + 1 = i + 1 /\ ~(nvram_found + i < nvram_found)
          /\ nvram_found + i < nvram_found + to_add
      BY <1>n, <2>1
    <3> QED
      BY <1>2, <1>3, <3>1, Zenon DEF Final
  <2>5. \A k \in 0 .. (nvram_found + (i + 1)) - 1 : found_addrs'[k] = Final(k)
    <3> TAKE k \in 0 .. (nvram_found + (i + 1)) - 1
    <3>1. CASE k = nvram_found + i
      BY <2>3, <2>4, <3>1
    <3>2. CASE k # nvram_found + i
      <4>1. k \in 0 .. (nvram_found + i) - 1 /\ k \in 0 .. 2 * kept
        BY <1>n, <2>1, <3>2
      <4> QED
        BY <1>2, <1>4, <2>3, <3>2, <4>1
    <3> QED
      BY <3>1, <3>2
  <2>6. \A k \in new_dram_start .. new_dram_start + shifted - 1 : found_addrs'[k] = Final(k)
    <3> TAKE k \in new_dram_start .. new_dram_start + shifted - 1
    <3>1. k # nvram_found + i /\ k \in 0 .. 2 * kept
      BY <1>n, <2>1
    <3> QED
      BY <1>2, <1>4, <2>3, <3>1
  <2>7. i + 1 \in 0 .. to_add
    BY <1>n, <2>1
  <2> QED
    BY <1>1, <1>2, <2>1, <2>3, <2>5, <2>6, <2>7, Rigid DEF MInv, Moved
<1>6. CASE FillDone
  <2>1. /\ i >= to_add /\ loop' = "done"
        /\ found_addrs' = [found_addrs EXCEPT ![nvram_found + to_add] = Separator]
    BY <1>6 DEF FillDone
  <2>2. nvram_found + to_add \in Slot /\ i = to_add
    BY <1>n, <2>1, SizeAssumption DEF Slot
  <2>3. /\ found_addrs' \in [Slot -> Element]
        /\ found_addrs'[nvram_found + to_add] = Separator
        /\ \A k \in Slot : k # nvram_found + to_add => found_addrs'[k] = found_addrs[k]
    <3>1. Separator \in Element
      BY DEF Element
    <3>2. PICK e \in Slot : e = nvram_found + to_add
      BY <2>2, Zenon
    <3>3. found_addrs \in [Slot -> Element] /\ found_addrs' = [found_addrs EXCEPT ![e] = Separator]
      BY <1>2, <2>1, <3>2, Zenon
    <3>4. /\ found_addrs' \in [Slot -> Element] /\ found_addrs'[e] = Separator
          /\ \A k \in Slot : k # e => found_addrs'[k] = found_addrs[k]
      BY <3>1, <3>3
    <3> QED
      BY <3>2, <3>4, Zenon
  <2>4. Final(nvram_found + to_add) = Separator
    <3>1. ~(nvram_found + to_add < nvram_found) /\ ~(nvram_found + to_add < nvram_found + to_add)
      BY <1>n
    <3> QED
      BY <1>2, <1>3, <3>1, Zenon DEF Final
  <2>5. \A k \in 0 .. 2 * kept : found_addrs'[k] = Final(k)
    <3> TAKE k \in 0 .. 2 * kept
    <3>1. CASE k = nvram_found + to_add
      BY <2>3, <2>4, <3>1
    <3>2. CASE k # nvram_found + to_add
      <4>1. k \in 0 .. (nvram_found + i) - 1 \/ k \in new_dram_start .. new_dram_start + shifted - 1
        BY <1>n, <2>2, <3>2
      <4> QED
        BY <1>2, <1>4, <2>3, <3>2, <4>1
    <3> QED
      BY <3>1, <3>2
  <2> QED
    BY <1>1, <2>1, <2>3, <2>5, Rigid DEF MInv, Moved
<1> QED
  BY <1>5, <1>6

-----------------------------------------------------------------------------
(* The reply.                                                              *)

Result == [k \in 1 .. 2 * kept + 1 |-> Final(k - 1)]

\* G begins with x and ends with y.
Ends(x, e, y, G, K) ==
    /\ Len(x) = K /\ Len(y) = K /\ G[K + 1] = e
    /\ \A k \in 1 .. K : x[k] = G[k] /\ y[k] = G[(K + 1) + k]

\* Two halves of K elements make an array that has them at its ends.
LEMMA SameHalves ==
    ASSUME NEW S, NEW K \in Nat, NEW x \in Seq(S), NEW e \in S, NEW y \in Seq(S),
           NEW G \in [1 .. 2 * K + 1 -> S],
           Ends(x, e, y, G, K)
    PROVE  x \o <<e>> \o y = G
<1> USE DEF Ends
<1>1. PICK z \in Seq(S) : z = x \o <<e>> \o y /\ IsHalves(z, x, e, y)
  BY Halves
<1>2. /\ Len(z) = 2 * K + 1 /\ z[K + 1] = e
      /\ \A k \in 1 .. K : z[k] = x[k] /\ z[(K + 1) + k] = y[k]
  <2>1. /\ Len(z) = Len(x) + 1 + Len(y) /\ z[Len(x) + 1] = e
        /\ \A k \in 1 .. Len(x) : z[k] = x[k]
        /\ \A k \in 1 .. Len(y) : z[Len(x) + 1 + k] = y[k]
    BY <1>1, Zenon DEF IsHalves
  <2> QED
    BY <2>1
<1>3. z \in [1 .. 2 * K + 1 -> S]
  <2>1. z \in [1 .. Len(z) -> S]
    BY <1>1, LenProperties
  <2> QED
    BY <1>2, <2>1
<1>4. ASSUME NEW k \in 1 .. 2 * K + 1 PROVE z[k] = G[k]
  <2>1. CASE k \in 1 .. K
    BY <1>2, <2>1
  <2>2. CASE k = K + 1
    BY <1>2, <2>2
  <2>3. CASE k > K + 1
    <3>1. k - (K + 1) \in 1 .. K /\ (K + 1) + (k - (K + 1)) = k
      BY <2>3
    <3> QED
      BY <1>2, <3>1
  <2> QED
    BY <2>1, <2>2, <2>3
<1>5. z = G
  <2>1. DOMAIN z = 1 .. 2 * K + 1 /\ DOMAIN G = 1 .. 2 * K + 1
    BY <1>3
  <2>2. z = [k \in 1 .. 2 * K + 1 |-> z[k]] /\ G = [k \in 1 .. 2 * K + 1 |-> G[k]]
    BY <1>3
  <2> QED
    BY <1>4, <2>2
<1> QED
  BY <1>1, <1>5, Zenon

LEMMA PrefixElements ==
    ASSUME NEW S, NEW s \in Seq(S), NEW k \in Nat, k <= Len(s)
    PROVE  /\ SubSeq(s, 1, k) \in Seq(S) /\ Len(SubSeq(s, 1, k)) = k
           /\ \A j \in 1 .. k : SubSeq(s, 1, k)[j] = s[j]
<1>1. \A j \in 1 .. k : s[j] \in S
  BY ElementOfSeq
<1> QED
  BY <1>1, SubSeqProperties

\* The first pages of a, and all of b with the first ones of c behind it.
IsFilled(a, b, c, K, x, y) ==
    /\ Len(x) = K /\ Len(y) = K
    /\ \A k \in 1 .. K : x[k] = a[k]
    /\ \A k \in 1 .. K : y[k] = IF k <= Len(b) THEN b[k] ELSE c[k - Len(b)]

LEMMA FilledUp ==
    ASSUME NEW S, NEW a \in Seq(S), NEW b \in Seq(S), NEW c \in Seq(S),
           NEW K \in Nat, K <= Len(a), Len(b) <= K, K - Len(b) <= Len(c)
    PROVE  /\ SubSeq(a, 1, K) \in Seq(S) /\ SubSeq(c, 1, K - Len(b)) \in Seq(S)
           /\ b \o SubSeq(c, 1, K - Len(b)) \in Seq(S)
           /\ IsFilled(a, b, c, K, SubSeq(a, 1, K), b \o SubSeq(c, 1, K - Len(b)))
<1>1. PICK l \in Nat, m \in Nat : l = Len(b) /\ m = K - l /\ l + m = K /\ m <= Len(c)
  BY LenProperties
<1>2. PICK x : x = SubSeq(a, 1, K) /\ x \in Seq(S) /\ Len(x) = K /\ \A k \in 1 .. K : x[k] = a[k]
  <2>1. /\ SubSeq(a, 1, K) \in Seq(S) /\ Len(SubSeq(a, 1, K)) = K
        /\ \A k \in 1 .. K : SubSeq(a, 1, K)[k] = a[k]
    BY PrefixElements
  <2> QED
    BY <2>1, Zenon
<1>3. PICK v : v = SubSeq(c, 1, m) /\ v \in Seq(S) /\ Len(v) = m /\ \A k \in 1 .. m : v[k] = c[k]
  <2>1. /\ SubSeq(c, 1, m) \in Seq(S) /\ Len(SubSeq(c, 1, m)) = m
        /\ \A k \in 1 .. m : SubSeq(c, 1, m)[k] = c[k]
    BY <1>1, PrefixElements
  <2> QED
    BY <2>1, Zenon
<1>4. PICK y : y = b \o v /\ y \in Seq(S) /\ IsJoin(y, b, v)
  BY <1>3, Joined
<1>5. Len(y) = K /\ (\A k \in 1 .. l : y[k] = b[k]) /\ \A k \in 1 .. m : y[l + k] = v[k]
  BY <1>1, <1>3, <1>4 DEF IsJoin
<1>6. ASSUME NEW k \in 1 .. K PROVE y[k] = IF k <= l THEN b[k] ELSE c[k - l]
  <2>1. CASE k <= l
    BY <1>5, <2>1
  <2>2. CASE ~(k <= l)
    <3>1. k - l \in 1 .. m /\ l + (k - l) = k
      BY <1>1, <2>2
    <3> QED
      BY <1>3, <1>5, <2>2, <3>1
  <2> QED
    BY <2>1, <2>2
<1>7. IsFilled(a, b, c, K, x, y)
  BY <1>1, <1>2, <1>5, <1>6 DEF IsFilled
<1> QED
  BY <1>1, <1>2, <1>3, <1>4, <1>7, Zenon

LEMMA ResultIsPairs ==
    ASSUME Types, Sorted, Bounded, Sized, Switching
    PROVE  LET s == CHOOSE k \in 1 .. Len(found) : found[k] = Separator IN
           Pairs(SubSeq(found, 1, s - 1), SubSeq(found, s + 1, Len(found)),
                 backups.switch, backups.mem) = Result
<1> DEFINE s == CHOOSE k \in 1 .. Len(found) : found[k] = Separator
           S == Page \cup {Separator}
<1>0. Fits
  BY FoundFits
<1>1. /\ nvram_found \in Nat /\ dram_found \in Nat /\ n_backup \in Nat /\ n_switch_backup \in Nat
      /\ Len(found) = nvram_found + 1 + dram_found /\ found[nvram_found + 1] = Separator
      /\ kept \in Nat /\ old_dram_start = nvram_found + 1
  BY <1>0, Branches DEF Fits, Numbers
<1>2. PICK j \in Nat, l \in Nat, h \in Nat : /\ j = s - 1 /\ j = nvram_found /\ l = Len(found) /\ h = s + 1
                                             /\ h = j + 2 /\ l = h - 1 + dram_found
  <2>1. s - 1 = nvram_found
    BY Zenon DEF nvram_found
  <2>2. s \in 1 .. Len(found)
    BY Parts DEF Switching
  <2> HIDE DEF s
  <2> QED
    BY <1>1, <2>1, <2>2
<1>3. found \in Seq(S) /\ backups["mem"] \in Seq(S) /\ backups["switch"] \in Seq(S) /\ Separator \in S
  BY DEF Types
<1>4. PICK n \in Seq(S) : n = SubSeq(found, 1, s - 1) /\ Len(n) = nvram_found
                          /\ \A k \in 1 .. nvram_found : n[k] = found[k]
  <2> HIDE DEF S, s
  <2>1. \A k \in 1 .. j : found[k] \in S
    BY <1>1, <1>2, <1>3
  <2>2. /\ SubSeq(found, 1, j) \in Seq(S) /\ Len(SubSeq(found, 1, j)) = IF 1 <= j THEN j - 1 + 1 ELSE 0
        /\ \A k \in 1 .. j - 1 + 1 : SubSeq(found, 1, j)[k] = found[1 + k - 1]
    BY <2>1, SubSeqProperties
  <2>3. Len(SubSeq(found, 1, j)) = j /\ \A k \in 1 .. j : SubSeq(found, 1, j)[k] = found[k]
    BY <2>2
  <2> QED
    BY <1>2, <2>2, <2>3
<1>5. PICK d \in Seq(S) : d = SubSeq(found, s + 1, Len(found)) /\ Len(d) = dram_found
                          /\ \A k \in 1 .. dram_found : d[k] = found[(nvram_found + 1) + k]
  <2> HIDE DEF S, s
  <2>1. \A k \in h .. l : found[k] \in S
    <3>1. \A k \in h .. l : k \in 1 .. Len(found)
      BY <1>2
    <3> QED
      BY <1>3, <3>1, ElementOfSeq
  <2>2. /\ SubSeq(found, h, l) \in Seq(S) /\ Len(SubSeq(found, h, l)) = IF h <= l THEN l - h + 1 ELSE 0
        /\ \A k \in 1 .. l - h + 1 : SubSeq(found, h, l)[k] = found[h + k - 1]
    BY <2>1, SubSeqProperties
  <2>3. Len(SubSeq(found, h, l)) = dram_found
        /\ \A k \in 1 .. dram_found : SubSeq(found, h, l)[k] = found[(nvram_found + 1) + k]
    <3>1. PICK t : t = SubSeq(found, h, l)
      OBVIOUS
    <3>2. /\ Len(t) = IF h <= l THEN l - h + 1 ELSE 0
          /\ \A k \in 1 .. l - h + 1 : t[k] = found[h + k - 1]
      BY <2>2, <3>1, Zenon
    <3>3. PICK a \in Nat, b \in Nat : a = nvram_found /\ b = dram_found /\ h = a + 2 /\ l = h - 1 + b
      BY <1>1, <1>2
    <3>4. l - h + 1 = b /\ \A k \in 1 .. b : h + k - 1 = (a + 1) + k
      BY <3>3
    <3>5. Len(t) = b /\ \A k \in 1 .. b : t[k] = found[(a + 1) + k]
      BY <3>2, <3>3, <3>4
    <3>6. Len(t) = dram_found /\ \A k \in 1 .. dram_found : t[k] = found[(nvram_found + 1) + k]
      BY <3>3, <3>5
    <3> QED
      BY <3>1, <3>6, Zenon
  <2> QED
    BY <1>2, <2>2, <2>3
<1>6. PICK nb \in Seq(S), db \in Seq(S) : nb = backups["switch"] /\ db = backups["mem"]
                                          /\ Len(nb) = n_switch_backup /\ Len(db) = n_backup
  BY <1>3 DEF n_backup, n_switch_backup
<1>7. PICK G \in [1 .. 2 * kept + 1 -> S] : /\ G = Result
                                            /\ \A k \in 1 .. 2 * kept + 1 : G[k] = Final(k - 1)
  <2>1. ASSUME NEW k \in 1 .. 2 * kept + 1 PROVE Final(k - 1) \in S
    <3>1. k - 1 \in 0 .. 2 * kept
      BY <1>1
    <3> QED
      BY <1>0, <3>1, FinalElement
  <2> HIDE DEF S
  <2>2. Result \in [1 .. 2 * kept + 1 -> S] /\ \A k \in 1 .. 2 * kept + 1 : Result[k] = Final(k - 1)
    BY <2>1 DEF Result
  <2> QED
    BY <2>2, Zenon
<1>a. Len(n) = nvram_found /\ Len(d) = dram_found /\ Len(nb) = n_switch_backup /\ Len(db) = n_backup
  BY <1>4, <1>5, <1>6, Zenon
<1> SUFFICES Pairs(n, d, nb, db) = G
  BY <1>4, <1>5, <1>6, <1>7, Zenon
<1> HIDE DEF S, s
<1>8. CASE FewDram
  <2>1. /\ ~FewNvram /\ to_add \in Nat \ {0} /\ to_add <= n_backup
        /\ new_dram_start = dram_found + to_add + 1 /\ kept = new_dram_start - 1 /\ kept <= nvram_found
        /\ (Discards => new_dram_start < old_dram_start)
        /\ (~Discards => new_dram_start = old_dram_start)
    BY <1>0, <1>8, Branches DEF Fits
  <2>2. kept = IntMin(nvram_found, dram_found + n_backup) /\ kept - dram_found = to_add
    <3>1. CASE Discards
      BY <1>1, <1>8, <2>1, <3>1 DEF IntMin, FewDram, Discards, to_add
    <3>2. CASE ~Discards
      BY <1>1, <1>8, <2>1, <3>2 DEF IntMin, FewDram, Discards
    <3> QED
      BY <3>1, <3>2
  <2>3. /\ ~(Len(d) = Len(n)) /\ ~(Len(n) < Len(d)) /\ Len(d) < Len(n) /\ Len(db) > 0
        /\ kept = IntMin(Len(n), Len(d) + Len(db))
    <3>1. dram_found < nvram_found /\ n_backup > 0
      BY <1>8 DEF FewDram
    <3> QED
      BY <1>1, <1>a, <2>2, <3>1
  <2>4. PICK x, v, y : /\ x \in Seq(S) /\ v \in Seq(S) /\ y \in Seq(S) /\ IsFilled(n, d, db, kept, x, y)
                       /\ x = SubSeq(n, 1, kept) /\ v = SubSeq(db, 1, kept - Len(d)) /\ y = d \o v
    <3>1. kept <= Len(n) /\ Len(d) <= kept /\ kept - Len(d) <= Len(db)
      BY <1>1, <1>a, <2>1
    <3>2. n \in Seq(S) /\ d \in Seq(S) /\ db \in Seq(S) /\ nb \in Seq(S) /\ kept \in Nat
      BY <1>1
    <3>3. /\ SubSeq(n, 1, kept) \in Seq(S) /\ SubSeq(db, 1, kept - Len(d)) \in Seq(S)
          /\ d \o SubSeq(db, 1, kept - Len(d)) \in Seq(S)
          /\ IsFilled(n, d, db, kept, SubSeq(n, 1, kept), d \o SubSeq(db, 1, kept - Len(d)))
      BY <3>1, <3>2, FilledUp, Zenon
    <3> QED
      BY <3>3, Zenon
  <2>5. Pairs(n, d, nb, db) = x \o <<Separator>> \o y
    <3>1. Pairs(n, d, nb, db) = x \o <<Separator>> \o d \o v
      BY <2>3, <2>4, Zenon DEF Pairs
    <3>2. x \o <<Separator>> \o d \o v = x \o <<Separator>> \o (d \o v)
      <4>1. x \in Seq(S) /\ d \in Seq(S) /\ v \in Seq(S) /\ Separator \in S
        BY <1>3, <2>4
      <4>2. Regrouped(x, Separator, d, v)
        BY <4>1, Regroup, Zenon
      <4> QED
        BY <4>2, Zenon DEF Regrouped
    <3> QED
      BY <2>4, <3>1, <3>2, Zenon
  <2>6. /\ Len(x) = kept /\ Len(y) = kept
        /\ \A k \in 1 .. kept : x[k] = n[k] /\ y[k] = IF k <= dram_found THEN d[k] ELSE db[k - dram_found]
    BY <1>5, <2>4, Zenon DEF IsFilled
  <2>9. ASSUME NEW k \in 1 .. kept PROVE x[k] = G[k] /\ y[k] = G[(kept + 1) + k]
    <3>1. x[k] = G[k]
      <4>1. k \in 1 .. 2 * kept + 1 /\ k \in 1 .. nvram_found /\ k - 1 < new_dram_start - 1 /\ (k - 1) + 1 = k
        BY <1>1, <2>1
      <4>2. G[k] = found[k]
        BY <1>7, <1>8, <4>1, Zenon DEF Final
      <4> QED
        BY <1>4, <2>6, <4>1, <4>2, Zenon
    <3>2. /\ (kept + 1) + k \in 1 .. 2 * kept + 1
          /\ ~(((kept + 1) + k) - 1 < new_dram_start - 1) /\ ((kept + 1) + k) - 1 # new_dram_start - 1
      BY <1>1, <2>1
    <3>3. CASE k <= dram_found
      <4>1. /\ ((kept + 1) + k) - 1 < new_dram_start + dram_found /\ k \in 1 .. dram_found
            /\ (old_dram_start + ((((kept + 1) + k) - 1) - new_dram_start)) + 1 = (nvram_found + 1) + k
        BY <1>1, <2>1, <3>3
      <4>2. G[(kept + 1) + k] = found[(nvram_found + 1) + k]
        BY <1>7, <1>8, <3>2, <4>1, Zenon DEF Final
      <4> QED
        BY <1>5, <2>6, <3>1, <3>3, <4>1, <4>2, Zenon
    <3>4. CASE ~(k <= dram_found)
      <4>1. /\ ~(((kept + 1) + k) - 1 < new_dram_start + dram_found)
            /\ ((((kept + 1) + k) - 1) - (new_dram_start + dram_found)) + 1 = k - dram_found
        BY <1>1, <2>1, <3>4
      <4>2. G[(kept + 1) + k] = db[k - dram_found]
        BY <1>6, <1>7, <1>8, <3>2, <4>1, Zenon DEF Final
      <4> QED
        BY <2>6, <3>1, <3>4, <4>2, Zenon
    <3> QED
      BY <3>3, <3>4
  <2>10. G[kept + 1] = Separator
    <3>1. kept + 1 \in 1 .. 2 * kept + 1 /\ (kept + 1) - 1 = new_dram_start - 1
          /\ ~((kept + 1) - 1 < new_dram_start - 1)
      BY <1>1, <2>1
    <3> QED
      BY <1>7, <1>8, <3>1, Zenon DEF Final
  <2>11. x \o <<Separator>> \o y = G
    <3>1. /\ kept \in Nat /\ x \in Seq(S) /\ y \in Seq(S) /\ Separator \in S
          /\ G \in [1 .. 2 * kept + 1 -> S]
      BY <1>1, <1>3, <2>4
    <3>2. Ends(x, Separator, y, G, kept)
      BY <2>6, <2>9, <2>10, Zenon DEF Ends
    <3> QED
      BY <3>1, <3>2, SameHalves, Zenon
  <2> QED
    BY <2>5, <2>11, Zenon
<1>9. CASE FewNvram
  <2>1. /\ ~FewDram /\ to_add \in Nat \ {0} /\ to_add <= n_switch_backup
        /\ new_dram_start = nvram_found + 1 + to_add /\ nvram_found + to_add <= dram_found
        /\ kept = new_dram_start - 1
    BY <1>0, <1>9, Branches DEF Fits
  <2>2. kept = IntMin(dram_found, nvram_found + n_switch_backup) /\ kept - nvram_found = to_add
    BY <1>1, <1>9, <2>1 DEF IntMin, FewNvram, to_add
  <2>3. /\ ~(Len(d) = Len(n)) /\ ~(Len(d) < Len(n)) /\ Len(n) < Len(d) /\ Len(nb) > 0
        /\ kept = IntMin(Len(d), Len(n) + Len(nb))
    <3>1. nvram_found < dram_found /\ n_switch_backup > 0
      BY <1>9 DEF FewNvram
    <3> QED
      BY <1>1, <1>a, <2>2, <3>1
  <2>4. PICK y, v, x : /\ y \in Seq(S) /\ v \in Seq(S) /\ x \in Seq(S) /\ IsFilled(d, n, nb, kept, y, x)
                       /\ y = SubSeq(d, 1, kept) /\ v = SubSeq(nb, 1, kept - Len(n)) /\ x = n \o v
    <3>1. kept <= Len(d) /\ Len(n) <= kept /\ kept - Len(n) <= Len(nb)
      BY <1>1, <1>a, <2>1
    <3>2. n \in Seq(S) /\ d \in Seq(S) /\ db \in Seq(S) /\ nb \in Seq(S) /\ kept \in Nat
      BY <1>1
    <3>3. /\ SubSeq(d, 1, kept) \in Seq(S) /\ SubSeq(nb, 1, kept - Len(n)) \in Seq(S)
          /\ n \o SubSeq(nb, 1, kept - Len(n)) \in Seq(S)
          /\ IsFilled(d, n, nb, kept, SubSeq(d, 1, kept), n \o SubSeq(nb, 1, kept - Len(n)))
      BY <3>1, <3>2, FilledUp, Zenon
    <3> QED
      BY <3>3, Zenon
  <2>5. Pairs(n, d, nb, db) = x \o <<Separator>> \o y
    BY <2>3, <2>4, Zenon DEF Pairs
  <2>6. /\ Len(x) = kept /\ Len(y) = kept
        /\ \A k \in 1 .. kept : y[k] = d[k] /\ x[k] = IF k <= nvram_found THEN n[k] ELSE nb[k - nvram_found]
    BY <1>4, <2>4, Zenon DEF IsFilled
  <2>9. ASSUME NEW k \in 1 .. kept PROVE x[k] = G[k] /\ y[k] = G[(kept + 1) + k]
    <3>1. y[k] = G[(kept + 1) + k]
      <4>1. /\ (kept + 1) + k \in 1 .. 2 * kept + 1 /\ k \in 1 .. dram_found
            /\ ~(((kept + 1) + k) - 1 < nvram_found) /\ ~(((kept + 1) + k) - 1 < nvram_found + to_add)
            /\ ((kept + 1) + k) - 1 # nvram_found + to_add
            /\ (old_dram_start + ((((kept + 1) + k) - 1) - new_dram_start)) + 1 = (nvram_found + 1) + k
        BY <1>1, <2>1
      <4>2. G[(kept + 1) + k] = found[(nvram_found + 1) + k]
        BY <1>7, <1>9, <2>1, <4>1, Zenon DEF Final
      <4> QED
        BY <1>5, <2>6, <4>1, <4>2, Zenon
    <3>2. k \in 1 .. 2 * kept + 1
      BY <1>1
    <3>3. CASE k <= nvram_found
      <4>1. k - 1 < nvram_found /\ k \in 1 .. nvram_found /\ (k - 1) + 1 = k
        BY <1>1, <3>3
      <4>2. G[k] = found[k]
        BY <1>7, <1>9, <2>1, <3>2, <4>1, Zenon DEF Final
      <4> QED
        BY <1>4, <2>6, <3>1, <3>3, <4>1, <4>2, Zenon
    <3>4. CASE ~(k <= nvram_found)
      <4>1. /\ ~(k - 1 < nvram_found) /\ k - 1 < nvram_found + to_add
            /\ ((k - 1) - nvram_found) + 1 = k - nvram_found
        BY <1>1, <2>1, <3>4
      <4>2. G[k] = nb[k - nvram_found]
        BY <1>6, <1>7, <1>9, <2>1, <3>2, <4>1, Zenon DEF Final
      <4> QED
        BY <2>6, <3>1, <3>4, <4>2, Zenon
    <3> QED
      BY <3>3, <3>4
  <2>10. G[kept + 1] = Separator
    <3>1. /\ kept + 1 \in 1 .. 2 * kept + 1 /\ (kept + 1) - 1 = nvram_found + to_add
          /\ ~((kept + 1) - 1 < nvram_found) /\ ~((kept + 1) - 1 < nvram_found + to_add)
      BY <1>1, <2>1
    <3> QED
      BY <1>7, <1>9, <2>1, <3>1, Zenon DEF Final
  <2>11. x \o <<Separator>> \o y = G
    <3>1. /\ kept \in Nat /\ x \in Seq(S) /\ y \in Seq(S) /\ Separator \in S
          /\ G \in [1 .. 2 * kept + 1 -> S]
      BY <1>1, <1>3, <2>4
    <3>2. Ends(x, Separator, y, G, kept)
      BY <2>6, <2>9, <2>10, Zenon DEF Ends
    <3> QED
      BY <3>1, <3>2, SameHalves, Zenon
  <2> QED
    BY <2>5, <2>11, Zenon
<1>10. CASE ~FewDram /\ ~FewNvram /\ dram_found = nvram_found
  <2>1. kept = nvram_found
    BY <1>0, <1>10, Branches DEF Fits
  <2>2. Pairs(n, d, nb, db) = n \o <<Separator>> \o d
    <3>1. Len(d) = Len(n) /\ Len(n) = nvram_found /\ nvram_found \in Nat
      BY <1>1, <1>4, <1>5, <1>10, Zenon
    <3>2. ~(Len(d) < Len(n)) /\ ~(Len(n) < Len(d))
      BY <3>1
    <3> QED
      BY <3>1, <3>2, Zenon DEF Pairs
  <2>3. \A k \in 1 .. 2 * kept + 1 : G[k] = found[k]
    BY <1>1, <1>7, <1>10 DEF Final
  <2>4. ASSUME NEW k \in 1 .. kept PROVE n[k] = G[k] /\ d[k] = G[(kept + 1) + k]
    <3>1. k \in 1 .. 2 * kept + 1 /\ (kept + 1) + k \in 1 .. 2 * kept + 1
      BY <1>1
    <3> QED
      BY <1>4, <1>5, <1>10, <2>1, <2>3, <3>1
  <2>5. G[kept + 1] = Separator
    <3>1. kept + 1 \in 1 .. 2 * kept + 1
      BY <1>1
    <3> QED
      BY <1>1, <2>1, <2>3, <3>1
  <2> QED
    <3>1. /\ kept \in Nat /\ n \in Seq(S) /\ d \in Seq(S) /\ Separator \in S
          /\ G \in [1 .. 2 * kept + 1 -> S] /\ Len(n) = kept /\ Len(d) = kept
      BY <1>1, <1>3, <1>a, <1>10, <2>1
    <3>2. Ends(n, Separator, d, G, kept)
      BY <2>4, <2>5, <3>1, Zenon DEF Ends
    <3>3. n \o <<Separator>> \o d = G
      BY <3>1, <3>2, SameHalves
    <3> QED
      BY <2>2, <3>3, Zenon
<1>11. CASE ~FewDram /\ ~FewNvram /\ dram_found # nvram_found
  <2>1. kept = 0
    BY <1>0, <1>11, Branches DEF Fits
  <2>2. Pairs(n, d, nb, db) = <<Separator>>
    <3>1. /\ ~(Len(d) = Len(n)) /\ ~(Len(d) < Len(n) /\ Len(db) > 0)
          /\ ~(Len(n) < Len(d) /\ Len(nb) > 0)
      BY <1>1, <1>4, <1>5, <1>6, <1>11 DEF FewDram, FewNvram
    <3> QED
      BY <3>1, Zenon DEF Pairs
  <2>3. G[1] = Separator
    BY <1>7, <1>11, <2>1 DEF Final
  <2>4. G = [k \in 1 .. 1 |-> G[k]]
    BY <2>1
  <2>5. <<Separator>> = [k \in 1 .. 1 |-> Separator]
    OBVIOUS
  <2>6. G = <<Separator>>
    BY <2>3, <2>4, <2>5
  <2> QED
    BY <2>2, <2>6
<1> QED
  BY <1>8, <1>9, <1>10, <1>11

-----------------------------------------------------------------------------
(* The implementation.                                                     *)

Ready == Types /\ Sorted /\ Bounded /\ Sized

LEMMA ReturnEnds ==
    ASSUME Ready, MInv, SwitchReturn
    PROVE  SwitchEnd
<1>1. Switching /\ loop = "done"
  BY DEF SwitchReturn, Switching
<1>2. Fits
  BY <1>1, FoundFits DEF Ready
<1>3. kept \in Nat /\ \A k \in 0 .. 2 * kept : found_addrs[k] = Final(k)
  BY <1>1, <1>2, Branches DEF MInv, Moved, Fits
<1>4. found' = Result
  <2>1. \A k \in 1 .. 2 * kept + 1 : k - 1 \in 0 .. 2 * kept
    BY <1>3
  <2>2. found' = [k \in 1 .. 2 * kept + 1 |-> found_addrs[k - 1]]
    BY DEF SwitchReturn
  <2> QED
    BY <1>3, <2>1, <2>2 DEF Result
<1>5. LET s == CHOOSE k \in 1 .. Len(found) : found[k] = Separator IN
      found' = Pairs(SubSeq(found, 1, s - 1), SubSeq(found, s + 1, Len(found)),
                     backups.switch, backups.mem)
  BY <1>1, <1>4, ResultIsPairs, Zenon DEF Ready
<1> QED
  BY <1>5, Zenon DEF SwitchReturn, SwitchEnd

LEMMA StepMaps ==
    ASSUME Ready, MInv, [MoveNext]_moveVars
    PROVE  [Next]_vars
<1>1. CASE Environment \/ Walks \/ \E m \in Mode, n \in Count : Receive(m, n)
  BY <1>1 DEF Next, Handler
<1>2. CASE Branch \/ ShiftLeft \/ LeftDone \/ AppendBackup \/ AppendDone
           \/ ShiftRight \/ RightDone \/ FillBackup \/ FillDone
  BY <1>2 DEF Branch, ShiftLeft, LeftDone, AppendBackup, AppendDone, ShiftRight, RightDone,
              FillBackup, FillDone, SwitchMoves
<1>3. CASE SwitchReturn
  BY <1>3, ReturnEnds DEF Next, Handler
<1>4. CASE UNCHANGED moveVars
  BY <1>4 DEF moveVars
<1> QED
  BY <1>1, <1>2, <1>3, <1>4 DEF MoveNext, Moves

LEMMA MInvStep ==
    ASSUME Ready, Place, MInv, [MoveNext]_moveVars
    PROVE  MInv'
<1>1. ASSUME UNCHANGED <<found_addrs, loop, i>>,
             loop = "none" \/ (UNCHANGED <<found, backups>> /\ Switching')
      PROVE  MInv'
  <2>1. CASE loop = "none"
    BY <1>1, <2>1 DEF MInv
  <2>2. CASE UNCHANGED <<found, backups>> /\ Switching'
    BY <1>1, <2>2, Rigid DEF MInv, Moved, Still
  <2> QED
    BY <1>1, <2>1, <2>2
<1>2. CASE (Environment \/ Walks) /\ UNCHANGED moves
  <2>1. CASE loop = "none"
    BY <1>1, <1>2, <2>1 DEF moves
  <2>2. CASE loop # "none"
    <3>1. Switching
      BY <2>2 DEF MInv
    <3>2. ~Walks
      BY <3>1 DEF Switching, Walks, BeginLeg, Callback, StopFull, Collect, EndLeg, MemEnd, SwitchTurn, Reply,
                  pte_callback_mem, pte_callback_nvram_force, pte_callback_nvram_write,
                  pte_callback_nvram_intensive, pte_callback_nvram_switch, pte_callback_nvram_clear
    <3>3. PICK q \in Proc : Exit(q)
      BY <1>2, <3>1, <3>2 DEF Environment, Move, Switching
    <3>4. UNCHANGED <<found, backups>> /\ Switching'
      BY <3>1, <3>3 DEF Exit, lists, request, Switching
    <3> QED
      BY <1>1, <1>2, <3>4 DEF moves
  <2> QED
    BY <2>1, <2>2
<1>3. CASE (\E m \in Mode, n \in Count : Receive(m, n)) /\ UNCHANGED moves
  <2>1. pc = "idle"
    BY <1>3 DEF Receive
  <2>2. loop = "none"
    BY <2>1 DEF MInv, Switching
  <2> QED
    BY <1>1, <1>3, <2>2 DEF moves
<1>4. CASE Moves
  <2>1. Switching
    BY <1>4 DEF Moves, Branch, ShiftLeft, LeftDone, AppendBackup, AppendDone, ShiftRight, RightDone,
                FillBackup, FillDone, SwitchReturn, SwitchMoves, Switching
  <2>2. Fits
    BY <2>1, FoundFits DEF Ready
  <2>3. CASE SwitchReturn
    <3>1. found_addrs' = [k \in Slot |-> Unwritten] /\ loop' = "none"
      BY <2>3 DEF SwitchReturn
    <3> QED
      BY <3>1 DEF MInv, Element
  <2> QED
    BY <1>4, <2>1, <2>2, <2>3, BranchMoves, LeftMoves, AppendMoves, RightMoves, FillMoves DEF Moves
<1>5. CASE UNCHANGED moveVars
  <2>1. UNCHANGED <<found, backups, found_addrs, loop, i, pc, mode, walk>>
    BY <1>5 DEF moveVars, moves, vars, lists, request
  <2>2. loop = "none" \/ Switching'
    BY <2>1 DEF MInv, Switching
  <2> QED
    BY <1>1, <2>1, <2>2
<1> QED
  BY <1>2, <1>3, <1>4, <1>5 DEF MoveNext

(* The inductive invariant: what holds of the walks, and how far the loop is. *)
SInv == WInv /\ Sorted /\ Bounded /\ Sized /\ MInv

LEMMA SInvAlways ==
    ASSUME Count \subseteq Nat
    PROVE  MoveSpec => []SInv
<1>1. MoveInit => SInv
  <2> SUFFICES ASSUME MoveInit PROVE SInv
    OBVIOUS
  <2>1. Init /\ pc = "idle" /\ found_addrs = [k \in Slot |-> Unwritten] /\ loop = "none"
    BY DEF MoveInit, Init
  <2>2. Covered /\ FullCycle /\ Sorted /\ Bounded /\ Sized
    BY <2>1 DEF Init, Covered, FullCycle, Active, Sorted, Bounded, Sized
  <2>3. MInv
    BY <2>1 DEF MInv, Element
  <2> QED
    BY <2>1, <2>2, <2>3, TypesInit DEF SInv, WInv
<1>2. SInv /\ [MoveNext]_moveVars => SInv' /\ [Next]_vars
  <2> SUFFICES ASSUME SInv, [MoveNext]_moveVars PROVE SInv' /\ [Next]_vars
    OBVIOUS
  <2>1. Ready /\ Place /\ Covered /\ FullCycle /\ MInv
    BY DEF SInv, WInv, Ready
  <2>2. [Next]_vars
    BY <2>1, StepMaps
  <2>3. WInv'
    BY <2>1, <2>2, TypesStep, PlaceStep, CoveredStep DEF Ready, WInv
  <2>4. Sorted' /\ Bounded' /\ Sized'
    BY <2>1, <2>2, SortedStep, BoundedStep, SizedStep DEF Ready
  <2>5. MInv'
    BY <2>1, MInvStep
  <2> QED
    BY <2>2, <2>3, <2>4, <2>5 DEF SInv
<1> QED
  BY <1>1, <1>2, PTL DEF MoveSpec

(* The loops of switch_walk, an element at a time, implement the step of
   PageWalk that has the pairs at once: nothing is written over before it is
   moved, in either direction and however many backups there are.  A count
   below zero is left out: the list it fills has no bound.                 *)
THEOREM MovesMakePairs ==
    ASSUME Count \subseteq Nat
    PROVE  MoveSpec => ImplementsPageWalk
<1>1. MoveInit => Init
  BY DEF MoveInit
<1>2. SInv /\ [MoveNext]_moveVars => [Next]_vars
  BY StepMaps DEF SInv, WInv, Ready
<1> QED
  BY <1>1, <1>2, SInvAlways, PTL DEF MoveSpec, ImplementsPageWalk, Spec

(* What is proved of PageWalk holds with the loops in the place of the pairs. *)
THEOREM WalksWithMoves ==
    ASSUME Count \subseteq Nat
    PROVE  MoveSpec => [](/\ TypeOK /\ FullCycle /\ ShortMeansAll /\ ReplyInBounds
                          /\ SwitchBalanced /\ TwiceOnlyAtCursor /\ CursorAtFiller)
<1>1. MoveSpec => Spec
  BY MovesMakePairs DEF ImplementsPageWalk
<1>2. Spec => []ReplyInBounds
  BY RepliesAreBounded
<1> QED
  BY <1>1, <1>2, TypeCorrect, WalksAreWhole, ShortRepliesAreWhole, SwitchesAreBalanced,
     OnlyCursorTwice, CursorStaysWithFiller, PTL

(* No move of switch_walk leaves the elements a switch has room for, reads
   one that was not written for this request, or a backup that is not there:
   the halves and the backup lists are never longer than MAX_N_SWITCH allows,
   and the reply is read from what the loops wrote.                        *)
THEOREM MovesStayInArray ==
    ASSUME Count \subseteq Nat
    PROVE  MoveSpec => []MovesInArray
<1>1. SInv => MovesInArray
  <2> SUFFICES ASSUME SInv PROVE MovesInArray
    OBVIOUS
  <2>1. CASE loop = "none"
    BY <2>1 DEF MovesInArray
  <2>2. CASE loop # "none"
    <3>1. Ready /\ MInv /\ Switching
      BY <2>2 DEF SInv, WInv, Ready, MInv
    <3>2. Fits
      BY <3>1, FoundFits DEF Ready
    <3> USE DEF Fits, Numbers
    <3>3. \A p \in Page \cup {Separator} : p # Unwritten
      <4>1. \A p \in Page : \E a, b : p = <<a, b>>
        BY DEF Page
      <4> QED
        BY <4>1 DEF Separator, Unwritten
    <3>4. CASE loop = "left"
      <4>1. /\ FewDram /\ i \in 0 .. dram_found
            /\ \A k \in old_dram_start + i .. nvram_found + dram_found : found_addrs[k] = found[k + 1]
            /\ Discards
        BY <3>1, <3>4 DEF MInv, Still
      <4>2. /\ shifted = dram_found /\ old_dram_start = nvram_found + 1 /\ to_add \in Nat \ {0}
            /\ new_dram_start = dram_found + to_add + 1 /\ new_dram_start < old_dram_start
        BY <3>2, <4>1, Branches
      <4>3. ASSUME i \in 0 .. shifted - 1
            PROVE  /\ {old_dram_start + i, new_dram_start + i} \subseteq Slot
                   /\ found_addrs[old_dram_start + i] # Unwritten
        <5>1. old_dram_start + i \in old_dram_start + i .. nvram_found + dram_found
              /\ (old_dram_start + i) + 1 \in 1 .. Len(found)
          BY <3>2, <4>2, <4>3
        <5>2. found_addrs[old_dram_start + i] \in Page \cup {Separator}
          BY <3>2, <4>1, <5>1
        <5>3. old_dram_start + i \in Slot /\ new_dram_start + i \in Slot
          BY <3>2, <4>2, <4>3, SizeAssumption DEF Slot
        <5> QED
          BY <3>3, <5>2, <5>3
      <4> QED
        BY <3>4, <4>3 DEF MovesInArray
    <3>5. CASE loop = "append"
      <4>1. FewDram /\ i \in 0 .. to_add
        BY <3>1, <3>5 DEF MInv
      <4>2. /\ to_add \in Nat \ {0} /\ to_add <= n_backup
            /\ new_dram_start = dram_found + to_add + 1 /\ new_dram_start - 1 <= nvram_found
        BY <3>2, <4>1, Branches
      <4>3. i < to_add => /\ new_dram_start + dram_found + i \in 0 .. 2 * nvram_found
                          /\ i < n_backup
        BY <3>2, <4>1, <4>2
      <4>4. 0 .. 2 * nvram_found \subseteq Slot
        BY <3>2, SizeAssumption DEF Slot
      <4> QED
        BY <3>5, <4>3, <4>4 DEF MovesInArray
    <3>6. CASE loop = "right"
      <4>1. /\ FewNvram /\ i \in -1 .. shifted - 1
            /\ \A k \in 0 .. old_dram_start + i : found_addrs[k] = found[k + 1]
        BY <3>1, <3>6 DEF MInv, Still
      <4>2. /\ to_add \in Nat \ {0} /\ shifted = nvram_found + to_add /\ shifted <= dram_found
            /\ old_dram_start = nvram_found + 1 /\ new_dram_start = nvram_found + 1 + to_add
        BY <3>2, <4>1, Branches
      <4>3. ASSUME i \in 0 .. shifted - 1
            PROVE  /\ {old_dram_start + i, new_dram_start + i} \subseteq Slot
                   /\ found_addrs[old_dram_start + i] # Unwritten
        <5>1. old_dram_start + i \in 0 .. old_dram_start + i
              /\ (old_dram_start + i) + 1 \in 1 .. Len(found)
          BY <3>2, <4>2, <4>3
        <5>2. found_addrs[old_dram_start + i] \in Page \cup {Separator}
          BY <3>2, <4>1, <5>1
        <5>3. old_dram_start + i \in Slot /\ new_dram_start + i \in Slot
          BY <3>2, <4>2, <4>3, SizeAssumption DEF Slot
        <5> QED
          BY <3>3, <5>2, <5>3
      <4> QED
        BY <3>6, <4>3 DEF MovesInArray
    <3>7. CASE loop = "fill"
      <4>1. FewNvram /\ i \in 0 .. to_add
        BY <3>1, <3>7 DEF MInv
      <4>2. /\ to_add \in Nat \ {0} /\ to_add <= n_switch_backup
            /\ nvram_found + to_add <= dram_found
        BY <3>2, <4>1, Branches
      <4>3. i < to_add => nvram_found + i \in 0 .. dram_found /\ i < n_switch_backup
        BY <3>2, <4>1, <4>2
      <4>4. 0 .. dram_found \subseteq Slot
        BY <3>2, SizeAssumption DEF Slot
      <4> QED
        BY <3>7, <4>3, <4>4 DEF MovesInArray
    <3>8. CASE loop = "done"
      <4>1. \A k \in 0 .. 2 * kept : found_addrs[k] = Final(k)
        BY <3>1, <3>8 DEF MInv, Moved
      <4>2. \A k \in 0 .. 2 * kept : k \in Slot /\ Final(k) \in Page \cup {Separator}
        BY <3>2, FinalElement
      <4>3. 2 * kept \in 0 .. 2 * kept
        BY <3>2, Branches
      <4> QED
        BY <3>3, <3>8, <4>1, <4>2, <4>3 DEF MovesInArray
    <3> QED
      BY <2>2, <3>1, <3>4, <3>5, <3>6, <3>7, <3>8 DEF MInv
  <2> QED
    BY <2>1, <2>2
<1> QED
  BY <1>1, SInvAlways, PTL
=============================================================================
