----------------------------- MODULE SwitchWalk -----------------------------
(***************************************************************************)
(* The end of switch_walk (src/src/ambix_hyb-mod.c) as it works on the     *)
(* array: when one half is shorter it moves the DRAM pages left or right   *)
(* within found_addrs, an element at a time and over themselves, and fills *)
(* the gap from a backup list.  PageWalk has the pairs that result; this   *)
(* module has the loops, and everything else of PageWalk as it is.         *)
(*                                                                         *)
(* found is found_addrs as the walks left it, and keeps that value until   *)
(* the moves are done; found_addrs is the array they change.               *)
(***************************************************************************)
EXTENDS PageWalk

VARIABLES
    found_addrs,
    loop,        \* the loop switch_walk is in
    i

moves == <<found_addrs, loop, i>>
moveVars == <<vars, moves>>

\* The elements a switch has a use for, and one that the request has not written.
Slot == 0 .. 2 * MAX_N_SWITCH
Unwritten == <<-1>>

nvram_found == (CHOOSE k \in 1 .. Len(found) : found[k] = Separator) - 1
dram_found == Len(found) - nvram_found - 1
n_backup == Len(backups.mem)
n_switch_backup == Len(backups.switch)

FewDram == dram_found < nvram_found /\ n_backup > 0
FewNvram == nvram_found < dram_found /\ n_switch_backup > 0

\* NVRAM pages have to go when the DRAM backups do not make up for them.
Discards == FewDram /\ n_backup < nvram_found - dram_found

to_add ==
    IF FewNvram THEN IntMin(n_switch_backup, dram_found - nvram_found)
    ELSE IF Discards THEN n_backup ELSE nvram_found - dram_found

\* Where the DRAM pages begin and where they go.
old_dram_start == nvram_found + 1
new_dram_start ==
    IF FewNvram THEN old_dram_start + to_add
    ELSE IF Discards THEN dram_found + n_backup + 1 ELSE old_dram_start

\* The DRAM pages that go there: all of them to the left, those that get a partner to
\* the right.
shifted == IF FewNvram THEN nvram_found + to_add ELSE dram_found

\* Pages of either tier in the end.
kept ==
    IF FewDram \/ FewNvram THEN new_dram_start - 1
    ELSE IF dram_found = nvram_found THEN nvram_found ELSE 0

Array == [k \in Slot |-> IF k < Len(found) THEN found[k + 1] ELSE Unwritten]

MoveInit == Init /\ found_addrs = [k \in Slot |-> Unwritten] /\ loop = "none" /\ i = 0

-----------------------------------------------------------------------------
SwitchMoves ==
    /\ pc = "end" /\ mode = "SWITCH_MODE" /\ walk = "mem"
    /\ UNCHANGED vars

\* The branch switch_walk takes, with what it does before its loop: a new separator
\* when NVRAM pages go, one in front of everything when there is nothing to pair.
Branch ==
    /\ SwitchMoves /\ loop = "none"
    /\ found_addrs' =
         IF Discards THEN [Array EXCEPT ![new_dram_start - 1] = Separator]
         ELSE IF kept = 0 THEN [Array EXCEPT ![0] = Separator] ELSE Array
    /\ loop' = IF FewNvram THEN "right" ELSE IF Discards THEN "left"
               ELSE IF FewDram THEN "append" ELSE "done"
    /\ i' = IF FewNvram THEN shifted - 1 ELSE 0

\* found_addrs[new_dram_start + i] = found_addrs[old_dram_start + i]
Shift(j) ==
    found_addrs' = [found_addrs EXCEPT ![new_dram_start + j] = found_addrs[old_dram_start + j]]

ShiftLeft ==
    /\ SwitchMoves /\ loop = "left" /\ i < shifted
    /\ Shift(i) /\ i' = i + 1 /\ UNCHANGED loop

LeftDone ==
    /\ SwitchMoves /\ loop = "left" /\ i >= shifted
    /\ loop' = "append" /\ i' = 0 /\ UNCHANGED found_addrs

\* The DRAM backups go behind the DRAM pages.
AppendBackup ==
    /\ SwitchMoves /\ loop = "append" /\ i < to_add
    /\ found_addrs' =
         [found_addrs EXCEPT ![new_dram_start + dram_found + i] = backups.mem[i + 1]]
    /\ i' = i + 1 /\ UNCHANGED loop

AppendDone ==
    /\ SwitchMoves /\ loop = "append" /\ i >= to_add
    /\ loop' = "done" /\ UNCHANGED <<found_addrs, i>>

\* From the other end, while the pages that go are still where they were.
ShiftRight_Upward ==
    /\ SwitchMoves /\ loop = "right" /\ i >= 0
    /\ Shift(shifted - 1 - i) /\ i' = i - 1 /\ UNCHANGED loop

\* From the last page to the first: each is read before it is written over.
ShiftRight ==
    /\ SwitchMoves /\ loop = "right" /\ i >= 0
    /\ Shift(i) /\ i' = i - 1 /\ UNCHANGED loop

RightDone ==
    /\ SwitchMoves /\ loop = "right" /\ i < 0
    /\ loop' = "fill" /\ i' = 0 /\ UNCHANGED found_addrs

\* The NVRAM backups go where the DRAM pages began.
FillBackup ==
    /\ SwitchMoves /\ loop = "fill" /\ i < to_add
    /\ found_addrs' = [found_addrs EXCEPT ![nvram_found + i] = backups.switch[i + 1]]
    /\ i' = i + 1 /\ UNCHANGED loop

FillDone_NoSeparator ==
    /\ SwitchMoves /\ loop = "fill" /\ i >= to_add
    /\ loop' = "done" /\ UNCHANGED <<found_addrs, i>>

FillDone ==
    /\ SwitchMoves /\ loop = "fill" /\ i >= to_add
    /\ found_addrs' = [found_addrs EXCEPT ![nvram_found + to_add] = Separator]
    /\ loop' = "done" /\ UNCHANGED i

\* switch_walk returns: the reply is as many elements as it says.
SwitchReturn ==
    /\ pc = "end" /\ mode = "SWITCH_MODE" /\ walk = "mem" /\ loop = "done"
    /\ found' = [k \in 1 .. 2 * kept + 1 |-> found_addrs[k - 1]]
    /\ ret' = 0 /\ pc' = "reply"
    /\ UNCHANGED <<mm, node, cursors, mode, walk, start, leg, addr, backups, n_to_find, history>>
    /\ found_addrs' = [k \in Slot |-> Unwritten] /\ loop' = "none" /\ i' = 0

Moves ==
    \/ Branch
    \/ ShiftLeft \/ LeftDone \/ AppendBackup \/ AppendDone
    \/ ShiftRight \/ RightDone \/ FillBackup \/ FillDone
    \/ SwitchReturn

MoveNext ==
    \/ (Environment \/ Walks) /\ UNCHANGED moves
    \/ (\E m \in Mode, n \in Count : Receive(m, n)) /\ UNCHANGED moves
    \/ Moves

MoveSpec == MoveInit /\ [][MoveNext]_moveVars

-----------------------------------------------------------------------------
(* The moves leave in the array the pairs PageWalk describes, in the order it
   describes: no page is written over before it is moved, whichever half is
   shorter and however many backups there are.                             *)
ImplementsPageWalk == Spec

(* Every element a move reads or writes is one a switch has room for, and one
   it reads has been written for this request.                             *)
MovesInArray ==
    /\ loop \in {"left", "right"} /\ i \in 0 .. shifted - 1 =>
          /\ {old_dram_start + i, new_dram_start + i} \subseteq Slot
          /\ found_addrs[old_dram_start + i] # Unwritten
    /\ loop = "append" /\ i < to_add => new_dram_start + dram_found + i \in Slot /\ i < n_backup
    /\ loop = "fill" /\ i < to_add => nvram_found + i \in Slot /\ i < n_switch_backup
    /\ loop = "done" => 2 * kept \in Slot /\ \A k \in 0 .. 2 * kept : found_addrs[k] # Unwritten
=============================================================================
