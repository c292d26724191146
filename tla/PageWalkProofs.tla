----------------------------- MODULE PageWalkProofs -----------------------------
(***************************************************************************)
(* Proofs about PageWalk, for any number of processes and pages, any       *)
(* bounds, any bits the callbacks find and any moment a process exits.     *)
(***************************************************************************)
EXTENDS PageWalk, SequenceTheorems, TLAPS

-----------------------------------------------------------------------------
(* The walk.                                                               *)

(* Leg l of the walk in progress: its process, and the addresses it covers. *)
ProcAt(l) == (Origin[1] + l) % n_pids
FromAt(l) == IF l = 0 THEN Origin[2] ELSE 0
ToAt(l) == IF l = n_pids THEN Origin[2] ELSE LAST

Active == pc \in {"leg", "pte", "over"}
ListOf(cb) == IF cb = "switch" THEN "switch" ELSE "mem"

Types ==
    /\ mm \subseteq Proc
    /\ node \in [Page -> Tier \cup {"other"}]
    /\ last_pid \in [Tier -> Proc] /\ last_addr \in [Tier -> Addr]
    /\ pc \in {"idle", "leg", "pte", "over", "end", "reply", "oops"}
    /\ start \in [Tier -> Page]
    /\ leg \in 0 .. n_pids /\ addr \in Addr
    /\ found \in Seq(Page \cup {Separator})
    /\ backups \in [{"mem", "switch"} -> Seq(Page)]
    /\ n_to_find \in Int /\ ret \in {0, -1}
    /\ visited \subseteq Page /\ seen \subseteq Page

(* Where the handler is, and what it is doing there.                       *)
Place ==
    /\ pc = "idle" => found = << >> /\ seen = {} /\ \A b \in {"mem", "switch"} : backups[b] = << >>
    /\ pc # "idle" => /\ mode \in DOMAIN CallbackOf
                      /\ walk = CallbackOf[mode] \/ (mode = "SWITCH_MODE" /\ walk = "mem")
    /\ Active => leg <= LastLeg
    /\ pc = "pte" => LegProc \in mm /\ LegFrom <= addr /\ addr <= LegTo
    /\ walk = "clear" => found = << >> /\ pc # "end"
    /\ pc \in {"idle", "end", "reply"} => leg = 0
    /\ Active \/ pc = "end" =>
          (mode = "SWITCH_MODE" /\ walk = "mem" => \E s \in 1 .. Len(found) : found[s] = Separator)

(* A leg has been walked, or its process has no tables.                    *)
Passed(l) == ProcAt(l) \in mm => \A a \in FromAt(l) .. ToAt(l) : <<ProcAt(l), a>> \in visited

(* While pages are wanted, nothing behind the walk is left out.            *)
Covered ==
    Active /\ (walk = "clear" \/ Len(found) < n_to_find) =>
        /\ \A l \in 0 .. leg - 1 : Passed(l)
        /\ pc = "pte" => \A a \in LegFrom .. addr - 1 : <<LegProc, a>> \in visited
        /\ pc = "over" => Passed(leg)

WInv == Types /\ Place /\ Covered /\ FullCycle

-----------------------------------------------------------------------------
(* Legs, modes and what a callback does.                                   *)

LEMMA Wrap ==
    ASSUME NEW n \in Nat \ {0}, NEW x \in 0 .. 2 * n - 1
    PROVE  x % n = IF x < n THEN x ELSE x - n
<1>1. n \in Int /\ n > 0 /\ x \in Nat
  OBVIOUS
<1>2. CASE x < n
  <2>1. x % n = x
    BY <1>1, <1>2, SMT
  <2> QED
    BY <1>2, <2>1
<1>3. CASE n <= x
  <2>1. x < 2 * n
    OBVIOUS
  <2>2. x % n = x - n
    BY <1>1, <1>3, <2>1, SMT
  <2> QED
    BY <1>1, <1>3, <2>2
<1> QED
  BY <1>1, <1>2, <1>3

LEMMA Legs ==
    ASSUME Types
    PROVE  /\ Origin[1] \in Proc /\ Origin[2] \in Addr /\ TierOf(walk) \in Tier
           /\ \A l \in 0 .. n_pids :
                 /\ ProcAt(l) \in Proc
                 /\ ProcAt(l) = IF Origin[1] + l < n_pids THEN Origin[1] + l
                                ELSE (Origin[1] + l) - n_pids
                 /\ FromAt(l) \in Addr /\ ToAt(l) \in Addr
<1>1. TierOf(walk) \in Tier
  BY DEF TierOf, Tier
<1>2. Origin[1] \in Proc /\ Origin[2] \in Addr
  BY <1>1, SizeAssumption DEF Types, Origin, Page, Proc, Addr
<1>3. ASSUME NEW l \in 0 .. n_pids
      PROVE  ProcAt(l) = IF Origin[1] + l < n_pids THEN Origin[1] + l ELSE (Origin[1] + l) - n_pids
  <2>1. PICK x \in 0 .. 2 * n_pids - 1 : x = Origin[1] + l
    BY <1>2, SizeAssumption DEF Proc
  <2>2. n_pids \in Nat \ {0}
    BY SizeAssumption
  <2>3. x % n_pids = IF x < n_pids THEN x ELSE x - n_pids
    BY <2>2, Wrap
  <2>4. ProcAt(l) = x % n_pids
    BY <2>1, Zenon DEF ProcAt
  <2>5. CASE x < n_pids
    <3>1. Origin[1] + l < n_pids
      BY <2>1, <2>5, Zenon
    <3>2. ProcAt(l) = x
      BY <2>3, <2>4, <2>5, Zenon
    <3> QED
      BY <2>1, <3>1, <3>2, Zenon
  <2>6. CASE ~(x < n_pids)
    <3>1. ~(Origin[1] + l < n_pids)
      BY <2>1, <2>6, Zenon
    <3>2. ProcAt(l) = x - n_pids
      BY <2>3, <2>4, <2>6, Zenon
    <3> QED
      BY <2>1, <3>1, <3>2, Zenon
  <2> QED
    BY <2>5, <2>6
<1>4. ASSUME NEW l \in 0 .. n_pids PROVE ProcAt(l) \in Proc
  BY <1>2, <1>3, SizeAssumption DEF Proc
<1>5. ASSUME NEW l \in 0 .. n_pids PROVE FromAt(l) \in Addr /\ ToAt(l) \in Addr
  BY <1>2, SizeAssumption DEF FromAt, ToAt, Addr
<1> QED
  BY <1>1, <1>2, <1>3, <1>4, <1>5

LEMMA Now ==
    LegProc = ProcAt(leg) /\ LegFrom = FromAt(leg) /\ LegTo = ToAt(leg)
BY DEF LegProc, LegFrom, LegTo, ProcAt, FromAt, ToAt

(* A step that goes on with the same walk.                                 *)
LEMMA Steady ==
    ASSUME UNCHANGED <<walk, start>>
    PROVE  /\ Origin' = Origin /\ LastLeg' = LastLeg
           /\ \A l : ProcAt(l)' = ProcAt(l) /\ FromAt(l)' = FromAt(l) /\ ToAt(l)' = ToAt(l)
BY DEF Origin, LastLeg, ProcAt, FromAt, ToAt

LEMMA Modes ==
    /\ \A m \in DOMAIN CallbackOf :
          /\ CallbackOf[m] \in {"mem", "force", "write", "intensive", "switch", "clear"}
          /\ m # "SWITCH_MODE" => CallbackOf[m] # "switch"
          /\ CallbackOf[m] = "clear" <=> m = "NVRAM_CLEAR"
    /\ CallbackOf["SWITCH_MODE"] = "switch"
BY DEF CallbackOf

LEMMA SeparatorIsNoPage == Separator \notin Page
BY DEF Separator, Page

(* The common callback: it passes over a page, takes it, puts it on the
   backup list, or finds that list long enough.                            *)
Passes == UNCHANGED <<found, backups, seen>>
Taken == found' = Append(found, Here) /\ backups' = backups
Deferred ==
    /\ found' = found
    /\ backups' = [backups EXCEPT ![ListOf(walk)] = Append(@, Here)]
Enough ==
    /\ UNCHANGED <<found, backups>>
    /\ Len(found) + Len(backups[ListOf(walk)]) >= n_to_find
Collects == \E cb \in {"mem", "force", "write", "intensive", "switch"} : Collect(cb, ListOf(cb))

LEMMA Collected ==
    ASSUME Types, Collects
    PROVE  /\ pc = "pte" /\ walk \in {"mem", "force", "write", "intensive", "switch"} /\ ~Full
           /\ visited' = visited \cup {Here} /\ NextPte
           /\ UNCHANGED <<mm, node, last_pid, last_addr, mode, walk, start, ret, leg, n_to_find>>
           /\ \/ Passes
              \/ /\ node[Here] = TierOf(walk) /\ seen' = seen \cup {Here}
                 /\ Taken \/ Deferred \/ Enough
<1>1. PICK cb \in {"mem", "force", "write", "intensive", "switch"} : Collect(cb, ListOf(cb))
  BY DEF Collects
<1>2. /\ pc = "pte" /\ walk = cb /\ ~Full
      /\ visited' = visited \cup {Here} /\ NextPte
      /\ UNCHANGED <<mm, node, last_pid, last_addr, mode, walk, start, ret, leg, n_to_find>>
  BY <1>1 DEF Collect, cursors, request
<1>3. PICK y \in BOOLEAN, d \in BOOLEAN :
         IF node[Here] = TierOf(cb) /\ (Takes(cb, y, d) \/ Defers(cb, y, d))
           THEN /\ found' = IF Takes(cb, y, d) THEN Append(found, Here) ELSE found
                /\ backups' = IF Defers(cb, y, d) /\ Len(backups[ListOf(cb)]) < n_to_find - Len(found)
                                THEN [backups EXCEPT ![ListOf(cb)] = Append(@, Here)] ELSE backups
                /\ seen' = seen \cup {Here}
           ELSE UNCHANGED <<found, backups, seen>>
  BY <1>1 DEF Collect
<1>4. ~(Takes(cb, y, d) /\ Defers(cb, y, d))
  <2>1. CASE cb = "mem"
    BY <2>1, Zenon DEF Takes, Defers
  <2>2. CASE cb = "force"
    BY <2>2, Zenon DEF Takes, Defers
  <2>3. CASE cb = "write"
    BY <2>3, Zenon DEF Takes, Defers
  <2>4. CASE cb = "intensive"
    BY <2>4, Zenon DEF Takes, Defers
  <2>5. CASE cb = "switch"
    BY <2>5, Zenon DEF Takes, Defers
  <2> QED
    BY <2>1, <2>2, <2>3, <2>4, <2>5
<1>5. CASE ~(node[Here] = TierOf(cb) /\ (Takes(cb, y, d) \/ Defers(cb, y, d)))
  BY <1>2, <1>3, <1>5, Zenon DEF Passes
<1>6. CASE node[Here] = TierOf(cb) /\ Takes(cb, y, d)
  <2>1. Taken /\ seen' = seen \cup {Here}
    BY <1>3, <1>4, <1>6, Zenon DEF Taken
  <2> QED
    BY <1>2, <1>6, <2>1
<1>7. CASE node[Here] = TierOf(cb) /\ Defers(cb, y, d)
  <2>1. /\ found' = found /\ seen' = seen \cup {Here}
        /\ backups' = IF Len(backups[ListOf(cb)]) < n_to_find - Len(found)
                        THEN [backups EXCEPT ![ListOf(cb)] = Append(@, Here)] ELSE backups
    BY <1>3, <1>4, <1>7, Zenon
  <2>2. CASE Len(backups[ListOf(cb)]) < n_to_find - Len(found)
    <3>1. Deferred
      BY <1>2, <2>1, <2>2, Zenon DEF Deferred
    <3> QED
      BY <1>2, <1>7, <2>1, <3>1
  <2>3. CASE ~(Len(backups[ListOf(cb)]) < n_to_find - Len(found))
    <3>1. Len(found) \in Nat /\ Len(backups[ListOf(cb)]) \in Nat /\ n_to_find \in Int
      BY DEF Types, ListOf
    <3>2. Len(found) + Len(backups[ListOf(cb)]) >= n_to_find
      BY <2>3, <3>1
    <3>3. Enough
      BY <1>2, <2>1, <2>3, <3>2 DEF Enough
    <3> QED
      BY <1>2, <1>7, <2>1, <3>3
  <2> QED
    BY <2>2, <2>3
<1> QED
  BY <1>5, <1>6, <1>7

LEMMA CallbackCases ==
    Callback <=> StopFull \/ Collects \/ pte_callback_nvram_clear
BY DEF Callback, Collects, ListOf, pte_callback_mem, pte_callback_nvram_force, pte_callback_nvram_write,
       pte_callback_nvram_intensive, pte_callback_nvram_switch


-----------------------------------------------------------------------------
(* Pairs: some pages of one tier, the separator, as many of the other.     *)

IsJoin(c, a, b) ==
    /\ Len(c) = Len(a) + Len(b)
    /\ \A i \in 1 .. Len(a) : c[i] = a[i]
    /\ \A i \in 1 .. Len(b) : c[Len(a) + i] = b[i]

IsHalves(z, x, e, y) ==
    /\ Len(z) = Len(x) + 1 + Len(y)
    /\ \A k \in 1 .. Len(x) : z[k] = x[k]
    /\ z[Len(x) + 1] = e
    /\ \A k \in 1 .. Len(y) : z[Len(x) + 1 + k] = y[k]

\* Pages of N, the separator and as many pages of D.
Matched(s, N, D) ==
    \E x \in Seq(N), y \in Seq(D) : Len(x) = Len(y) /\ s = x \o <<Separator>> \o y

\* What the halves of the pairs are made of.
Halved(x, y, n, d, nb, db) ==
    \/ x = n /\ y = d
    \/ \E k \in 0 .. Len(n), j \in 0 .. Len(db) : x = SubSeq(n, 1, k) /\ y = d \o SubSeq(db, 1, j)
    \/ \E k \in 0 .. Len(d), j \in 0 .. Len(nb) : x = n \o SubSeq(nb, 1, j) /\ y = SubSeq(d, 1, k)
    \/ x = << >> /\ y = << >>

MadeOf(s, N, D, n, d, nb, db) ==
    \E x \in Seq(N), y \in Seq(D) :
        /\ Len(x) = Len(y) /\ s = x \o <<Separator>> \o y
        /\ Halved(x, y, n, d, nb, db)

LEMMA Joined ==
    ASSUME NEW S, NEW a \in Seq(S), NEW b \in Seq(S)
    PROVE  a \o b \in Seq(S) /\ IsJoin(a \o b, a, b)
<1>1. /\ a \o b \in Seq(S) /\ Len(a \o b) = Len(a) + Len(b)
      /\ \A i \in 1 .. Len(a) + Len(b) : (a \o b)[i] = IF i <= Len(a) THEN a[i] ELSE b[i - Len(a)]
  BY ConcatProperties
<1>2. Len(a) \in Nat /\ Len(b) \in Nat
  OBVIOUS
<1>3. ASSUME NEW i \in 1 .. Len(a) PROVE (a \o b)[i] = a[i]
  BY <1>1, <1>2
<1>4. ASSUME NEW i \in 1 .. Len(b) PROVE (a \o b)[Len(a) + i] = b[i]
  BY <1>1, <1>2
<1> QED
  BY <1>1, <1>3, <1>4, Zenon DEF IsJoin

LEMMA Halves ==
    ASSUME NEW S, NEW x \in Seq(S), NEW e \in S, NEW y \in Seq(S)
    PROVE  x \o <<e>> \o y \in Seq(S) /\ IsHalves(x \o <<e>> \o y, x, e, y)
<1>1. <<e>> \in Seq(S) /\ Len(<<e>>) = 1 /\ <<e>>[1] = e /\ 1 \in 1 .. Len(<<e>>)
  OBVIOUS
<1>2. Len(x) \in Nat /\ Len(y) \in Nat
  OBVIOUS
<1>3. PICK w \in Seq(S) : w = x \o <<e>> /\ IsJoin(w, x, <<e>>)
  BY <1>1, Joined
<1>4. PICK z \in Seq(S) : z = w \o y /\ IsJoin(z, w, y)
  BY <1>3, Joined
<1>5. Len(w) = Len(x) + 1
  BY <1>1, <1>3 DEF IsJoin
<1>6. ASSUME NEW k \in 1 .. Len(x) PROVE z[k] = x[k]
  <2>1. k \in 1 .. Len(w)
    BY <1>2, <1>5
  <2> QED
    BY <1>3, <1>4, <2>1, Zenon DEF IsJoin
<1>7. z[Len(x) + 1] = e
  <2>1. Len(x) + 1 \in 1 .. Len(w)
    BY <1>2, <1>5
  <2>2. w[Len(x) + 1] = e
    BY <1>1, <1>3, Zenon DEF IsJoin
  <2> QED
    BY <1>4, <2>1, <2>2, Zenon DEF IsJoin
<1>8. Len(z) = Len(x) + 1 + Len(y) /\ z = x \o <<e>> \o y
  BY <1>3, <1>4, <1>5, Zenon DEF IsJoin
<1> QED
  <2>1. IsHalves(z, x, e, y)
    BY <1>6, <1>7, <1>8 DEF IsHalves
  <2> QED
    BY <1>4, <1>8, <2>1, Zenon

LEMMA Prefix ==
    ASSUME NEW S, NEW s \in Seq(S), NEW k \in Nat, k <= Len(s)
    PROVE  SubSeq(s, 1, k) \in Seq(S) /\ Len(SubSeq(s, 1, k)) = k
<1>1. \A i \in 1 .. k : s[i] \in S
  BY ElementOfSeq
<1> QED
  BY <1>1, SubSeqProperties

\* What is appended to the second half may as well be part of it.
Regrouped(x, e, d, v) == x \o <<e>> \o d \o v = x \o <<e>> \o (d \o v)

LEMMA Regroup ==
    ASSUME NEW S, NEW x \in Seq(S), NEW e \in S, NEW d \in Seq(S), NEW v \in Seq(S)
    PROVE  Regrouped(x, e, d, v)
<1>1. <<e>> \in Seq(S)
  OBVIOUS
<1>2. x \o <<e>> \in Seq(S)
  BY <1>1, ConcatProperties
<1>3. PICK u \in Seq(S) : u = x \o <<e>>
  BY <1>2, Zenon
<1>4. (u \o d) \o v = u \o (d \o v)
  BY ConcatAssociative
<1> QED
  BY <1>3, <1>4, Zenon DEF Regrouped

LEMMA Paired ==
    ASSUME NEW N, NEW D, NEW n \in Seq(N), NEW d \in Seq(D), NEW nb \in Seq(N), NEW db \in Seq(D)
    PROVE  LET s == Pairs(n, d, nb, db) IN Matched(s, N, D) /\ MadeOf(s, N, D, n, d, nb, db)
<1> SUFFICES \E x \in Seq(N), y \in Seq(D) :
                /\ Len(x) = Len(y) /\ Pairs(n, d, nb, db) = x \o <<Separator>> \o y
                /\ Halved(x, y, n, d, nb, db)
  BY Zenon DEF Matched, MadeOf
<1>1. Len(n) \in Nat /\ Len(d) \in Nat /\ Len(nb) \in Nat /\ Len(db) \in Nat
  OBVIOUS
<1>2. CASE Len(d) = Len(n)
  <2>1. Pairs(n, d, nb, db) = n \o <<Separator>> \o d
    <3>1. ~(Len(d) < Len(n)) /\ ~(Len(n) < Len(d))
      BY <1>1, <1>2
    <3> QED
      BY <1>2, <3>1, Zenon DEF Pairs
  <2> QED
    BY <1>2, <2>1, Zenon DEF Halved
<1>3. CASE Len(d) < Len(n) /\ Len(db) > 0
  <2>1. PICK k \in Nat : k = IntMin(Len(n), Len(d) + Len(db))
    BY <1>1 DEF IntMin
  <2>2. k <= Len(n) /\ Len(d) <= k /\ k - Len(d) \in Nat /\ k - Len(d) <= Len(db)
    BY <1>1, <1>3, <2>1 DEF IntMin
  <2>3. SubSeq(n, 1, k) \in Seq(N) /\ Len(SubSeq(n, 1, k)) = k
    BY <2>2, Prefix
  <2>4. SubSeq(db, 1, k - Len(d)) \in Seq(D) /\ Len(SubSeq(db, 1, k - Len(d))) = k - Len(d)
    BY <2>2, Prefix
  <2>5. /\ d \o SubSeq(db, 1, k - Len(d)) \in Seq(D)
        /\ Len(d \o SubSeq(db, 1, k - Len(d))) = Len(d) + (k - Len(d))
    BY <2>4, ConcatProperties
  <2>6. Pairs(n, d, nb, db) = SubSeq(n, 1, k) \o <<Separator>> \o d \o SubSeq(db, 1, k - Len(d))
    <3>1. ~(Len(d) = Len(n)) /\ ~(Len(n) < Len(d))
      BY <1>1, <1>3
    <3> QED
      BY <1>3, <2>1, <3>1, Zenon DEF Pairs
  <2>7. Pairs(n, d, nb, db) = SubSeq(n, 1, k) \o <<Separator>> \o (d \o SubSeq(db, 1, k - Len(d)))
    <3> DEFINE S == N \cup D \cup {Separator}
    <3>1. SubSeq(n, 1, k) \in Seq(S) /\ Separator \in S
          /\ d \in Seq(S) /\ SubSeq(db, 1, k - Len(d)) \in Seq(S)
      BY <2>3, <2>4
    <3> HIDE DEF S
    <3>2. Regrouped(SubSeq(n, 1, k), Separator, d, SubSeq(db, 1, k - Len(d)))
      BY <3>1, Regroup, Zenon
    <3> QED
      BY <2>6, <3>2, Zenon DEF Regrouped
  <2>8. Len(d) + (k - Len(d)) = k
    BY <1>1
  <2>9. Halved(SubSeq(n, 1, k), d \o SubSeq(db, 1, k - Len(d)), n, d, nb, db)
    <3>1. k \in 0 .. Len(n) /\ k - Len(d) \in 0 .. Len(db)
      BY <1>1, <2>2
    <3> QED
      BY <3>1, Zenon DEF Halved
  <2> QED
    BY <2>3, <2>5, <2>7, <2>8, <2>9, Zenon
<1>4. CASE Len(n) < Len(d) /\ Len(nb) > 0
  <2>1. PICK k \in Nat : k = IntMin(Len(d), Len(n) + Len(nb))
    BY <1>1 DEF IntMin
  <2>2. k <= Len(d) /\ Len(n) <= k /\ k - Len(n) \in Nat /\ k - Len(n) <= Len(nb)
    BY <1>1, <1>4, <2>1 DEF IntMin
  <2>3. SubSeq(d, 1, k) \in Seq(D) /\ Len(SubSeq(d, 1, k)) = k
    BY <2>2, Prefix
  <2>4. SubSeq(nb, 1, k - Len(n)) \in Seq(N) /\ Len(SubSeq(nb, 1, k - Len(n))) = k - Len(n)
    BY <2>2, Prefix
  <2>5. /\ n \o SubSeq(nb, 1, k - Len(n)) \in Seq(N)
        /\ Len(n \o SubSeq(nb, 1, k - Len(n))) = Len(n) + (k - Len(n))
    BY <2>4, ConcatProperties
  <2>6. Pairs(n, d, nb, db) = n \o SubSeq(nb, 1, k - Len(n)) \o <<Separator>> \o SubSeq(d, 1, k)
    <3>1. ~(Len(d) = Len(n)) /\ ~(Len(d) < Len(n))
      BY <1>1, <1>4
    <3> QED
      BY <1>4, <2>1, <3>1, Zenon DEF Pairs
  <2>7. Len(n) + (k - Len(n)) = k
    BY <1>1
  <2>8. Halved(n \o SubSeq(nb, 1, k - Len(n)), SubSeq(d, 1, k), n, d, nb, db)
    <3>1. k \in 0 .. Len(d) /\ k - Len(n) \in 0 .. Len(nb)
      BY <1>1, <2>2
    <3> QED
      BY <3>1, Zenon DEF Halved
  <2> QED
    BY <2>3, <2>5, <2>6, <2>7, <2>8, Zenon
<1>5. CASE /\ ~(Len(d) = Len(n)) /\ ~(Len(d) < Len(n) /\ Len(db) > 0)
           /\ ~(Len(n) < Len(d) /\ Len(nb) > 0)
  <2>1. Pairs(n, d, nb, db) = <<Separator>>
    BY <1>5, Zenon DEF Pairs
  <2>2. << >> \in Seq(N) /\ << >> \in Seq(D)
    OBVIOUS
  <2>3. << >> \o <<Separator>> \o << >> = <<Separator>>
    OBVIOUS
  <2> QED
    BY <2>1, <2>2, <2>3, Zenon DEF Halved
<1> QED
  BY <1>2, <1>3, <1>4, <1>5
-----------------------------------------------------------------------------
(* Types and places.                                                       *)

LEMMA TypesInit == Init => Types /\ Place
<1> SUFFICES ASSUME Init PROVE Types /\ Place
  OBVIOUS
<1>1. mm = Proc /\ node = Layout /\ pc = "idle" /\ walk = "none" /\ leg = 0 /\ addr = 0
      /\ found = << >> /\ n_to_find = 0 /\ ret = -1 /\ visited = {} /\ seen = {}
  BY DEF Init
<1>2. backups \in [{"mem", "switch"} -> Seq(Page)] /\ \A b \in {"mem", "switch"} : backups[b] = << >>
  <2>1. backups = [b \in {"mem", "switch"} |-> << >>]
    BY DEF Init
  <2> QED
    BY <2>1
<1>3. 0 \in Proc /\ 0 \in Addr
  BY SizeAssumption DEF Proc, Addr
<1>4. last_pid \in [Tier -> Proc] /\ last_addr \in [Tier -> Addr] /\ start \in [Tier -> Page]
  BY <1>3 DEF Init, Page
<1>5. node \in [Page -> Tier \cup {"other"}]
  BY <1>1, LayoutAssumption
<1>6. found \in Seq(Page \cup {Separator}) /\ leg \in 0 .. n_pids
  BY <1>1, SizeAssumption
<1> QED
  BY <1>1, <1>2, <1>3, <1>4, <1>5, <1>6 DEF Types, Place, Active

(* The next PTE is in the leg, if there is one.                            *)
LEMMA NextInLeg ==
    ASSUME Types, Place, pc = "pte", NextPte, UNCHANGED <<walk, start, leg>>
    PROVE  /\ pc' \in {"pte", "over"} /\ addr' \in Addr
           /\ pc' = "pte" => addr # LegTo /\ addr' = addr + 1 /\ LegFrom' <= addr' /\ addr' <= LegTo'
           /\ pc' = "over" => addr = LegTo
<1>1. leg \in 0 .. n_pids /\ addr \in Addr
  BY DEF Types
<1>2. LegTo \in Addr /\ LegFrom \in Addr /\ LegFrom <= addr /\ addr <= LegTo
  BY <1>1, Legs, Now DEF Place
<1>3. LegFrom' = LegFrom /\ LegTo' = LegTo
  BY DEF LegFrom, LegTo, Origin
<1> QED
  BY <1>1, <1>2, <1>3, SizeAssumption DEF NextPte, Addr

LEMMA TypesStep ==
    ASSUME Types, Place, [Next]_vars
    PROVE  Types'
<1> USE DEF Types
<1>0. Here \in Page /\ TierOf(walk) \in Tier /\ 0 \in Proc /\ 0 \in Addr
      /\ LegProc \in Proc /\ LegFrom \in Addr
  <2>1. LegProc \in Proc /\ LegFrom \in Addr /\ TierOf(walk) \in Tier
    BY Legs, Now
  <2>2. 0 \in Proc /\ 0 \in Addr
    BY SizeAssumption DEF Proc, Addr
  <2> QED
    BY <2>1, <2>2 DEF Here, Page
<1>1. ASSUME NEW q \in Proc, Exit(q) PROVE Types'
  BY <1>1 DEF Exit, cursors, request, lists, history
<1>2. ASSUME NEW p \in Page, Move(p) PROVE Types'
  <2>1. PICK t \in Tier : t # node[p]
    BY DEF Tier
  <2>2. (CHOOSE u \in Tier : u # node[p]) \in Tier
    BY <2>1
  <2>3. node' \in [Page -> Tier \cup {"other"}]
    BY <1>2, <2>2 DEF Move
  <2> QED
    BY <1>2, <2>3 DEF Move, cursors, request, lists, history
<1>3. ASSUME NEW m \in Mode, NEW n \in Count, Receive(m, n) PROVE Types'
  <2>1. n_to_find' \in Int
    <3>1. n \in Int /\ MAX_N_SWITCH \in Int /\ MAX_N_FIND \in Int
      BY SizeAssumption
    <3>2. IntMin(MAX_N_SWITCH, n) \in Int /\ IntMin(MAX_N_FIND, n) \in Int
      BY <3>1 DEF IntMin
    <3>3. n_to_find' \in {IntMin(MAX_N_SWITCH, n), 0, IntMin(MAX_N_FIND, n)}
      BY <1>3, Zenon DEF Receive
    <3> QED
      BY <3>2, <3>3
  <2>2. start' \in [Tier -> Page] /\ leg' = 0 /\ addr' = 0 /\ pc' = "leg" /\ visited' = {}
    <3> DEFINE cb == CallbackOf[m]
    <3>1. /\ start' = IF cb = "clear" THEN start
                      ELSE [start EXCEPT ![TierOf(cb)] = <<last_pid[TierOf(cb)], last_addr[TierOf(cb)]>>]
          /\ leg' = 0 /\ addr' = 0 /\ pc' = "leg" /\ visited' = {}
      BY <1>3 DEF Receive, Walking
    <3>2. TierOf(cb) \in Tier
      BY DEF TierOf, Tier
    <3> HIDE DEF cb
    <3>3. <<last_pid[TierOf(cb)], last_addr[TierOf(cb)]>> \in Page
      BY <3>2 DEF Page
    <3> QED
      BY <3>1, <3>3
  <2> QED
    BY <1>0, <1>3, <2>1, <2>2, SizeAssumption DEF Receive, cursors
<1>4. CASE BeginLeg
  BY <1>0, <1>4 DEF BeginLeg, cursors, request, lists, history
<1>5. CASE StopFull
  BY <1>0, <1>5 DEF StopFull, request, lists, history
<1>6. CASE Collects
  <2>1. found' \in Seq(Page \cup {Separator}) /\ backups' \in [{"mem", "switch"} -> Seq(Page)]
        /\ seen' \subseteq Page
    <3>1. ListOf(walk) \in {"mem", "switch"}
      BY DEF ListOf
    <3>2. backups[ListOf(walk)] \in Seq(Page)
      BY <3>1
    <3>3. Append(backups[ListOf(walk)], Here) \in Seq(Page)
      BY <1>0, <3>2
    <3>4. Append(found, Here) \in Seq(Page \cup {Separator})
      BY <1>0
    <3>5. CASE Passes
      BY <3>5 DEF Passes
    <3>6. CASE seen' = seen \cup {Here} /\ Taken
      BY <1>0, <3>4, <3>6 DEF Taken
    <3>7. CASE seen' = seen \cup {Here} /\ Deferred
      BY <1>0, <3>1, <3>3, <3>7 DEF Deferred
    <3>8. CASE seen' = seen \cup {Here} /\ Enough
      BY <1>0, <3>8 DEF Enough
    <3> QED
      BY <1>6, <3>5, <3>6, <3>7, <3>8, Collected
  <2>2. /\ pc = "pte" /\ visited' = visited \cup {Here} /\ NextPte
        /\ UNCHANGED <<mm, node, last_pid, last_addr, mode, walk, start, ret, leg, n_to_find>>
    BY <1>6, Collected
  <2>3. pc' \in {"pte", "over"} /\ addr' \in Addr
    BY <2>2, NextInLeg
  <2> QED
    BY <1>0, <2>1, <2>2, <2>3
<1>7. CASE pte_callback_nvram_clear
  <2>1. /\ pc = "pte" /\ visited' = visited \cup {Here} /\ NextPte
        /\ UNCHANGED <<mm, node, last_pid, last_addr, mode, walk, start, ret, leg, n_to_find, found, backups, seen>>
    BY <1>7 DEF pte_callback_nvram_clear, cursors, request, lists
  <2>2. pc' \in {"pte", "over"} /\ addr' \in Addr
    BY <2>1, NextInLeg
  <2> QED
    BY <1>0, <2>1, <2>2
<1>8. CASE EndLeg
  <2>1. leg' \in 0 .. n_pids /\ pc' \in {"leg", "reply", "end"}
    BY <1>8, SizeAssumption DEF EndLeg, Place, Active, LastLeg
  <2>2. last_pid' \in [Tier -> Proc]
    BY <1>0, <1>8 DEF EndLeg
  <2> QED
    BY <1>8, <2>1, <2>2 DEF EndLeg, request, lists, history
<1>9. CASE MemEnd
  <2> DEFINE short == n_to_find - Len(found)
             extra == SubSeq(backups.mem, 1, IntMin(short, Len(backups.mem)))
  <2>1. found' = (IF short > 0 THEN found \o extra ELSE found) /\ ret' \in {0, -1} /\ pc' = "reply"
        /\ UNCHANGED <<mm, node, last_pid, last_addr, start, leg, addr, backups, n_to_find, visited, seen>>
    BY <1>9 DEF MemEnd, cursors, history
  <2>2. short > 0 => extra \in Seq(Page)
    <3>1. backups.mem \in Seq(Page) /\ Len(backups.mem) \in Nat /\ short \in Int
      OBVIOUS
    <3> HIDE DEF short
    <3> QED
      BY <3>1 DEF IntMin
  <2> HIDE DEF short, extra
  <2>3. found' \in Seq(Page \cup {Separator})
    BY <2>1, <2>2
  <2> QED
    BY <2>1, <2>3
<1>10. CASE SwitchTurn
  <2>1. found' = Append(found, Separator)
        /\ UNCHANGED <<mm, node, last_pid, last_addr, ret, seen>>
    BY <1>10 DEF SwitchTurn, cursors
  <2>2. found' \in Seq(Page \cup {Separator})
    BY <2>1
  <2>3. CASE pc' = "reply" /\ UNCHANGED <<walk, start, leg, addr, backups, n_to_find, visited>>
    BY <2>1, <2>2, <2>3
  <2>4. CASE /\ n_to_find' = Len(found) + 1
                               + IntMin(Len(found) + Len(backups.switch), n_to_find)
             /\ backups' = [backups EXCEPT !.mem = << >>]
             /\ Walking("mem")
    <3>1. n_to_find' \in Int
      <4>1. Len(found) \in Nat /\ Len(backups.switch) \in Nat
        OBVIOUS
      <4> QED
        BY <2>4, <4>1 DEF IntMin
    <3>2. backups' \in [{"mem", "switch"} -> Seq(Page)]
      <4>1. << >> \in Seq(Page)
        OBVIOUS
      <4> QED
        BY <2>4, <4>1
    <3>3. start' \in [Tier -> Page] /\ leg' = 0 /\ addr' = 0 /\ pc' = "leg" /\ visited' = {}
      <4>1. /\ start' = [start EXCEPT !["DRAM"] = <<last_pid["DRAM"], last_addr["DRAM"]>>]
            /\ leg' = 0 /\ addr' = 0 /\ pc' = "leg" /\ visited' = {}
        BY <2>4 DEF Walking, TierOf
      <4>2. <<last_pid["DRAM"], last_addr["DRAM"]>> \in Page
        BY DEF Page, Tier
      <4> QED
        BY <4>1, <4>2
    <3> QED
      BY <1>0, <2>1, <2>2, <3>1, <3>2, <3>3, SizeAssumption
  <2> QED
    BY <1>10, <2>3, <2>4 DEF SwitchTurn
<1>11. CASE SwitchEnd
  <2> DEFINE S == Page \cup {Separator}
             s == CHOOSE k \in 1 .. Len(found) : found[k] = Separator
             n == SubSeq(found, 1, s - 1)
             d == SubSeq(found, s + 1, Len(found))
  <2>1. /\ found' = Pairs(n, d, backups.switch, backups.mem) /\ ret' = 0 /\ pc' = "reply"
        /\ UNCHANGED <<mm, node, last_pid, last_addr, start, leg, addr, backups, n_to_find, visited, seen>>
    BY <1>11 DEF SwitchEnd, cursors, history
  <2>2. s \in 1 .. Len(found)
    <3>1. \E k \in 1 .. Len(found) : found[k] = Separator
      BY <1>11 DEF SwitchEnd, Place
    <3> QED
      BY <3>1, Zenon
  <2>3. n \in Seq(S) /\ d \in Seq(S)
    <3> HIDE DEF s
    <3>1. PICK j \in Int, k \in Int, l \in Int : j = s - 1 /\ k = s + 1 /\ l = Len(found)
      BY <2>2
    <3>2. /\ \A i \in 1 .. j : found[i] \in S
          /\ \A i \in k .. l : found[i] \in S
      BY <2>2, <3>1
    <3> HIDE DEF S
    <3>3. SubSeq(found, 1, j) \in Seq(S) /\ SubSeq(found, k, l) \in Seq(S)
      BY <3>2, SubSeqProperties
    <3> QED
      BY <3>1, <3>3, Zenon
  <2>4. backups.switch \in Seq(S) /\ backups.mem \in Seq(S)
    OBVIOUS
  <2> HIDE DEF S, s, n, d
  <2>5. PICK x \in Seq(S), y \in Seq(S) : found' = x \o <<Separator>> \o y
    <3>1. Matched(Pairs(n, d, backups.switch, backups.mem), S, S)
      BY <2>3, <2>4, Paired
    <3> QED
      BY <2>1, <3>1, Zenon DEF Matched
  <2>6. found' \in Seq(S)
    <3>1. Separator \in S
      BY DEF S
    <3> QED
      BY <2>5, <3>1, Halves
  <2> QED
    BY <2>1, <2>6 DEF S
<1>12. CASE Reply
  <2>1. start' \in [Tier -> Page] /\ backups' \in [{"mem", "switch"} -> Seq(Page)]
        /\ found' \in Seq(Page \cup {Separator})
    <3>1. start' = [t \in Tier |-> <<0, 0>>] /\ backups' = [mem |-> << >>, switch |-> << >>]
          /\ found' = << >>
      BY <1>12 DEF Reply
    <3>2. <<0, 0>> \in Page
      BY <1>0 DEF Page
    <3>3. start' \in [Tier -> Page]
      BY <3>1, <3>2
    <3>4. << >> \in Seq(Page) /\ << >> \in Seq(Page \cup {Separator})
      OBVIOUS
    <3>5. backups' = [b \in {"mem", "switch"} |-> << >>]
      BY <3>1
    <3> QED
      BY <3>1, <3>3, <3>4, <3>5
  <2> QED
    BY <1>12, <2>1 DEF Reply, cursors
<1>13. CASE UNCHANGED vars
  BY <1>13 DEF vars, cursors, request, lists, history
<1> QED
  BY <1>1, <1>2, <1>3, <1>4, <1>5, <1>6, <1>7, <1>8, <1>9, <1>10, <1>11, <1>12, <1>13, CallbackCases
  DEF Next, Environment, Handler, Walks

(* Where the handler stands.                                               *)
LEMMA PlaceStep ==
    ASSUME Types, Place, [Next]_vars, Types'
    PROVE  Place'
<1> DEFINE Rest ==
        /\ walk' = walk /\ start' = start /\ mode' = mode
        /\ mm' = mm \/ (pc # "pte" /\ pc' = pc)
<1>0. n_pids \in Nat \ {0} /\ leg \in 0 .. n_pids
  BY SizeAssumption DEF Types
<1>1. ASSUME NEW q \in Proc, Exit(q) PROVE Place'
  <2>1. UNCHANGED <<node, cursors, pc, request, leg, addr, lists, history>>
    BY <1>1 DEF Exit
  <2>2. UNCHANGED <<LegProc, LegFrom, LegTo, LastLeg, Active>>
    BY <2>1 DEF request, LegProc, LegFrom, LegTo, LastLeg, Active, Origin
  <2>3. pc = "pte" /\ LegProc \in mm => LegProc \in mm'
    BY <1>1 DEF Exit
  <2> QED
    BY <2>1, <2>2, <2>3 DEF Place, request, lists, history
<1>2. ASSUME NEW p \in Page, Move(p) PROVE Place'
  BY <1>2 DEF Move, Place, Active, cursors, request, lists, history
<1>3. ASSUME NEW m \in Mode, NEW n \in Count, Receive(m, n) PROVE Place'
  <2>1. /\ pc = "idle" /\ pc' = "leg" /\ mode' = m /\ walk' = CallbackOf[m] /\ leg' = 0
        /\ found' = found
    BY <1>3 DEF Receive, Walking
  <2>2. m \in DOMAIN CallbackOf
    BY SizeAssumption
  <2>3. found' = << >>
    BY <2>1 DEF Place
  <2>4. LastLeg' \in Nat
    BY <1>0 DEF LastLeg
  <2>5. ~(mode' = "SWITCH_MODE" /\ walk' = "mem")
    BY <2>1 DEF CallbackOf
  <2> QED
    BY <2>1, <2>2, <2>3, <2>4, <2>5 DEF Place, Active
<1>4. CASE BeginLeg
  <2>1. /\ pc = "leg" /\ UNCHANGED <<mm, walk, start, mode, leg, found>>
        /\ pc' \in {"pte", "over", "oops"}
        /\ pc' = "pte" => LegProc \in mm /\ addr' = LegFrom
    BY <1>4 DEF BeginLeg, request, lists
  <2>2. UNCHANGED <<LegProc, LegFrom, LegTo, LastLeg>>
    BY <2>1 DEF LegProc, LegFrom, LegTo, LastLeg, Origin
  <2>3. LegFrom <= LegTo
    <3>1. FromAt(leg) \in Addr /\ ToAt(leg) \in Addr /\ Origin[2] \in Addr
      BY <1>0, Legs
    <3> QED
      BY <3>1, SizeAssumption DEF LegFrom, LegTo, Addr
  <2>4. LegFrom \in Int
    BY <1>0, Legs, Now DEF Addr
  <2> QED
    BY <2>1, <2>2, <2>3, <2>4 DEF Place, Active
<1>5. CASE StopFull
  <2>1. /\ pc = "pte" /\ pc' = "over" /\ walk # "clear"
        /\ UNCHANGED <<mm, walk, start, mode, leg, found>>
    BY <1>5 DEF StopFull, request, lists
  <2>2. LastLeg' = LastLeg
    BY <2>1 DEF LastLeg
  <2> QED
    BY <2>1, <2>2 DEF Place, Active
<1>6. CASE Collects
  <2>1. /\ pc = "pte" /\ walk # "clear" /\ NextPte
        /\ UNCHANGED <<mm, walk, start, mode, leg>>
        /\ found' = found \/ found' = Append(found, Here)
    BY <1>6, Collected DEF Passes, Taken, Deferred, Enough
  <2>2. UNCHANGED <<LegProc, LegFrom, LegTo, LastLeg>>
    BY <2>1 DEF LegProc, LegFrom, LegTo, LastLeg, Origin
  <2>3. pc' \in {"pte", "over"} /\ (pc' = "pte" => LegFrom' <= addr' /\ addr' <= LegTo')
    BY <2>1, NextInLeg
  <2>4. (\E s \in 1 .. Len(found) : found[s] = Separator)
          => \E s \in 1 .. Len(found') : found'[s] = Separator
    <3>1. found \in Seq(Page \cup {Separator}) /\ Here \in Page \cup {Separator}
      BY Legs, Now DEF Types, Here, Page
    <3>2. CASE found' = Append(found, Here)
      <4>1. Len(found') = Len(found) + 1 /\ \A s \in 1 .. Len(found) : found'[s] = found[s]
        BY <3>1, <3>2, AppendProperties
      <4>2. Len(found) \in Nat
        BY <3>1
      <4> QED
        BY <4>1, <4>2
    <3> QED
      BY <2>1, <3>2
  <2> QED
    BY <2>1, <2>2, <2>3, <2>4 DEF Place, Active
<1>7. CASE pte_callback_nvram_clear
  <2>1. /\ pc = "pte" /\ NextPte
        /\ UNCHANGED <<mm, walk, start, mode, leg, found>>
    BY <1>7 DEF pte_callback_nvram_clear, request, lists
  <2>2. UNCHANGED <<LegProc, LegFrom, LegTo, LastLeg>>
    BY <2>1 DEF LegProc, LegFrom, LegTo, LastLeg, Origin
  <2>3. pc' \in {"pte", "over"} /\ (pc' = "pte" => LegFrom' <= addr' /\ addr' <= LegTo')
    BY <2>1, NextInLeg
  <2> QED
    BY <2>1, <2>2, <2>3 DEF Place, Active
<1>8. CASE EndLeg
  <2>1. /\ pc = "over" /\ UNCHANGED <<mm, walk, start, mode, found>>
        /\ \/ pc' = "leg" /\ leg' = leg + 1 /\ leg < LastLeg
           \/ leg' = 0 /\ pc' = IF walk = "clear" THEN "reply" ELSE "end"
    BY <1>8 DEF EndLeg, request, lists
  <2>2. LastLeg' = LastLeg /\ LastLeg \in Int
    BY <1>0, <2>1 DEF LastLeg
  <2> QED
    BY <1>0, <2>1, <2>2 DEF Place, Active
<1>9. CASE MemEnd
  BY <1>9 DEF MemEnd, Place, Active
<1>10. CASE SwitchTurn
  <2>1. /\ pc = "end" /\ walk = "switch" /\ mode' = mode /\ found' = Append(found, Separator)
        /\ mode \in DOMAIN CallbackOf /\ mode = "SWITCH_MODE" /\ leg = 0
    BY <1>10, Modes DEF SwitchTurn, Place
  <2>2. \/ pc' = "reply" /\ walk' = walk /\ leg' = leg
        \/ pc' = "leg" /\ walk' = "mem" /\ leg' = 0
    BY <1>10 DEF SwitchTurn, Walking
  <2>3. \E s \in 1 .. Len(found') : found'[s] = Separator
    <3>1. Len(found) + 1 \in 1 .. Len(found') /\ found'[Len(found) + 1] = Separator
      BY <2>1 DEF Types
    <3> QED
      BY <3>1
  <2>4. LastLeg' \in Nat
    BY <1>0 DEF LastLeg
  <2> QED
    BY <2>1, <2>2, <2>3, <2>4 DEF Place, Active
<1>11. CASE SwitchEnd
  BY <1>11 DEF SwitchEnd, Place, Active
<1>12. CASE Reply
  BY <1>12 DEF Reply, Place, Active
<1>13. CASE UNCHANGED vars
  <2>1. UNCHANGED <<LegProc, LegFrom, LegTo, LastLeg, Active>>
    BY <1>13 DEF vars, request, LegProc, LegFrom, LegTo, LastLeg, Origin, Active
  <2> QED
    BY <1>13, <2>1 DEF Place, vars, cursors, request, lists, history
<1> QED
  BY <1>1, <1>2, <1>3, <1>4, <1>5, <1>6, <1>7, <1>8, <1>9, <1>10, <1>11, <1>12, <1>13, CallbackCases
  DEF Next, Environment, Handler, Walks

-----------------------------------------------------------------------------
(* A whole cycle.                                                          *)

(* The legs of a walk, one after the other, are all the processes whole.   *)
LEMMA Cycle ==
    ASSUME Types, \A l \in 0 .. LastLeg : Passed(l)
    PROVE  \A q \in mm : {q} \X Addr \subseteq visited
<1> SUFFICES ASSUME NEW q \in mm, NEW a \in Addr PROVE <<q, a>> \in visited
  OBVIOUS
<1>0. n_pids \in Nat \ {0} /\ LAST \in Nat /\ a \in 0 .. LAST /\ q \in 0 .. n_pids - 1
  BY SizeAssumption DEF Addr, Proc, Types
<1>1. PICK o \in 0 .. n_pids - 1, b \in 0 .. LAST : Origin[1] = o /\ Origin[2] = b
  BY Legs DEF Addr, Proc
<1>2. ASSUME NEW l \in 0 .. LastLeg, ProcAt(l) = q, FromAt(l) <= a, a <= ToAt(l)
      PROVE  <<q, a>> \in visited
  <2>1. l \in 0 .. n_pids
    BY <1>0 DEF LastLeg
  <2>2. FromAt(l) \in Int /\ ToAt(l) \in Int /\ a \in Int
    BY <1>0, <2>1, Legs DEF Addr
  <2>3. a \in FromAt(l) .. ToAt(l)
    BY <1>2, <2>2
  <2> QED
    BY <1>2, <2>3 DEF Passed
<1>3. CASE walk = "clear"
  <2>1. Origin = <<0, 0>> /\ LastLeg = n_pids - 1
    BY <1>3 DEF Origin, LastLeg
  <2>2. q \in 0 .. LastLeg /\ q \in 0 .. n_pids /\ q # n_pids
    BY <1>0, <2>1
  <2>3. ProcAt(q) = q
    BY <1>0, <2>1, <2>2, Legs
  <2>4. FromAt(q) = 0 /\ ToAt(q) = LAST
    BY <2>1, <2>2 DEF FromAt, ToAt
  <2> QED
    BY <1>0, <1>2, <2>2, <2>3, <2>4
<1>4. CASE walk # "clear"
  <2>1. LastLeg = n_pids
    BY <1>4 DEF LastLeg
  <2>2. CASE q = o /\ b <= a
    <3>1. 0 \in 0 .. n_pids
      BY <1>0
    <3>2. ProcAt(0) = q
      BY <1>0, <1>1, <2>2, <3>1, Legs
    <3>3. FromAt(0) = b /\ ToAt(0) = LAST
      BY <1>0, <1>1 DEF FromAt, ToAt
    <3> QED
      BY <1>0, <1>2, <2>1, <2>2, <3>1, <3>2, <3>3
  <2>3. CASE q = o /\ a < b
    <3>1. n_pids \in 0 .. n_pids
      BY <1>0
    <3>2. ProcAt(n_pids) = q
      BY <1>0, <1>1, <2>3, <3>1, Legs
    <3>3. FromAt(n_pids) = 0 /\ ToAt(n_pids) = b
      BY <1>0, <1>1 DEF FromAt, ToAt
    <3> QED
      BY <1>0, <1>2, <2>1, <2>3, <3>1, <3>2, <3>3
  <2>4. CASE q # o
    <3>1. PICK l \in 1 .. n_pids - 1 : l = IF o < q THEN q - o ELSE (q - o) + n_pids
      <4>1. CASE o < q
        <5>1. q - o \in 1 .. n_pids - 1
          BY <1>0, <4>1
        <5> QED
          BY <4>1, <5>1
      <4>2. CASE ~(o < q)
        <5>1. (q - o) + n_pids \in 1 .. n_pids - 1
          BY <1>0, <2>4, <4>2
        <5> QED
          BY <4>2, <5>1
      <4> QED
        BY <4>1, <4>2
    <3>2. l \in 0 .. n_pids
      BY <1>0
    <3>3. ProcAt(l) = q
      BY <1>0, <1>1, <3>1, <3>2, Legs
    <3>4. FromAt(l) = 0 /\ ToAt(l) = LAST
      BY <1>0 DEF FromAt, ToAt
    <3> QED
      BY <1>0, <1>2, <2>1, <3>2, <3>3, <3>4
  <2> QED
    BY <1>0, <2>2, <2>3, <2>4
<1> QED
  BY <1>3, <1>4

(* A callback and the step to the next PTE.                                *)
LEMMA CalledBack ==
    ASSUME Types, Place, Covered, pc = "pte", NextPte, visited' = visited \cup {Here},
           walk = "clear" \/ Len(found) < n_to_find,
           UNCHANGED <<mm, walk, start, leg>>
    PROVE  Covered'
<1>1. pc' \in {"pte", "over"} /\ addr' \in Addr
      /\ (pc' = "pte" => addr # LegTo /\ addr' = addr + 1)
      /\ (pc' = "over" => addr = LegTo)
  BY NextInLeg
<1>2. /\ \A l : ProcAt(l)' = ProcAt(l) /\ FromAt(l)' = FromAt(l) /\ ToAt(l)' = ToAt(l)
      /\ LegProc' = LegProc /\ LegFrom' = LegFrom /\ LegTo' = LegTo
  BY Steady, Now DEF LegProc, LegFrom, LegTo, Origin
<1>3. \A l \in 0 .. leg - 1 : Passed(l)
  BY DEF Covered, Active
<1>4. \A l \in 0 .. leg - 1 : Passed(l)'
  BY <1>2, <1>3 DEF Passed
<1>5. /\ LegFrom \in Int /\ LegTo \in Int /\ addr \in Int
      /\ \A a \in LegFrom .. addr - 1 : <<LegProc, a>> \in visited
  <2>1. leg \in 0 .. n_pids /\ addr \in Int
    BY DEF Types, Addr
  <2>2. LegFrom \in Int /\ LegTo \in Int
    BY <2>1, Legs, Now DEF Addr
  <2> QED
    BY <2>1, <2>2 DEF Covered, Active
<1>6. \A a \in LegFrom .. addr : <<LegProc, a>> \in visited'
  <2> SUFFICES ASSUME NEW a \in LegFrom .. addr PROVE <<LegProc, a>> \in visited'
    OBVIOUS
  <2>1. CASE a = addr
    BY <2>1 DEF Here
  <2>2. CASE a # addr
    <3>1. a \in LegFrom .. addr - 1
      BY <1>5, <2>2
    <3> QED
      BY <1>5, <3>1
  <2> QED
    BY <2>1, <2>2
<1>7. CASE pc' = "pte"
  <2>1. \A a \in LegFrom' .. addr' - 1 : <<LegProc', a>> \in visited'
    BY <1>1, <1>2, <1>5, <1>6, <1>7
  <2> QED
    BY <1>4, <1>7, <2>1 DEF Covered
<1>8. CASE pc' = "over"
  <2>1. addr = LegTo
    BY <1>1, <1>8
  <2>2. Passed(leg)'
    BY <1>2, <1>6, <2>1, Now DEF Passed
  <2> QED
    BY <1>4, <1>8, <2>2 DEF Covered
<1> QED
  BY <1>1, <1>7, <1>8

LEMMA CoveredStep ==
    ASSUME Types, Place, Covered, FullCycle, [Next]_vars
    PROVE  Covered' /\ FullCycle'
<1>0. n_pids \in Nat \ {0} /\ leg \in 0 .. n_pids /\ Len(found) \in Nat /\ n_to_find \in Int
  BY SizeAssumption DEF Types
<1>1. ASSUME NEW q \in Proc, Exit(q) PROVE Covered' /\ FullCycle'
  <2>1. mm' \subseteq mm /\ UNCHANGED <<node, cursors, pc, request, leg, addr, lists, history>>
    BY <1>1 DEF Exit
  <2>2. \A l : ProcAt(l)' = ProcAt(l) /\ FromAt(l)' = FromAt(l) /\ ToAt(l)' = ToAt(l)
    BY <2>1, Steady DEF request
  <2>3. UNCHANGED <<LegProc, LegFrom, LegTo, Active>>
    BY <2>1 DEF request, LegProc, LegFrom, LegTo, Active, Origin
  <2>4. \A l : Passed(l) => Passed(l)'
    BY <2>1, <2>2 DEF Passed, history
  <2>5. Covered'
    BY <2>1, <2>3, <2>4 DEF Covered, request, lists, history
  <2>6. FullCycle'
    BY <2>1 DEF FullCycle, request, lists, history
  <2> QED
    BY <2>5, <2>6
<1>2. ASSUME NEW p \in Page, Move(p) PROVE Covered' /\ FullCycle'
  BY <1>2 DEF Move, Covered, FullCycle, Active, cursors, request, lists, history
<1>3. ASSUME NEW m \in Mode, NEW n \in Count, Receive(m, n) PROVE Covered' /\ FullCycle'
  BY <1>3 DEF Receive, Walking, Covered, FullCycle
<1>4. CASE BeginLeg
  <2>1. /\ pc = "leg" /\ UNCHANGED <<mm, walk, start, leg, found, n_to_find, visited>>
        /\ \/ pc' = "pte" /\ addr' = LegFrom
           \/ pc' = "over" /\ LegProc \notin mm
           \/ pc' = "oops"
    BY <1>4 DEF BeginLeg, request, lists, history
  <2>2. /\ \A l : ProcAt(l)' = ProcAt(l) /\ FromAt(l)' = FromAt(l) /\ ToAt(l)' = ToAt(l)
        /\ LegProc' = LegProc /\ LegFrom' = LegFrom
    BY <2>1, Steady DEF LegProc, LegFrom, Origin
  <2>3. \A l : Passed(l) => Passed(l)'
    BY <2>1, <2>2 DEF Passed
  <2>4. pc' = "over" => Passed(leg)'
    BY <2>1, <2>2, Now DEF Passed
  <2>5. pc' = "pte" => LegFrom' .. addr' - 1 = {}
    BY <1>0, <2>1, <2>2, Legs, Now DEF Addr
  <2>6. Covered'
    BY <2>1, <2>3, <2>4, <2>5 DEF Covered, Active
  <2> QED
    BY <2>1, <2>6 DEF FullCycle
<1>5. CASE StopFull
  BY <1>0, <1>5 DEF StopFull, Full, Covered, FullCycle, request, lists
<1>6. CASE Collects
  <2>1. /\ pc = "pte" /\ ~Full /\ NextPte /\ visited' = visited \cup {Here} /\ n_to_find' = n_to_find
        /\ UNCHANGED <<mm, walk, start, leg>>
        /\ found' = found \/ found' = Append(found, Here)
    BY <1>6, Collected DEF Passes, Taken, Deferred, Enough
  <2>2. Len(found) <= Len(found') /\ Len(found') \in Nat
    <3>1. Here \in Page
      BY Legs, Now DEF Here, Page, Types
    <3>2. Len(Append(found, Here)) = Len(found) + 1
      BY <3>1, AppendProperties DEF Types
    <3> QED
      BY <1>0, <2>1, <3>2
  <2>3. pc' \in {"pte", "over"}
    BY <2>1, NextInLeg
  <2>4. CASE walk = "clear" \/ Len(found) < n_to_find
    BY <2>1, <2>3, <2>4, CalledBack DEF FullCycle
  <2>5. CASE ~(walk = "clear" \/ Len(found) < n_to_find)
    <3>1. ~(walk' = "clear" \/ Len(found') < n_to_find')
      BY <1>0, <2>1, <2>2, <2>5
    <3> QED
      BY <2>3, <3>1 DEF Covered, FullCycle
  <2> QED
    BY <2>4, <2>5
<1>7. CASE pte_callback_nvram_clear
  <2>1. /\ pc = "pte" /\ walk = "clear" /\ NextPte /\ visited' = visited \cup {Here}
        /\ UNCHANGED <<mm, walk, start, leg>>
    BY <1>7 DEF pte_callback_nvram_clear, request, lists
  <2>2. pc' \in {"pte", "over"}
    BY <2>1, NextInLeg
  <2> QED
    BY <2>1, <2>2, CalledBack DEF FullCycle
<1>8. CASE EndLeg
  <2>1. pc = "over" /\ UNCHANGED <<mm, walk, start, found, n_to_find, visited>>
    BY <1>8 DEF EndLeg, request, lists, history
  <2>2. /\ \A l : ProcAt(l)' = ProcAt(l) /\ FromAt(l)' = FromAt(l) /\ ToAt(l)' = ToAt(l)
        /\ LastLeg' = LastLeg
    BY <2>1, Steady
  <2>3. \A l : Passed(l) => Passed(l)'
    BY <2>1, <2>2 DEF Passed
  <2>4. walk = "clear" \/ Len(found) < n_to_find => \A l \in 0 .. leg : Passed(l)
    <3>1. walk = "clear" \/ Len(found) < n_to_find => Passed(leg) /\ \A l \in 0 .. leg - 1 : Passed(l)
      BY <2>1 DEF Covered, Active
    <3>2. \A l \in 0 .. leg : l = leg \/ l \in 0 .. leg - 1
      BY <1>0
    <3> QED
      BY <3>1, <3>2
  <2>5. CASE pc' = "leg" /\ leg' = leg + 1
    <3>1. leg' - 1 = leg
      BY <1>0, <2>5
    <3> QED
      BY <2>1, <2>3, <2>4, <2>5, <3>1 DEF Covered, FullCycle
  <2>6. CASE /\ ~(leg < LastLeg /\ ~(walk # "clear" /\ Len(found) >= n_to_find))
             /\ pc' = IF walk = "clear" THEN "reply" ELSE "end"
    <3>1. Covered'
      BY <2>6 DEF Covered, Active
    <3>2. walk = "clear" \/ Len(found) < n_to_find => leg = LastLeg
      BY <1>0, <2>1, <2>6 DEF Place, Active, LastLeg
    <3>3. walk = "clear" \/ Len(found) < n_to_find => \A q \in mm : {q} \X Addr \subseteq visited
      BY <2>4, <3>2, Cycle
    <3>4. FullCycle'
      BY <2>1, <3>3 DEF FullCycle
    <3> QED
      BY <3>1, <3>4
  <2> QED
    BY <1>8, <2>5, <2>6 DEF EndLeg
<1>9. CASE MemEnd
  BY <1>9 DEF MemEnd, Covered, FullCycle, Active, Place
<1>10. CASE SwitchTurn
  BY <1>10 DEF SwitchTurn, Walking, Covered, FullCycle, Active
<1>11. CASE SwitchEnd
  BY <1>11 DEF SwitchEnd, Covered, FullCycle, Active
<1>12. CASE Reply
  BY <1>12 DEF Reply, Covered, FullCycle, Active
<1>13. CASE UNCHANGED vars
  <2>1. UNCHANGED <<mm, pc, walk, start, leg, addr, found, n_to_find, visited>>
    BY <1>13 DEF vars, request, lists, history
  <2>2. /\ \A l : ProcAt(l)' = ProcAt(l) /\ FromAt(l)' = FromAt(l) /\ ToAt(l)' = ToAt(l)
        /\ UNCHANGED <<LegProc, LegFrom, LegTo, Active>>
    BY <2>1, Steady DEF LegProc, LegFrom, LegTo, Origin, Active
  <2>3. \A l : Passed(l) => Passed(l)'
    BY <2>1, <2>2 DEF Passed
  <2>4. Covered'
    BY <2>1, <2>2, <2>3 DEF Covered
  <2>5. FullCycle'
    BY <2>1 DEF FullCycle
  <2> QED
    BY <2>4, <2>5
<1> QED
  BY <1>1, <1>2, <1>3, <1>4, <1>5, <1>6, <1>7, <1>8, <1>9, <1>10, <1>11, <1>12, <1>13, CallbackCases
  DEF Next, Environment, Handler, Walks

(* The inductive invariant of the walk itself: types, where each state of
   the handler may stand, and what lies behind it is visited.              *)
THEOREM WInvariant == Spec => []WInv
<1>1. Init => WInv
  <2>1. Init => Covered /\ FullCycle
    BY DEF Init, Covered, FullCycle, Active
  <2> QED
    BY <2>1, TypesInit DEF WInv
<1>2. WInv /\ [Next]_vars => WInv'
  BY TypesStep, PlaceStep, CoveredStep DEF WInv
<1> QED
  BY <1>1, <1>2, PTL DEF Spec

(* The state of the handler keeps its types, and its lists hold pages.     *)
THEOREM TypeCorrect == Spec => []TypeOK
<1>1. WInv => TypeOK
  <2> SUFFICES ASSUME Types PROVE TypeOK
    BY DEF WInv
  <2>1. \A k \in 1 .. Len(found) : found[k] \in Page \cup {Separator}
    BY DEF Types
  <2>2. \A b \in {"mem", "switch"} : \A k \in 1 .. Len(backups[b]) : backups[b][k] \in Page
    <3> SUFFICES ASSUME NEW b \in {"mem", "switch"}, NEW k \in 1 .. Len(backups[b])
                 PROVE  backups[b][k] \in Page
      OBVIOUS
    <3>1. backups[b] \in Seq(Page)
      BY DEF Types
    <3> QED
      BY <3>1, ElementOfSeq
  <2> QED
    BY <2>1, <2>2 DEF Types, TypeOK
<1> QED
  BY <1>1, WInvariant, PTL

(* do_page_walk and clear_walk leave out no page of a process that is still
   there, wherever the cursor is, unless the list is full before the end.  *)
THEOREM WalksAreWhole == Spec => []FullCycle
<1>1. WInv => FullCycle
  BY DEF WInv
<1> QED
  BY <1>1, WInvariant, PTL

-----------------------------------------------------------------------------
(* The cursor.                                                             *)

(* A full list was filled in the leg in progress.                          *)
Filling ==
    (Active \/ pc = "end") /\ walk # "clear" =>
        /\ n_to_find = 0 /\ ~(mode = "SWITCH_MODE" /\ walk = "mem") =>
              found = << >> /\ backups["switch"] = << >>
        /\ pc = "leg" => ~Full \/ n_to_find = 0
        /\ pc \in {"pte", "over"} /\ Full /\ n_to_find > 0 => found[Len(found)][1] = LegProc

LEMMA Filled ==
    ASSUME Types, found' = Append(found, Here)
    PROVE  Len(found') = Len(found) + 1 /\ Len(found) \in Nat
           /\ found'[Len(found')] = Here /\ Here[1] = LegProc
           /\ \A k \in 1 .. Len(found) : found'[k] = found[k]
<1>1. found \in Seq(Page \cup {Separator}) /\ Here \in Page \cup {Separator} /\ Here[1] = LegProc
  BY Legs, Now DEF Types, Here, Page
<1> QED
  BY <1>1, AppendProperties

LEMMA FillingStep ==
    ASSUME Types, Place, Filling, CursorAtFiller, [Next]_vars
    PROVE  Filling' /\ CursorAtFiller'
<1>0. /\ leg \in 0 .. n_pids /\ Len(found) \in Nat /\ n_to_find \in Int
      /\ Len(backups["switch"]) \in Nat /\ Len(backups["mem"]) \in Nat
  BY SizeAssumption DEF Types
<1>1. ASSUME NEW q \in Proc, Exit(q) PROVE Filling' /\ CursorAtFiller'
  <2>1. UNCHANGED <<node, cursors, pc, request, leg, addr, lists, history>>
    BY <1>1 DEF Exit
  <2>2. UNCHANGED <<LegProc, Active, Full>>
    BY <2>1 DEF request, lists, LegProc, Active, Full, Origin
  <2> QED
    BY <2>1, <2>2 DEF Filling, CursorAtFiller, cursors, request, lists
<1>2. ASSUME NEW p \in Page, Move(p) PROVE Filling' /\ CursorAtFiller'
  BY <1>2 DEF Move, Filling, CursorAtFiller, Active, cursors, request, lists
<1>3. ASSUME NEW m \in Mode, NEW n \in Count, Receive(m, n) PROVE Filling' /\ CursorAtFiller'
  <2>1. pc = "idle" /\ pc' = "leg" /\ found' = found /\ backups' = backups
    BY <1>3 DEF Receive, Walking
  <2>2. found' = << >> /\ backups'["switch"] = << >>
    BY <2>1 DEF Place
  <2>3. Len(found') = 0
    BY <2>2
  <2> QED
    BY <2>1, <2>2, <2>3 DEF Filling, CursorAtFiller, Full
<1>4. CASE BeginLeg
  <2>1. /\ pc = "leg" /\ UNCHANGED <<walk, start, mode, leg, found, backups, n_to_find>>
        /\ pc' \in {"pte", "over", "oops"}
    BY <1>4 DEF BeginLeg, request, lists
  <2> QED
    BY <1>0, <2>1 DEF Filling, CursorAtFiller, Active, Full
<1>5. CASE StopFull
  <2>1. /\ pc = "pte" /\ pc' = "over" /\ UNCHANGED <<walk, start, mode, leg, found, backups, n_to_find>>
    BY <1>5 DEF StopFull, request, lists
  <2>2. LegProc' = LegProc
    BY <2>1 DEF LegProc, Origin
  <2> QED
    BY <2>1, <2>2 DEF Filling, CursorAtFiller, Active, Full
<1>6. CASE Collects
  <2>1. /\ pc = "pte" /\ walk # "clear" /\ ~Full /\ NextPte
        /\ UNCHANGED <<walk, start, mode, leg, n_to_find>>
        /\ (UNCHANGED <<found, backups>>) \/ Taken \/ Deferred
    BY <1>6, Collected DEF Passes, Enough
  <2>2. pc' \in {"pte", "over"} /\ LegProc' = LegProc
    BY <2>1, NextInLeg DEF LegProc, Origin
  <2>3. n_to_find # 0 \/ (mode = "SWITCH_MODE" /\ walk = "mem")
    BY <2>1 DEF Filling, Active, Full
  <2>4. CASE found' = found
    BY <2>1, <2>2, <2>3, <2>4 DEF Filling, CursorAtFiller, Full
  <2>5. CASE found' = Append(found, Here)
    BY <2>1, <2>2, <2>3, <2>5, Filled DEF Filling, CursorAtFiller
  <2> QED
    BY <2>1, <2>4, <2>5 DEF Taken, Deferred
<1>7. CASE pte_callback_nvram_clear
  <2>1. /\ pc = "pte" /\ walk = "clear" /\ NextPte /\ UNCHANGED <<walk, start, leg>>
    BY <1>7 DEF pte_callback_nvram_clear, request
  <2>2. pc' \in {"pte", "over"}
    BY <2>1, NextInLeg
  <2> QED
    BY <2>1, <2>2 DEF Filling, CursorAtFiller
<1>8. CASE EndLeg
  <2>1. pc = "over" /\ UNCHANGED <<walk, start, mode, found, backups, n_to_find>>
    BY <1>8 DEF EndLeg, request, lists
  <2>2. CASE pc' = "leg" /\ ~(walk # "clear" /\ Len(found) >= n_to_find)
    BY <1>0, <2>1, <2>2 DEF Filling, CursorAtFiller, Active, Full
  <2>3. CASE walk = "clear" /\ pc' = "reply"
    BY <2>1, <2>3 DEF Filling, CursorAtFiller, Active
  <2>4. CASE /\ walk # "clear" /\ pc' = "end"
             /\ last_pid' = [last_pid EXCEPT ![TierOf(walk)] = LegProc]
    <3>1. last_pid'[TierOf(walk')] = LegProc
      BY <2>1, <2>4, Legs DEF Types
    <3> QED
      BY <2>1, <2>4, <3>1 DEF Filling, CursorAtFiller, Active, Full
  <2> QED
    BY <1>8, <2>2, <2>3, <2>4 DEF EndLeg
<1>9. CASE MemEnd
  BY <1>9 DEF MemEnd, Filling, CursorAtFiller, Active
<1>10. CASE SwitchTurn
  <2>1. pc = "end" /\ walk = "switch" /\ found' = Append(found, Separator)
    BY <1>10 DEF SwitchTurn
  <2>2. Len(found') = Len(found) + 1
    BY <2>1, AppendProperties DEF Types
  <2>3. CASE pc' = "reply"
    BY <2>3 DEF Filling, CursorAtFiller, Active
  <2>4. CASE /\ ~(Len(found) = 0 /\ Len(backups.switch) = 0)
             /\ n_to_find' = Len(found) + 1 + IntMin(Len(found) + Len(backups.switch), n_to_find)
             /\ walk' = "mem" /\ pc' = "leg"
    <3>1. n_to_find # 0
      <4>1. n_to_find = 0 => found = << >> /\ backups["switch"] = << >>
        BY <2>1 DEF Filling
      <4>2. n_to_find = 0 => Len(found) = 0 /\ Len(backups["switch"]) = 0
        BY <4>1
      <4> QED
        BY <2>4, <4>2
    <3>2. ~Full'
      <4>1. PICK a \in Nat, b \in Nat : a = Len(found) /\ b = Len(backups.switch)
        BY <1>0
      <4>2. PICK k \in Int : k = IntMin(a + b, n_to_find) /\ k # 0
        BY <1>0, <2>4, <3>1, <4>1 DEF IntMin
      <4>3. Len(found') = a + 1 /\ n_to_find' = a + 1 + k
        BY <2>2, <2>4, <4>1, <4>2
      <4> QED
        BY <4>2, <4>3 DEF Full
    <3>3. mode' = "SWITCH_MODE"
      BY <1>10, <2>1, Modes DEF SwitchTurn, Place
    <3> QED
      BY <2>4, <3>2, <3>3 DEF Filling, CursorAtFiller
  <2> QED
    BY <1>10, <2>3, <2>4 DEF SwitchTurn, Walking
<1>11. CASE SwitchEnd
  BY <1>11 DEF SwitchEnd, Filling, CursorAtFiller, Active
<1>12. CASE Reply
  BY <1>12 DEF Reply, Filling, CursorAtFiller, Active
<1>13. CASE UNCHANGED vars
  <2>1. UNCHANGED <<LegProc, Active, Full>>
    BY <1>13 DEF vars, request, lists, LegProc, Active, Full, Origin
  <2> QED
    BY <1>13, <2>1 DEF vars, Filling, CursorAtFiller, cursors, request, lists
<1> QED
  BY <1>1, <1>2, <1>3, <1>4, <1>5, <1>6, <1>7, <1>8, <1>9, <1>10, <1>11, <1>12, <1>13, CallbackCases
  DEF Next, Environment, Handler, Walks

(* A walk that filled the list leaves last_pid at the process that filled it. *)
THEOREM CursorStaysWithFiller == Spec => []CursorAtFiller
<1>1. Init => Filling /\ CursorAtFiller
  BY DEF Init, Filling, CursorAtFiller, Active
<1>2. WInv /\ Filling /\ CursorAtFiller /\ [Next]_vars => Filling' /\ CursorAtFiller'
  BY FillingStep DEF WInv
<1>3. Spec => [](Filling /\ CursorAtFiller)
  BY <1>1, <1>2, WInvariant, PTL DEF Spec
<1> QED
  BY <1>3, PTL

-----------------------------------------------------------------------------
(* The lists.                                                              *)

In(tier) == {p \in Page : node[p] = tier}

(* Elements j to k of s are in T.                                          *)
AllIn(s, j, k, T) == \A i \in j .. k : s[i] \in T

(* A switch looking for DRAM pages: NVRAM pages, the separator, DRAM pages. *)
Turned ==
    \E s \in 1 .. Len(found) :
        /\ found[s] = Separator
        /\ AllIn(found, 1, s - 1, In("NVRAM")) /\ AllIn(found, s + 1, Len(found), In("DRAM"))

(* What is on the lists is in the tier it was looked for in.               *)
Sorted ==
    /\ pc # "idle" /\ mode # "SWITCH_MODE" => found \in Seq(In(TierOf(walk)))
    /\ Active \/ pc = "end" =>
        /\ walk # "switch" => backups["mem"] \in Seq(In(TierOf(walk)))
        /\ mode = "SWITCH_MODE" => backups["switch"] \in Seq(In("NVRAM"))
        /\ walk = "switch" => found \in Seq(In("NVRAM"))
        /\ mode = "SWITCH_MODE" /\ walk = "mem" => Turned
    /\ pc = "reply" /\ mode = "SWITCH_MODE" => Matched(found, In("NVRAM"), In("DRAM"))

LEMMA Longer ==
    ASSUME NEW S, NEW s \in Seq(S), NEW p \in S, NEW T
    PROVE  LET t == Append(s, p) IN
           /\ Len(t) = Len(s) + 1 /\ \A k \in 1 .. Len(s) : t[k] = s[k]
           /\ \A j \in Nat \ {0} : AllIn(s, j, Len(s), T) /\ p \in T => AllIn(t, j, Len(t), T)
           /\ \A k \in 0 .. Len(s) : AllIn(s, 1, k, T) => AllIn(t, 1, k, T)
<1>1. PICK t : t = Append(s, p)
  OBVIOUS
<1>2. /\ Len(t) = Len(s) + 1 /\ Len(s) \in Nat
      /\ t[Len(s) + 1] = p /\ \A k \in 1 .. Len(s) : t[k] = s[k]
  BY <1>1, AppendProperties
<1>3. ASSUME NEW j \in Nat \ {0}, AllIn(s, j, Len(s), T), p \in T, NEW i \in j .. Len(t)
      PROVE  t[i] \in T
  <2>1. CASE i = Len(s) + 1
    BY <1>2, <1>3, <2>1
  <2>2. CASE i # Len(s) + 1
    <3>1. i \in 1 .. Len(s) /\ i \in j .. Len(s)
      BY <1>2, <1>3, <2>2
    <3> QED
      BY <1>2, <1>3, <3>1 DEF AllIn
  <2> QED
    BY <2>1, <2>2
<1>4. ASSUME NEW k \in 0 .. Len(s), AllIn(s, 1, k, T) PROVE AllIn(t, 1, k, T)
  <2> SUFFICES ASSUME NEW i \in 1 .. k PROVE t[i] \in T
    BY DEF AllIn
  <2>1. i \in 1 .. Len(s)
    BY <1>2
  <2> QED
    BY <1>2, <1>4, <2>1 DEF AllIn
<1> QED
  BY <1>1, <1>2, <1>3, <1>4 DEF AllIn

(* The list of a switch that has all its pages, at its separator.          *)
LEMMA Parts ==
    ASSUME Types, Sorted, pc = "end", mode = "SWITCH_MODE", walk = "mem"
    PROVE  LET s == CHOOSE k \in 1 .. Len(found) : found[k] = Separator IN
           /\ s \in 1 .. Len(found)
           /\ SubSeq(found, 1, s - 1) \in Seq(In("NVRAM"))
           /\ SubSeq(found, s + 1, Len(found)) \in Seq(In("DRAM"))
           /\ backups["switch"] \in Seq(In("NVRAM")) /\ backups["mem"] \in Seq(In("DRAM"))
<1> DEFINE s == CHOOSE k \in 1 .. Len(found) : found[k] = Separator
           NV == In("NVRAM")
           DR == In("DRAM")
<1>0. found \in Seq(Page \cup {Separator}) /\ Len(found) \in Nat
  BY DEF Types
<1>1. PICK t \in 1 .. Len(found) :
         found[t] = Separator /\ AllIn(found, 1, t - 1, NV) /\ AllIn(found, t + 1, Len(found), DR)
  BY DEF Sorted, Turned
<1>2. s \in 1 .. Len(found) /\ found[s] = Separator
  BY <1>1, Zenon
<1> HIDE DEF s
<1>3. s = t
  <2>1. \A p \in NV \cup DR : p # Separator
    BY SeparatorIsNoPage DEF In
  <2>2. CASE s < t
    <3>1. s \in 1 .. t - 1
      BY <1>0, <1>2, <2>2
    <3> QED
      BY <1>1, <1>2, <2>1, <3>1 DEF AllIn
  <2>3. CASE t < s
    <3>1. s \in t + 1 .. Len(found)
      BY <1>0, <1>2, <2>3
    <3> QED
      BY <1>1, <1>2, <2>1, <3>1 DEF AllIn
  <2> QED
    BY <1>0, <1>2, <2>2, <2>3
<1>4. PICK j \in Int, k \in Int, l \in Int : j = s - 1 /\ k = s + 1 /\ l = Len(found)
  BY <1>0, <1>2
<1>5. backups["switch"] \in Seq(NV) /\ backups["mem"] \in Seq(DR)
  BY DEF Sorted, TierOf
<1> HIDE DEF NV, DR
<1>6. SubSeq(found, 1, j) \in Seq(NV) /\ SubSeq(found, k, l) \in Seq(DR)
  <2>1. (\A i \in 1 .. j : found[i] \in NV) /\ (\A i \in k .. l : found[i] \in DR)
    BY <1>1, <1>3, <1>4 DEF AllIn
  <2> QED
    BY <2>1, SubSeqProperties
<1>7. SubSeq(found, 1, s - 1) \in Seq(NV) /\ SubSeq(found, s + 1, Len(found)) \in Seq(DR)
  BY <1>4, <1>6, Zenon
<1> QED
  BY <1>2, <1>5, <1>7, Zenon DEF s, NV, DR

LEMMA SortedStep ==
    ASSUME Types, Place, Sorted, [Next]_vars
    PROVE  Sorted'
<1> DEFINE NV == In("NVRAM")
           DR == In("DRAM")
<1>0. /\ found \in Seq(Page \cup {Separator}) /\ Len(found) \in Nat
      /\ Here \in Page /\ Here \in Page \cup {Separator}
      /\ backups["mem"] \in Seq(Page) /\ backups["switch"] \in Seq(Page)
      /\ DOMAIN backups = {"mem", "switch"}
  BY Legs, Now DEF Types, Here, Page
<1>a. ASSUME UNCHANGED <<node, mode, walk, found, backups>>, pc' = pc \/ (Active /\ Active')
      PROVE  Sorted'
  <2>1. In("NVRAM")' = NV /\ In("DRAM")' = DR /\ In(TierOf(walk))' = In(TierOf(walk)) /\ Turned' = Turned
    BY <1>a DEF In, Turned
  <2> QED
    BY <1>a, <2>1 DEF Sorted, Active
<1>1. ASSUME NEW q \in Proc, Exit(q) PROVE Sorted'
  BY <1>1, <1>a DEF Exit, request, lists
<1>2. ASSUME NEW p \in Page, Move(p) PROVE Sorted'
  BY <1>2 DEF Move, Sorted, Active
<1>3. ASSUME NEW m \in Mode, NEW n \in Count, Receive(m, n) PROVE Sorted'
  <2>1. /\ pc' = "leg" /\ mode' = m /\ walk' = CallbackOf[m]
        /\ found' = << >> /\ backups'["mem"] = << >> /\ backups'["switch"] = << >>
    BY <1>3 DEF Receive, Walking, Place
  <2>2. ~(mode' = "SWITCH_MODE" /\ walk' = "mem")
    BY <2>1 DEF CallbackOf
  <2>3. \A T : << >> \in Seq(T)
    OBVIOUS
  <2> QED
    BY <2>1, <2>2, <2>3 DEF Sorted
<1>4. CASE BeginLeg
  <2>1. /\ pc = "leg" /\ UNCHANGED <<node, walk, mode, found, backups>>
        /\ pc' \in {"pte", "over", "oops"}
    BY <1>4 DEF BeginLeg, request, lists
  <2>2. CASE pc' = "oops"
    <3>1. In(TierOf(walk))' = In(TierOf(walk))
      BY <2>1 DEF In
    <3> QED
      BY <2>1, <2>2, <3>1 DEF Sorted, Active
  <2> QED
    BY <1>a, <2>1, <2>2 DEF Active
<1>5. CASE StopFull
  BY <1>5, <1>a DEF StopFull, request, lists, Active
<1>6. CASE Collects
  <2>1. /\ pc = "pte" /\ NextPte /\ UNCHANGED <<node, mode, walk, start, leg>>
        /\ walk \in {"mem", "force", "write", "intensive", "switch"}
        /\ \/ Passes
           \/ node[Here] = TierOf(walk) /\ (Taken \/ Deferred \/ Enough)
    BY <1>6, Collected
  <2>2. pc' \in {"pte", "over"}
    BY <2>1, NextInLeg
  <2>3. CASE UNCHANGED <<found, backups>>
    BY <1>a, <2>1, <2>2, <2>3 DEF Active
  <2>4. /\ In("NVRAM")' = NV /\ In("DRAM")' = DR /\ In(TierOf(walk))' = In(TierOf(walk))
        /\ node[Here] = TierOf(walk) => Here \in In(TierOf(walk))
        /\ walk = "switch" => TierOf(walk) = "NVRAM" /\ mode = "SWITCH_MODE"
        /\ walk = "mem" => TierOf(walk) = "DRAM"
        /\ mode = "SWITCH_MODE" => walk \in {"mem", "switch"}
    BY <1>0, <2>1, Modes DEF In, TierOf, Place
  <2>5. CASE node[Here] = TierOf(walk) /\ Taken
    <3>1. backups' = backups /\ found' = Append(found, Here)
      BY <2>5 DEF Taken
    <3>2. mode # "SWITCH_MODE" => found' \in Seq(In(TierOf(walk)))
      BY <2>1, <2>4, <2>5, <3>1, AppendProperties DEF Sorted
    <3>3. walk = "switch" => found' \in Seq(NV)
      BY <2>1, <2>4, <2>5, <3>1, AppendProperties DEF Sorted, Active
    <3>4. ASSUME mode = "SWITCH_MODE", walk = "mem" PROVE Turned'
      <4>1. PICK s \in 1 .. Len(found) :
               found[s] = Separator /\ AllIn(found, 1, s - 1, NV) /\ AllIn(found, s + 1, Len(found), DR)
        BY <2>1, <3>4 DEF Sorted, Active, Turned
      <4>2. s - 1 \in 0 .. Len(found) /\ s + 1 \in Nat \ {0}
        BY <1>0
      <4>3. /\ Len(found') = Len(found) + 1 /\ \A k \in 1 .. Len(found) : found'[k] = found[k]
            /\ AllIn(found', 1, s - 1, NV)
        <5> HIDE DEF NV
        <5> QED
          <6>1. found \in Seq(Page \cup {Separator}) /\ Here \in Page \cup {Separator}
            BY <1>0
          <6> HIDE DEF Here
          <6>2. /\ Len(Append(found, Here)) = Len(found) + 1
                /\ \A k \in 1 .. Len(found) : Append(found, Here)[k] = found[k]
                /\ \A k \in 0 .. Len(found) : AllIn(found, 1, k, NV) => AllIn(Append(found, Here), 1, k, NV)
            BY <6>1, Longer, Zenon
          <6> QED
            BY <3>1, <4>1, <4>2, <6>2, Zenon
      <4>4. AllIn(found', s + 1, Len(found'), DR)
        <5>1. Here \in DR
          BY <2>4, <2>5, <3>4
        <5> HIDE DEF DR
        <5> QED
          BY <1>0, <3>1, <4>1, <4>2, <5>1, Longer
      <4>5. s \in 1 .. Len(found') /\ found'[s] = Separator
        BY <1>0, <4>1, <4>3
      <4> QED
        BY <2>4, <4>3, <4>4, <4>5 DEF Turned
    <3> QED
      BY <2>1, <2>2, <2>4, <3>1, <3>2, <3>3, <3>4 DEF Sorted, Active
  <2>6. CASE node[Here] = TierOf(walk) /\ Deferred
    <3>1. found' = found /\ backups' = [backups EXCEPT ![ListOf(walk)] = Append(@, Here)]
      BY <2>6 DEF Deferred
    <3>2. Turned' = Turned
      BY <2>4, <3>1 DEF Turned
    <3>3. walk # "switch" => /\ backups'["mem"] = Append(backups["mem"], Here)
                             /\ backups'["switch"] = backups["switch"]
      BY <1>0, <3>1 DEF ListOf
    <3>4. walk = "switch" => /\ backups'["switch"] = Append(backups["switch"], Here)
                             /\ backups'["mem"] = backups["mem"]
      BY <1>0, <3>1 DEF ListOf
    <3>5. ASSUME walk # "switch" PROVE backups'["mem"] \in Seq(In(TierOf(walk)))
      <4>1. backups["mem"] \in Seq(In(TierOf(walk))) /\ Here \in In(TierOf(walk))
        BY <2>1, <2>4, <2>6, <3>5 DEF Sorted, Active
      <4>2. Append(backups["mem"], Here) \in Seq(In(TierOf(walk)))
        BY <4>1, AppendProperties
      <4> QED
        BY <3>3, <3>5, <4>2
    <3>6. mode = "SWITCH_MODE" => backups'["switch"] \in Seq(NV)
      <4>1. CASE walk = "switch"
        <5>1. mode = "SWITCH_MODE" => backups["switch"] \in Seq(NV)
          BY <2>1 DEF Sorted, Active
        <5>2. Here \in NV
          BY <2>4, <2>6, <4>1
        <5> HIDE DEF NV
        <5>3. mode = "SWITCH_MODE" => Append(backups["switch"], Here) \in Seq(NV)
          BY <5>1, <5>2, AppendProperties
        <5> QED
          BY <3>4, <4>1, <5>3
      <4>2. CASE walk # "switch"
        BY <2>1, <3>3, <4>2 DEF Sorted, Active
      <4> QED
        BY <4>1, <4>2
    <3> QED
      BY <2>1, <2>2, <2>4, <3>1, <3>2, <3>5, <3>6 DEF Sorted, Active
  <2> QED
    BY <2>1, <2>3, <2>5, <2>6 DEF Passes, Enough
<1>7. CASE pte_callback_nvram_clear
  <2>1. pc' \in {"pte", "over"}
    BY <1>7, NextInLeg DEF pte_callback_nvram_clear, request
  <2> QED
    BY <1>7, <1>a, <2>1 DEF pte_callback_nvram_clear, request, lists, Active
<1>8. CASE EndLeg
  <2>1. /\ pc = "over" /\ UNCHANGED <<node, walk, mode, found, backups>>
        /\ \/ pc' = "leg" \/ (pc' = "end" /\ walk # "clear") \/ (pc' = "reply" /\ walk = "clear")
    BY <1>8 DEF EndLeg, request, lists
  <2>2. In("NVRAM")' = NV /\ In("DRAM")' = DR /\ In(TierOf(walk))' = In(TierOf(walk)) /\ Turned' = Turned
    BY <2>1 DEF In, Turned
  <2>3. walk = "clear" => mode # "SWITCH_MODE"
    BY <2>1, Modes DEF Place
  <2> QED
    BY <2>1, <2>2, <2>3 DEF Sorted, Active
<1>9. CASE MemEnd
  <2> DEFINE short == n_to_find - Len(found)
             k == IntMin(short, Len(backups.mem))
             extra == SubSeq(backups.mem, 1, k)
             T == In(TierOf(walk))
  <2>1. /\ pc = "end" /\ pc' = "reply" /\ mode # "SWITCH_MODE" /\ mode' = mode /\ walk' = walk /\ node' = node
        /\ found' = IF short > 0 THEN found \o extra ELSE found
    BY <1>9 DEF MemEnd
  <2>2. found \in Seq(T) /\ backups.mem \in Seq(T)
    BY <2>1, Modes DEF Sorted, Place
  <2>3. short > 0 => k \in Nat /\ k <= Len(backups.mem)
    <3>1. short \in Int /\ Len(backups.mem) \in Nat
      BY <1>0 DEF Types
    <3> HIDE DEF short
    <3> QED
      BY <3>1 DEF IntMin
  <2>4. T' = T
    BY <2>1 DEF In
  <2> HIDE DEF short, T, k
  <2>5. short > 0 => extra \in Seq(T)
    BY <2>2, <2>3, Prefix
  <2> HIDE DEF extra
  <2>6. found' \in Seq(T)
    BY <2>1, <2>2, <2>5, ConcatProperties
  <2> QED
    BY <2>1, <2>4, <2>6 DEF Sorted, Active, T
<1>10. CASE SwitchTurn
  <2>1. /\ pc = "end" /\ walk = "switch" /\ mode = "SWITCH_MODE"
        /\ mode' = mode /\ node' = node /\ found' = Append(found, Separator)
    BY <1>10, Modes DEF SwitchTurn, Place
  <2>2. found \in Seq(NV) /\ backups["switch"] \in Seq(NV)
    BY <2>1 DEF Sorted
  <2>3. In("NVRAM")' = NV /\ In("DRAM")' = DR
    BY <2>1 DEF In
  <2>4. CASE pc' = "reply" /\ Len(found) = 0
    <3>1. found' = <<Separator>>
      <4>1. found = << >>
        BY <1>0, <2>4
      <4> QED
        BY <2>1, <4>1
    <3>2. << >> \in Seq(NV) /\ << >> \in Seq(DR) /\ << >> \o <<Separator>> \o << >> = <<Separator>>
      OBVIOUS
    <3>3. Matched(found', NV, DR)
      BY <3>1, <3>2, Zenon DEF Matched
    <3> QED
      BY <2>1, <2>3, <2>4, <3>3 DEF Sorted, Active
  <2>5. CASE pc' = "leg" /\ walk' = "mem" /\ backups' = [backups EXCEPT !.mem = << >>]
    <3>1. backups'["mem"] = << >> /\ backups'["switch"] = backups["switch"]
      BY <1>0, <2>5
    <3>2. << >> \in Seq(In("DRAM"))' /\ TierOf("mem") = "DRAM"
      BY DEF TierOf
    <3>3. /\ Len(found') = Len(found) + 1 /\ \A k \in 1 .. Len(found) : found'[k] = found[k]
          /\ found'[Len(found) + 1] = Separator
      BY <1>0, <2>1, AppendProperties
    <3>4. Turned'
      <4>1. PICK s \in 1 .. Len(found') : s = Len(found) + 1
        BY <1>0, <3>3
      <4>2. s - 1 = Len(found) /\ s + 1 .. Len(found') = {}
        BY <1>0, <3>3, <4>1
      <4>3. AllIn(found', 1, s - 1, NV)
        BY <2>2, <3>3, <4>2 DEF AllIn
      <4>4. AllIn(found', s + 1, Len(found'), DR)
        BY <4>2 DEF AllIn
      <4> QED
        BY <2>3, <3>3, <4>1, <4>3, <4>4 DEF Turned
    <3> QED
      BY <2>1, <2>2, <2>3, <2>5, <3>1, <3>2, <3>4 DEF Sorted, Active
  <2> QED
    BY <1>10, <2>4, <2>5 DEF SwitchTurn, Walking
<1>11. CASE SwitchEnd
  <2> DEFINE s == CHOOSE k \in 1 .. Len(found) : found[k] = Separator
             n == SubSeq(found, 1, s - 1)
             d == SubSeq(found, s + 1, Len(found))
  <2>1. /\ pc = "end" /\ mode = "SWITCH_MODE" /\ walk = "mem"
        /\ found' = Pairs(n, d, backups.switch, backups.mem) /\ pc' = "reply"
        /\ UNCHANGED <<mode, walk, node>>
    BY <1>11 DEF SwitchEnd
  <2>2. /\ n \in Seq(NV) /\ d \in Seq(DR)
        /\ backups["switch"] \in Seq(NV) /\ backups["mem"] \in Seq(DR)
    BY <2>1, Parts, Zenon
  <2> HIDE DEF s, n, d, NV, DR
  <2>3. Matched(found', NV, DR)
    BY <2>1, <2>2, Paired
  <2>4. In("NVRAM")' = NV /\ In("DRAM")' = DR
    BY <2>1 DEF In, NV, DR
  <2> QED
    BY <2>1, <2>3, <2>4 DEF Sorted, Active
<1>12. CASE Reply
  BY <1>12 DEF Reply, Sorted, Active
<1>13. CASE UNCHANGED vars
  BY <1>13, <1>a DEF vars, request, lists
<1> QED
  BY <1>1, <1>2, <1>3, <1>4, <1>5, <1>6, <1>7, <1>8, <1>9, <1>10, <1>11, <1>12, <1>13, CallbackCases
  DEF Next, Environment, Handler, Walks

(* A page that was of use is on a list, or the lists make up a whole reply. *)
Listed(p, s) == \E k \in 1 .. Len(s) : s[k] = p

Whole == Len(found) + Len(backups["mem"]) >= n_to_find

Kept ==
    (Active \/ pc = "end") /\ mode \notin {"SWITCH_MODE", "NVRAM_CLEAR"} =>
        Whole \/ \A p \in seen : Listed(p, found) \/ Listed(p, backups["mem"])

LEMMA KeptStep ==
    ASSUME Types, Place, Kept, ShortMeansAll, [Next]_vars
    PROVE  Kept' /\ ShortMeansAll'
<1>0. /\ found \in Seq(Page \cup {Separator}) /\ Len(found) \in Nat
      /\ Here \in Page /\ Here \in Page \cup {Separator} /\ n_to_find \in Int
      /\ backups["mem"] \in Seq(Page) /\ Len(backups["mem"]) \in Nat
      /\ DOMAIN backups = {"mem", "switch"}
  BY Legs, Now DEF Types, Here, Page
<1>a. ASSUME UNCHANGED <<mode, found, backups, n_to_find, seen>>,
             (Active' \/ pc' = "end") => (Active \/ pc = "end"), pc' = pc \/ pc' # "reply"
      PROVE  Kept' /\ ShortMeansAll'
  <2>1. Whole' = Whole
    BY <1>a DEF Whole
  <2>2. Kept'
    BY <1>a, <2>1 DEF Kept, Listed
  <2>3. ShortMeansAll'
    BY <1>a DEF ShortMeansAll
  <2> QED
    BY <2>2, <2>3
<1>1. ASSUME NEW q \in Proc, Exit(q) PROVE Kept' /\ ShortMeansAll'
  BY <1>1, <1>a DEF Exit, request, lists, history, Active
<1>2. ASSUME NEW p \in Page, Move(p) PROVE Kept' /\ ShortMeansAll'
  BY <1>2 DEF Move, Kept, ShortMeansAll, Active
<1>3. ASSUME NEW m \in Mode, NEW n \in Count, Receive(m, n) PROVE Kept' /\ ShortMeansAll'
  <2>1. pc' = "leg" /\ seen' = {}
    BY <1>3 DEF Receive, Walking, Place
  <2> QED
    BY <2>1 DEF Kept, ShortMeansAll
<1>4. CASE BeginLeg
  BY <1>4, <1>a DEF BeginLeg, request, lists, history, Active
<1>5. CASE StopFull
  BY <1>5, <1>a DEF StopFull, request, lists, history, Active
<1>6. CASE Collects
  <2>1. /\ pc = "pte" /\ NextPte /\ UNCHANGED <<mode, walk, start, leg, n_to_find>>
        /\ walk \in {"mem", "force", "write", "intensive", "switch"}
        /\ \/ Passes
           \/ seen' = seen \cup {Here} /\ (Taken \/ Deferred \/ Enough)
    BY <1>6, Collected
  <2>2. pc' \in {"pte", "over"}
    BY <2>1, NextInLeg
  <2>3. ShortMeansAll'
    BY <2>2 DEF ShortMeansAll
  <2>4. CASE mode \in {"SWITCH_MODE", "NVRAM_CLEAR"}
    BY <2>1, <2>3, <2>4 DEF Kept
  <2>5. CASE mode \notin {"SWITCH_MODE", "NVRAM_CLEAR"}
    <3>1. ListOf(walk) = "mem"
      BY <2>1, <2>5, Modes DEF ListOf, Place
    <3>2. Whole \/ \A p \in seen : Listed(p, found) \/ Listed(p, backups["mem"])
      BY <2>1, <2>5 DEF Kept, Active
    <3>3. CASE Passes
      <4>1. Whole' = Whole
        BY <2>1, <3>3 DEF Passes, Whole
      <4> QED
        BY <2>1, <2>3, <3>2, <3>3, <4>1 DEF Passes, Kept, Listed
    <3>4. CASE seen' = seen \cup {Here} /\ Taken
      <4>1. backups' = backups /\ Len(found') = Len(found) + 1
        BY <3>4, Filled DEF Taken
      <4>2. Whole => Whole'
        BY <1>0, <2>1, <4>1 DEF Whole
      <4>3. Listed(Here, found') /\ \A p : Listed(p, found) => Listed(p, found')
        <5>1. /\ Len(found') = Len(found) + 1 /\ found'[Len(found')] = Here
              /\ \A k \in 1 .. Len(found) : found'[k] = found[k]
          BY <3>4, Filled DEF Taken
        <5>2. Len(found') \in 1 .. Len(found') /\ \A k \in 1 .. Len(found) : k \in 1 .. Len(found')
          BY <1>0, <5>1
        <5> QED
          BY <5>1, <5>2 DEF Listed
      <4> QED
        BY <2>3, <3>2, <3>4, <4>1, <4>2, <4>3 DEF Kept
    <3>5. CASE seen' = seen \cup {Here} /\ Deferred
      <4>1. found' = found /\ backups'["mem"] = Append(backups["mem"], Here)
        BY <1>0, <3>1, <3>5 DEF Deferred
      <4>2. /\ Len(backups'["mem"]) = Len(backups["mem"]) + 1
            /\ backups'["mem"][Len(backups["mem"]) + 1] = Here
            /\ \A k \in 1 .. Len(backups["mem"]) : backups'["mem"][k] = backups["mem"][k]
        BY <1>0, <4>1, AppendProperties
      <4>3. Whole => Whole'
        BY <1>0, <2>1, <4>1, <4>2 DEF Whole
      <4>4. /\ Listed(Here, backups'["mem"])
            /\ \A p : Listed(p, backups["mem"]) => Listed(p, backups'["mem"])
        <5>1. /\ Len(backups["mem"]) + 1 \in 1 .. Len(backups'["mem"])
              /\ \A k \in 1 .. Len(backups["mem"]) : k \in 1 .. Len(backups'["mem"])
          BY <1>0, <4>2
        <5> QED
          BY <4>2, <5>1 DEF Listed
      <4> QED
        BY <2>3, <3>2, <3>5, <4>1, <4>3, <4>4 DEF Kept
    <3>6. CASE seen' = seen \cup {Here} /\ Enough
      <4>1. Whole'
        BY <2>1, <3>1, <3>6 DEF Enough, Whole
      <4> QED
        BY <2>3, <4>1 DEF Kept
    <3> QED
      BY <2>1, <3>3, <3>4, <3>5, <3>6
  <2> QED
    BY <2>4, <2>5
<1>7. CASE pte_callback_nvram_clear
  <2>1. pc' \in {"pte", "over"}
    BY <1>7, NextInLeg DEF pte_callback_nvram_clear, request
  <2> QED
    BY <1>7, <1>a, <2>1 DEF pte_callback_nvram_clear, request, lists, Active
<1>8. CASE EndLeg
  <2>1. /\ pc = "over" /\ UNCHANGED <<mode, walk, found, backups, n_to_find, seen>>
        /\ \/ pc' \in {"leg", "end"}
           \/ pc' = "reply" /\ walk = "clear"
    BY <1>8 DEF EndLeg, request, lists, history
  <2>2. CASE pc' = "reply" /\ walk = "clear"
    <3>1. mode' = "NVRAM_CLEAR"
      BY <2>1, <2>2, Modes DEF Place
    <3> QED
      BY <3>1 DEF Kept, ShortMeansAll
  <2> QED
    BY <1>a, <2>1, <2>2 DEF Active
<1>9. CASE MemEnd
  <2> DEFINE short == n_to_find - Len(found)
             k == IntMin(short, Len(backups.mem))
             extra == SubSeq(backups.mem, 1, k)
  <2>1. /\ pc = "end" /\ pc' = "reply" /\ mode # "SWITCH_MODE" /\ walk' = walk
        /\ found' = IF short > 0 THEN found \o extra ELSE found
        /\ UNCHANGED <<mode, n_to_find, seen>>
    BY <1>9 DEF MemEnd, history
  <2>2. Kept'
    BY <2>1 DEF Kept, Active
  <2>3. ASSUME mode # "NVRAM_CLEAR", Len(found') < n_to_find, NEW p \in seen
        PROVE  Listed(p, found')
    <3>1. short \in Int
      BY <1>0
    <3>2. short > 0
      BY <1>0, <2>1, <2>3
    <3>3. k \in Nat /\ k <= Len(backups.mem)
      BY <1>0, <3>1, <3>2 DEF IntMin
    <3>4. extra \in Seq(Page) /\ Len(extra) = k
      BY <1>0, <3>3, Prefix
    <3>5. extra \in Seq(Page \cup {Separator})
      BY <3>4
    <3>6. IsJoin(found \o extra, found, extra)
      BY <1>0, <3>5, Joined
    <3>7. Len(found') = Len(found) + k
      BY <2>1, <3>2, <3>4, <3>6 DEF IsJoin
    <3>8. k = Len(backups.mem) /\ ~Whole
      BY <1>0, <2>3, <3>1, <3>7 DEF IntMin, Whole
    <3>9. extra = backups.mem
      BY <1>0, <3>8, SubSeqFull
    <3>10. Listed(p, found) \/ Listed(p, backups["mem"])
      BY <2>1, <2>3, <3>8 DEF Kept
    <3>11. CASE Listed(p, found)
      <4>1. PICK j \in 1 .. Len(found) : found[j] = p
        BY <3>11 DEF Listed
      <4>2. j \in 1 .. Len(found')
        BY <1>0, <3>3, <3>7
      <4>3. found'[j] = p
        BY <2>1, <3>2, <3>6, <4>1 DEF IsJoin
      <4> QED
        BY <4>2, <4>3 DEF Listed
    <3>12. CASE Listed(p, backups["mem"])
      <4>1. PICK j \in 1 .. Len(backups["mem"]) : backups["mem"][j] = p
        BY <3>12 DEF Listed
      <4>2. Len(found) + j \in 1 .. Len(found')
        BY <1>0, <3>7, <3>8
      <4>3. found'[Len(found) + j] = p
        <5> HIDE DEF extra
        <5> QED
          BY <2>1, <3>2, <3>6, <3>9, <4>1 DEF IsJoin
      <4> QED
        BY <4>2, <4>3 DEF Listed
    <3> QED
      BY <3>10, <3>11, <3>12
  <2>4. ShortMeansAll'
    BY <2>1, <2>3 DEF ShortMeansAll, Listed
  <2> QED
    BY <2>2, <2>4
<1>10. CASE SwitchTurn
  <2>1. mode' = "SWITCH_MODE"
    BY <1>10, Modes DEF SwitchTurn, Place
  <2> QED
    BY <2>1 DEF Kept, ShortMeansAll
<1>11. CASE SwitchEnd
  BY <1>11 DEF SwitchEnd, Kept, ShortMeansAll
<1>12. CASE Reply
  BY <1>12 DEF Reply, Kept, ShortMeansAll, Active
<1>13. CASE UNCHANGED vars
  BY <1>13, <1>a DEF vars, request, lists, history, Active
<1> QED
  BY <1>1, <1>2, <1>3, <1>4, <1>5, <1>6, <1>7, <1>8, <1>9, <1>10, <1>11, <1>12, <1>13, CallbackCases
  DEF Next, Environment, Handler, Walks

(* No more pages than were asked for, when what is asked for is a number of
   pages.                                                                  *)
Bounded ==
    /\ (Active \/ pc = "end") /\ walk # "clear" => n_to_find \in Nat /\ Len(found) <= n_to_find
    /\ pc = "reply" /\ mode \notin {"SWITCH_MODE", "NVRAM_CLEAR"} => Len(found) <= n_to_find

LEMMA BoundedStep ==
    ASSUME Count \subseteq Nat, Types, Place, Bounded, [Next]_vars
    PROVE  Bounded'
<1>0. /\ found \in Seq(Page \cup {Separator}) /\ Len(found) \in Nat /\ n_to_find \in Int
      /\ backups["mem"] \in Seq(Page) /\ Len(backups["mem"]) \in Nat /\ Len(backups["switch"]) \in Nat
  BY DEF Types
<1>a. ASSUME UNCHANGED <<mode, walk, found, n_to_find>>, pc' = pc \/ (Active /\ Active')
      PROVE  Bounded'
  BY <1>a DEF Bounded, Active
<1>1. ASSUME NEW q \in Proc, Exit(q) PROVE Bounded'
  BY <1>1, <1>a DEF Exit, request, lists
<1>2. ASSUME NEW p \in Page, Move(p) PROVE Bounded'
  BY <1>2, <1>a DEF Move, request, lists
<1>3. ASSUME NEW m \in Mode, NEW n \in Count, Receive(m, n) PROVE Bounded'
  <2>1. pc' = "leg" /\ found' = << >>
    BY <1>3 DEF Receive, Walking, Place
  <2>2. n_to_find' \in Nat
    <3>1. n \in Nat /\ MAX_N_SWITCH \in Nat /\ MAX_N_FIND \in Nat
      BY <1>0, SizeAssumption
    <3>2. IntMin(MAX_N_SWITCH, n) \in Nat /\ IntMin(MAX_N_FIND, n) \in Nat
      BY <3>1 DEF IntMin
    <3>3. n_to_find' \in {IntMin(MAX_N_SWITCH, n), 0, IntMin(MAX_N_FIND, n)}
      BY <1>3, Zenon DEF Receive
    <3> QED
      BY <3>2, <3>3
  <2> QED
    BY <2>1, <2>2 DEF Bounded
<1>4. CASE BeginLeg
  BY <1>4 DEF BeginLeg, request, lists, Bounded, Active
<1>5. CASE StopFull
  BY <1>5, <1>a DEF StopFull, request, lists, Active
<1>6. CASE Collects
  <2>1. /\ pc = "pte" /\ ~Full /\ NextPte /\ UNCHANGED <<mode, walk, start, leg, n_to_find>>
        /\ walk \in {"mem", "force", "write", "intensive", "switch"}
        /\ found' = found \/ found' = Append(found, Here)
    BY <1>6, Collected DEF Passes, Taken, Deferred, Enough
  <2>2. pc' \in {"pte", "over"}
    BY <2>1, NextInLeg
  <2>3. n_to_find \in Nat /\ Len(found) < n_to_find
    BY <1>0, <2>1 DEF Bounded, Active, Full
  <2>4. Len(found') <= n_to_find
    BY <1>0, <2>1, <2>3, Filled
  <2> QED
    BY <2>1, <2>2, <2>3, <2>4 DEF Bounded
<1>7. CASE pte_callback_nvram_clear
  <2>1. pc' \in {"pte", "over"}
    BY <1>7, NextInLeg DEF pte_callback_nvram_clear, request
  <2> QED
    BY <1>7, <1>a, <2>1 DEF pte_callback_nvram_clear, request, lists, Active
<1>8. CASE EndLeg
  <2>1. /\ pc = "over" /\ UNCHANGED <<mode, walk, found, n_to_find>>
        /\ pc' \in {"leg", "end"} \/ (pc' = "reply" /\ walk = "clear")
    BY <1>8 DEF EndLeg, request, lists
  <2>2. walk = "clear" => mode = "NVRAM_CLEAR"
    BY <2>1, Modes DEF Place
  <2> QED
    BY <2>1, <2>2 DEF Bounded, Active
<1>9. CASE MemEnd
  <2> DEFINE short == n_to_find - Len(found)
             k == IntMin(short, Len(backups.mem))
             extra == SubSeq(backups.mem, 1, k)
  <2>1. /\ pc = "end" /\ pc' = "reply" /\ mode # "SWITCH_MODE" /\ n_to_find' = n_to_find
        /\ found' = IF short > 0 THEN found \o extra ELSE found
    BY <1>9 DEF MemEnd
  <2>2. Len(found) <= n_to_find
    BY <2>1 DEF Bounded, Place
  <2>3. CASE short > 0
    <3>1. k \in Nat /\ k <= Len(backups.mem) /\ k <= short
      BY <1>0, <2>3 DEF IntMin
    <3>2. extra \in Seq(Page \cup {Separator}) /\ Len(extra) = k
      BY <1>0, <3>1, Prefix
    <3>3. Len(found \o extra) = Len(found) + k
      BY <1>0, <3>2, Joined DEF IsJoin
    <3> QED
      BY <1>0, <2>1, <2>3, <3>1, <3>3 DEF Bounded, Active
  <2>4. CASE ~(short > 0)
    BY <2>1, <2>2, <2>4 DEF Bounded, Active
  <2> QED
    BY <2>3, <2>4
<1>10. CASE SwitchTurn
  <2>1. /\ pc = "end" /\ walk = "switch" /\ mode' = mode /\ mode = "SWITCH_MODE"
        /\ found' = Append(found, Separator)
    BY <1>10, Modes DEF SwitchTurn, Place
  <2>2. Len(found') = Len(found) + 1 /\ n_to_find \in Nat
    BY <2>1, AppendProperties DEF Types, Bounded
  <2>3. CASE pc' = "reply"
    BY <2>1, <2>3 DEF Bounded, Active
  <2>4. CASE /\ n_to_find' = Len(found) + 1 + IntMin(Len(found) + Len(backups.switch), n_to_find)
             /\ pc' = "leg"
    <3>1. PICK k \in Nat : k = IntMin(Len(found) + Len(backups.switch), n_to_find)
      BY <1>0, <2>2 DEF IntMin
    <3>2. n_to_find' \in Nat /\ Len(found') <= n_to_find'
      BY <1>0, <2>2, <2>4, <3>1
    <3> QED
      BY <2>4, <3>2 DEF Bounded
  <2> QED
    BY <1>10, <2>3, <2>4 DEF SwitchTurn, Walking
<1>11. CASE SwitchEnd
  BY <1>11 DEF SwitchEnd, Bounded, Active
<1>12. CASE Reply
  BY <1>12 DEF Reply, Bounded, Active
<1>13. CASE UNCHANGED vars
  BY <1>13, <1>a DEF vars, request, lists
<1> QED
  BY <1>1, <1>2, <1>3, <1>4, <1>5, <1>6, <1>7, <1>8, <1>9, <1>10, <1>11, <1>12, <1>13, CallbackCases
  DEF Next, Environment, Handler, Walks

LEMMA SortedAlways == Spec => []Sorted
<1>1. Init => Sorted
  BY DEF Init, Sorted, Active
<1>2. WInv /\ Sorted /\ [Next]_vars => Sorted'
  BY SortedStep DEF WInv
<1> QED
  BY <1>1, <1>2, WInvariant, PTL DEF Spec

(* The bound on the backup list, which shrinks as pages are found, never
   costs mem_walk a page that is missing in its reply.                     *)
THEOREM ShortRepliesAreWhole == Spec => []ShortMeansAll
<1>1. Init => Kept /\ ShortMeansAll
  BY DEF Init, Kept, ShortMeansAll, Active
<1>2. WInv /\ Kept /\ ShortMeansAll /\ [Next]_vars => Kept' /\ ShortMeansAll'
  BY KeptStep DEF WInv
<1> QED
  BY <1>1, <1>2, WInvariant, PTL DEF Spec

(* When no count is negative, mem_walk replies with at most as many pages as
   were asked for, all of them of the tier it was asked to look in.        *)
THEOREM RepliesAreBounded ==
    ASSUME Count \subseteq Nat
    PROVE  Spec => []ReplyInBounds
<1>1. Init => Bounded
  BY DEF Init, Bounded, Active
<1>2. WInv /\ Bounded /\ [Next]_vars => Bounded'
  BY BoundedStep DEF WInv
<1>3. Types /\ Bounded /\ Sorted => ReplyInBounds
  <2> SUFFICES ASSUME Types, Bounded, Sorted, pc = "reply", mode \notin {"SWITCH_MODE", "NVRAM_CLEAR"}
               PROVE  /\ Len(found) <= n_to_find
                      /\ \A k \in 1 .. Len(found) : node[found[k]] = TierOf(walk)
    BY DEF ReplyInBounds
  <2>1. found \in Seq(In(TierOf(walk)))
    BY DEF Sorted
  <2>2. \A k \in 1 .. Len(found) : found[k] \in In(TierOf(walk))
    BY <2>1, ElementOfSeq
  <2> QED
    BY <2>2 DEF Bounded, In
<1>4. WInv => Types
  BY DEF WInv
<1> QED
  BY <1>1, <1>2, <1>3, <1>4, WInvariant, SortedAlways, PTL DEF Spec

(* switch_walk replies with as many NVRAM pages as DRAM pages and with the
   separator between the two, whatever was found and whatever was deferred. *)
THEOREM SwitchesAreBalanced == Spec => []SwitchBalanced
<1>1. Types /\ Sorted => SwitchBalanced
  <2> SUFFICES ASSUME Types, Sorted, pc = "reply", mode = "SWITCH_MODE"
               PROVE  \E h \in 0 .. Len(found) :
                        /\ Len(found) = 2 * h + 1 /\ found[h + 1] = Separator
                        /\ \A k \in 1 .. h : found[k] \in Page /\ node[found[k]] = "NVRAM"
                        /\ \A k \in h + 2 .. 2 * h + 1 : found[k] \in Page /\ node[found[k]] = "DRAM"
    BY DEF SwitchBalanced
  <2> DEFINE S == Page \cup {Separator}
  <2>1. PICK x \in Seq(In("NVRAM")), y \in Seq(In("DRAM")) :
           Len(x) = Len(y) /\ found = x \o <<Separator>> \o y
    BY DEF Sorted, Matched
  <2>2. x \in Seq(S) /\ y \in Seq(S) /\ Separator \in S
    BY <2>1 DEF In
  <2>3. /\ Len(found) = Len(x) + 1 + Len(y) /\ found[Len(x) + 1] = Separator
        /\ \A k \in 1 .. Len(x) : found[k] = x[k]
        /\ \A k \in 1 .. Len(y) : found[Len(x) + 1 + k] = y[k]
    <3> HIDE DEF S
    <3>1. IsHalves(found, x, Separator, y)
      BY <2>1, <2>2, Halves
    <3> QED
      BY <3>1, Zenon DEF IsHalves
  <2>4. PICK h \in Nat : h = Len(x) /\ h = Len(y)
    BY <2>1
  <2>5. \A k \in 1 .. h : found[k] \in In("NVRAM")
    BY <2>3, <2>4, ElementOfSeq
  <2>6. ASSUME NEW k \in h + 2 .. 2 * h + 1 PROVE found[k] \in In("DRAM")
    <3>1. PICK j \in 1 .. h : k = h + 1 + j
      <4>1. k - (h + 1) \in 1 .. h
        BY <2>6
      <4> QED
        BY <4>1
    <3> QED
      BY <2>3, <2>4, <3>1, ElementOfSeq
  <2>7. h \in 0 .. Len(found) /\ Len(found) = 2 * h + 1
    BY <2>3, <2>4
  <2> QED
    BY <2>3, <2>4, <2>5, <2>6, <2>7 DEF In
<1>2. WInv => Types
  BY DEF WInv
<1> QED
  BY <1>1, <1>2, WInvariant, SortedAlways, PTL

-----------------------------------------------------------------------------
(* The size of a reply, which is what the daemon's end is built on: SendFind
   and NetlinkReply begin with any reply of at most MAX_N_FIND pages, or of two
   halves of at most MAX_N_SWITCH pages each.                              *)
Sized ==
    /\ (Active \/ pc \in {"end", "reply"}) /\ mode \notin {"SWITCH_MODE", "NVRAM_CLEAR"} =>
          n_to_find <= MAX_N_FIND
    /\ (Active \/ pc = "end") /\ walk = "switch" => n_to_find <= MAX_N_SWITCH
    /\ (Active \/ pc = "end") /\ mode = "SWITCH_MODE" /\ walk = "mem" =>
          \A s \in 1 .. Len(found) : found[s] = Separator =>
              s - 1 <= MAX_N_SWITCH /\ n_to_find - s <= MAX_N_SWITCH
    /\ pc = "reply" /\ mode = "SWITCH_MODE" => Len(found) <= 2 * MAX_N_SWITCH + 1

(* Neither half of the pairs is longer than the longer of the lists they are
   made from.                                                              *)
LEMMA PairsFit ==
    ASSUME NEW N, NEW D, NEW n \in Seq(N), NEW d \in Seq(D), NEW nb \in Seq(N), NEW db \in Seq(D),
           NEW M \in Nat, Len(n) <= M, Len(d) <= M
    PROVE  Len(Pairs(n, d, nb, db)) <= 2 * M + 1
<1>1. PICK x \in Seq(N), y \in Seq(D) :
         /\ Len(x) = Len(y) /\ Pairs(n, d, nb, db) = x \o <<Separator>> \o y
         /\ Halved(x, y, n, d, nb, db)
  BY Paired DEF MadeOf
<1>2. Len(x) \in Nat /\ Len(y) \in Nat /\ Len(n) \in Nat /\ Len(d) \in Nat
  OBVIOUS
<1>3. Len(x) <= M
  <2>1. CASE x = n \/ x = << >>
    BY <2>1
  <2>2. ASSUME NEW k \in 0 .. Len(n), x = SubSeq(n, 1, k) PROVE Len(x) <= M
    <3>1. Len(x) = k
      BY <1>2, <2>2, Prefix
    <3> QED
      BY <1>2, <3>1
  <2>3. ASSUME NEW k \in 0 .. Len(d), y = SubSeq(d, 1, k) PROVE Len(x) <= M
    <3>1. Len(y) = k
      BY <1>2, <2>3, Prefix
    <3> QED
      BY <1>1, <1>2, <3>1
  <2> QED
    BY <1>1, <2>1, <2>2, <2>3, Zenon DEF Halved
<1>4. Len(x \o <<Separator>> \o y) = Len(x) + 1 + Len(y)
  <2> DEFINE S == N \cup D \cup {Separator}
  <2>1. x \in Seq(S) /\ y \in Seq(S) /\ Separator \in S
    OBVIOUS
  <2> HIDE DEF S
  <2>2. IsHalves(x \o <<Separator>> \o y, x, Separator, y)
    BY <2>1, Halves
  <2> QED
    BY <2>2, Zenon DEF IsHalves
<1> QED
  BY <1>1, <1>2, <1>3, <1>4

LEMMA SizedStep ==
    ASSUME Count \subseteq Nat, Types, Place, Sorted, Bounded, Sized, [Next]_vars
    PROVE  Sized'
<1>0. /\ found \in Seq(Page \cup {Separator}) /\ Len(found) \in Nat /\ n_to_find \in Int
      /\ backups["mem"] \in Seq(Page) /\ Len(backups["mem"]) \in Nat /\ Len(backups["switch"]) \in Nat
      /\ MAX_N_SWITCH \in Nat /\ MAX_N_FIND \in Nat
  BY SizeAssumption DEF Types
<1>a. ASSUME UNCHANGED <<mode, walk, found, n_to_find>>, pc' = pc \/ (Active /\ Active')
      PROVE  Sized'
  BY <1>a DEF Sized, Active
<1>1. ASSUME NEW q \in Proc, Exit(q) PROVE Sized'
  BY <1>1, <1>a DEF Exit, request, lists
<1>2. ASSUME NEW p \in Page, Move(p) PROVE Sized'
  BY <1>2, <1>a DEF Move, request, lists
<1>3. ASSUME NEW m \in Mode, NEW n \in Count, Receive(m, n) PROVE Sized'
  <2>1. pc' = "leg" /\ mode' = m /\ walk' = CallbackOf[m] /\ m \in DOMAIN CallbackOf
    BY <1>3, SizeAssumption DEF Receive, Walking
  <2>2. n \in Nat
    BY <1>3
  <2>3. IntMin(MAX_N_SWITCH, n) <= MAX_N_SWITCH /\ IntMin(MAX_N_FIND, n) <= MAX_N_FIND
    BY <1>0, <2>2 DEF IntMin
  <2>4. m = "SWITCH_MODE" => n_to_find' = IntMin(MAX_N_SWITCH, n)
    BY <1>3, Zenon DEF Receive
  <2>5. m \notin {"SWITCH_MODE", "NVRAM_CLEAR"} => n_to_find' = IntMin(MAX_N_FIND, n)
    BY <1>3, Zenon DEF Receive
  <2>6. walk' = "switch" <=> m = "SWITCH_MODE"
    BY <2>1, Modes
  <2> QED
    BY <2>1, <2>3, <2>4, <2>5, <2>6 DEF Sized, Active
<1>4. CASE BeginLeg
  BY <1>4 DEF BeginLeg, request, lists, Sized, Active
<1>5. CASE StopFull
  BY <1>5, <1>a DEF StopFull, request, lists, Active
<1>6. CASE Collects
  <2>1. /\ pc = "pte" /\ NextPte /\ UNCHANGED <<mode, walk, start, leg, n_to_find>>
        /\ found' = found \/ found' = Append(found, Here)
    BY <1>6, Collected DEF Passes, Taken, Deferred, Enough
  <2>2. pc' \in {"pte", "over"} /\ Active /\ Active'
    BY <2>1, NextInLeg DEF Active
  <2>3. CASE found' = found
    BY <1>a, <2>1, <2>2, <2>3
  <2>4. CASE found' = Append(found, Here)
    <3>1. /\ Len(found') = Len(found) + 1 /\ found'[Len(found')] = Here
          /\ \A k \in 1 .. Len(found) : found'[k] = found[k]
      BY <2>4, Filled
    <3>2. Here # Separator
      BY Legs, Now, SeparatorIsNoPage DEF Types, Here, Page
    <3>3. \A s \in 1 .. Len(found') :
             found'[s] = Separator => s \in 1 .. Len(found) /\ found[s] = Separator
      <4> SUFFICES ASSUME NEW s \in 1 .. Len(found'), found'[s] = Separator
                   PROVE  s \in 1 .. Len(found) /\ found[s] = Separator
        OBVIOUS
      <4>1. s # Len(found')
        BY <3>1, <3>2
      <4>2. s \in 1 .. Len(found)
        BY <1>0, <3>1, <4>1
      <4> QED
        BY <3>1, <4>2
    <3> QED
      BY <2>1, <2>2, <3>3 DEF Sized, Active
  <2> QED
    BY <2>1, <2>3, <2>4
<1>7. CASE pte_callback_nvram_clear
  <2>1. pc' \in {"pte", "over"}
    BY <1>7, NextInLeg DEF pte_callback_nvram_clear, request
  <2> QED
    BY <1>7, <1>a, <2>1 DEF pte_callback_nvram_clear, request, lists, Active
<1>8. CASE EndLeg
  <2>1. /\ pc = "over" /\ UNCHANGED <<mode, walk, found, n_to_find>>
        /\ pc' \in {"leg", "end"} \/ (pc' = "reply" /\ walk = "clear")
    BY <1>8 DEF EndLeg, request, lists
  <2>2. walk = "clear" => mode = "NVRAM_CLEAR"
    BY <2>1, Modes DEF Place
  <2> QED
    BY <2>1, <2>2 DEF Sized, Active
<1>9. CASE MemEnd
  <2>1. /\ pc = "end" /\ pc' = "reply" /\ mode # "SWITCH_MODE"
        /\ UNCHANGED <<mode, n_to_find>>
    BY <1>9 DEF MemEnd
  <2> QED
    BY <2>1 DEF Sized, Active
<1>10. CASE SwitchTurn
  <2>1. /\ pc = "end" /\ walk = "switch" /\ mode' = mode /\ mode = "SWITCH_MODE"
        /\ found' = Append(found, Separator)
    BY <1>10, Modes DEF SwitchTurn, Place
  <2>2. /\ Len(found') = Len(found) + 1
        /\ \A k \in 1 .. Len(found) : found'[k] = found[k]
    BY <1>0, <2>1, AppendProperties
  <2>3. Len(found) <= n_to_find /\ n_to_find <= MAX_N_SWITCH /\ n_to_find \in Nat
    BY <2>1 DEF Bounded, Sized, Active
  <2>4. \A s \in 1 .. Len(found') : found'[s] = Separator => s = Len(found) + 1
    <3> SUFFICES ASSUME NEW s \in 1 .. Len(found'), s # Len(found) + 1
                 PROVE  found'[s] # Separator
      OBVIOUS
    <3>1. s \in 1 .. Len(found)
      BY <1>0, <2>2
    <3>2. found \in Seq(In("NVRAM"))
      BY <2>1 DEF Sorted
    <3>3. found[s] \in In("NVRAM")
      BY <3>1, <3>2, ElementOfSeq
    <3> QED
      BY <2>2, <3>1, <3>3, SeparatorIsNoPage DEF In
  <2>5. CASE pc' = "reply" /\ Len(found) = 0 /\ walk' = walk
    BY <1>0, <2>1, <2>2, <2>5 DEF Sized, Active
  <2>6. CASE /\ n_to_find' = Len(found) + 1 + IntMin(Len(found) + Len(backups.switch), n_to_find)
             /\ pc' = "leg" /\ walk' = "mem"
    <3>1. PICK k \in Nat : k = IntMin(Len(found) + Len(backups.switch), n_to_find) /\ k <= n_to_find
      BY <1>0, <2>3 DEF IntMin
    <3>2. n_to_find' = Len(found) + 1 + k
      BY <2>6, <3>1
    <3>3. \A s \in 1 .. Len(found') : found'[s] = Separator =>
             s - 1 <= MAX_N_SWITCH /\ n_to_find' - s <= MAX_N_SWITCH
      <4> TAKE s \in 1 .. Len(found')
      <4> HAVE found'[s] = Separator
      <4>1. s = Len(found) + 1
        BY <2>4
      <4>2. Len(found) \in Nat
        BY <1>0
      <4>3. PICK c \in Nat, m \in Nat : c = Len(found) /\ m = MAX_N_SWITCH /\ c <= m /\ k <= m
        BY <2>3, <3>1, <4>2, SizeAssumption
      <4>4. (c + 1) - 1 <= m /\ (c + 1 + k) - (c + 1) <= m
        BY <4>3
      <4> QED
        BY <3>2, <4>1, <4>3, <4>4, Zenon
    <3> QED
      BY <2>1, <2>6, <3>3 DEF Sized, Active
  <2> QED
    BY <1>10, <2>5, <2>6 DEF SwitchTurn, Walking
<1>11. CASE SwitchEnd
  <2> DEFINE s == CHOOSE k \in 1 .. Len(found) : found[k] = Separator
             n == SubSeq(found, 1, s - 1)
             d == SubSeq(found, s + 1, Len(found))
             NV == In("NVRAM")
             DR == In("DRAM")
  <2>1. /\ pc = "end" /\ mode = "SWITCH_MODE" /\ walk = "mem"
        /\ found' = Pairs(n, d, backups.switch, backups.mem) /\ pc' = "reply"
        /\ UNCHANGED <<mode, walk>>
    BY <1>11 DEF SwitchEnd
  <2>2. /\ s \in 1 .. Len(found) /\ n \in Seq(NV) /\ d \in Seq(DR)
        /\ backups["switch"] \in Seq(NV) /\ backups["mem"] \in Seq(DR)
    BY <2>1, Parts, Zenon
  <2>3. found[s] = Separator
    <3>1. \E k \in 1 .. Len(found) : found[k] = Separator
      BY <2>1 DEF Place
    <3> QED
      BY <3>1, Zenon
  <2>4. Len(n) = s - 1 /\ Len(d) = Len(found) - s
    <3> HIDE DEF s
    <3>1. \A i \in 1 .. Len(found) : found[i] \in Page \cup {Separator}
      BY <1>0, ElementOfSeq
    <3>2. PICK j \in Int, k \in Int, l \in Int : j = s - 1 /\ k = s + 1 /\ l = Len(found)
      BY <1>0, <2>2
    <3>3. Len(SubSeq(found, 1, j)) = j /\ Len(SubSeq(found, k, l)) = l - k + 1
      <4>1. /\ \A i \in 1 .. j : found[i] \in Page \cup {Separator}
            /\ \A i \in k .. l : found[i] \in Page \cup {Separator}
        BY <1>0, <2>2, <3>1, <3>2
      <4> QED
        BY <1>0, <2>2, <3>2, <4>1, SubSeqProperties
    <3> QED
      BY <1>0, <2>2, <3>2, <3>3
  <2>5. Len(n) <= MAX_N_SWITCH /\ Len(d) <= MAX_N_SWITCH
    <3>1. Len(found) <= n_to_find
      BY <2>1 DEF Bounded
    <3>2. s - 1 <= MAX_N_SWITCH /\ n_to_find - s <= MAX_N_SWITCH
      BY <2>1, <2>2, <2>3 DEF Sized
    <3> HIDE DEF s, n, d
    <3> QED
      BY <1>0, <2>2, <2>4, <3>1, <3>2
  <2> HIDE DEF s, n, d, NV, DR
  <2>6. Len(found') <= 2 * MAX_N_SWITCH + 1
    BY <1>0, <2>1, <2>2, <2>5, PairsFit
  <2> QED
    BY <2>1, <2>6 DEF Sized, Active
<1>12. CASE Reply
  BY <1>12 DEF Reply, Sized, Active
<1>13. CASE UNCHANGED vars
  BY <1>13, <1>a DEF vars, request, lists
<1> QED
  BY <1>1, <1>2, <1>3, <1>4, <1>5, <1>6, <1>7, <1>8, <1>9, <1>10, <1>11, <1>12, <1>13, CallbackCases
  DEF Next, Environment, Handler, Walks

(* What the module answers to a FIND is what the daemon's end expects, and no
   more: pages, at most MAX_N_FIND of them, or two halves of the same length,
   at most MAX_N_SWITCH, with the separator between them.  The entry with the
   return value is added behind it (ReplyTo of SendFind).                  *)
FitsDaemon ==
    pc = "reply" =>
        /\ mode \notin {"SWITCH_MODE", "NVRAM_CLEAR"} =>
              found \in Seq(Page) /\ Len(found) <= MAX_N_FIND
        /\ mode = "SWITCH_MODE" =>
              \E x, y \in Seq(Page) : /\ Len(x) = Len(y) /\ Len(x) <= MAX_N_SWITCH
                                      /\ found = x \o <<Separator>> \o y

THEOREM RepliesFitDaemon ==
    ASSUME Count \subseteq Nat
    PROVE  Spec => []FitsDaemon
<1>1. Init => Bounded /\ Sized
  BY DEF Init, Bounded, Sized, Active
<1>2. WInv /\ Sorted /\ Bounded /\ Sized /\ [Next]_vars => Bounded' /\ Sized'
  BY BoundedStep, SizedStep DEF WInv
<1>3. Types /\ Sorted /\ Bounded /\ Sized => FitsDaemon
  <2> SUFFICES ASSUME Types, Sorted, Bounded, Sized, pc = "reply" PROVE FitsDaemon
    BY DEF FitsDaemon
  <2>0. MAX_N_SWITCH \in Nat /\ MAX_N_FIND \in Nat /\ Len(found) \in Nat /\ n_to_find \in Int
    BY SizeAssumption DEF Types
  <2>1. ASSUME mode \notin {"SWITCH_MODE", "NVRAM_CLEAR"}
        PROVE  found \in Seq(Page) /\ Len(found) <= MAX_N_FIND
    <3>1. found \in Seq(In(TierOf(walk)))
      BY <2>1 DEF Sorted
    <3>2. In(TierOf(walk)) \subseteq Page
      BY DEF In
    <3>3. Len(found) <= n_to_find /\ n_to_find <= MAX_N_FIND
      BY <2>1 DEF Bounded, Sized
    <3> QED
      BY <2>0, <3>1, <3>2, <3>3
  <2>2. ASSUME mode = "SWITCH_MODE"
        PROVE  \E x, y \in Seq(Page) : /\ Len(x) = Len(y) /\ Len(x) <= MAX_N_SWITCH
                                       /\ found = x \o <<Separator>> \o y
    <3> DEFINE S == Page \cup {Separator}
    <3>1. PICK x \in Seq(In("NVRAM")), y \in Seq(In("DRAM")) :
             Len(x) = Len(y) /\ found = x \o <<Separator>> \o y
      BY <2>2 DEF Sorted, Matched
    <3>2. x \in Seq(Page) /\ y \in Seq(Page)
      BY <3>1 DEF In
    <3>3. x \in Seq(S) /\ y \in Seq(S) /\ Separator \in S /\ Len(x) \in Nat
      BY <3>2
    <3>4. Len(found) = Len(x) + 1 + Len(y)
      <4> HIDE DEF S
      <4>1. IsHalves(found, x, Separator, y)
        BY <3>1, <3>3, Halves
      <4> QED
        BY <4>1, Zenon DEF IsHalves
    <3>5. Len(found) <= 2 * MAX_N_SWITCH + 1
      BY <2>2 DEF Sized
    <3>6. Len(x) <= MAX_N_SWITCH
      BY <2>0, <3>1, <3>3, <3>4, <3>5
    <3> QED
      BY <3>1, <3>2, <3>6
  <2> QED
    BY <2>1, <2>2 DEF FitsDaemon
<1>4. WInv => Types
  BY DEF WInv
<1> QED
  BY <1>1, <1>2, <1>3, <1>4, WInvariant, SortedAlways, PTL DEF Spec

-----------------------------------------------------------------------------
(* Pages that are reported twice.                                          *)

(* No two elements are the same, of one sequence or of two, outside C.     *)
Once(s, C) == \A j, k \in 1 .. Len(s) : j # k /\ s[j] = s[k] => s[j] \in C
Apart(s, t, C) == \A j \in 1 .. Len(s), k \in 1 .. Len(t) : s[j] = t[k] => s[j] \in C

LEMMA OnceAppend ==
    ASSUME NEW S, NEW s \in Seq(S), NEW p \in S, NEW C, Once(s, C), Listed(p, s) => p \in C
    PROVE  Once(Append(s, p), C)
<1>1. PICK t : t = Append(s, p)
  OBVIOUS
<1>2. /\ Len(t) = Len(s) + 1 /\ Len(s) \in Nat
      /\ t[Len(s) + 1] = p /\ \A k \in 1 .. Len(s) : t[k] = s[k]
  BY <1>1, AppendProperties
<1> SUFFICES ASSUME NEW j \in 1 .. Len(t), NEW k \in 1 .. Len(t), j # k, t[j] = t[k]
             PROVE  t[j] \in C
  BY <1>1 DEF Once
<1>3. CASE j = Len(t)
  <2>1. k \in 1 .. Len(s) /\ s[k] = p
    BY <1>2, <1>3
  <2> QED
    BY <1>2, <1>3, <2>1 DEF Listed
<1>4. CASE k = Len(t)
  <2>1. j \in 1 .. Len(s) /\ s[j] = p
    BY <1>2, <1>4
  <2> QED
    BY <1>2, <2>1 DEF Listed
<1>5. CASE j # Len(t) /\ k # Len(t)
  <2>1. j \in 1 .. Len(s) /\ k \in 1 .. Len(s)
    BY <1>2, <1>5
  <2> QED
    BY <1>2, <2>1 DEF Once
<1> QED
  BY <1>3, <1>4, <1>5

LEMMA ApartAppend ==
    ASSUME NEW S, NEW s \in Seq(S), NEW p \in S, NEW u, NEW C, Listed(p, u) => p \in C
    PROVE  /\ Apart(s, u, C) => Apart(Append(s, p), u, C)
           /\ Apart(u, s, C) => Apart(u, Append(s, p), C)
<1>1. PICK t : t = Append(s, p)
  OBVIOUS
<1>2. /\ Len(t) = Len(s) + 1 /\ Len(s) \in Nat
      /\ t[Len(s) + 1] = p /\ \A k \in 1 .. Len(s) : t[k] = s[k]
  BY <1>1, AppendProperties
<1>3. ASSUME NEW j \in 1 .. Len(t) PROVE t[j] = p \/ (j \in 1 .. Len(s) /\ t[j] = s[j])
  BY <1>2
<1>4. ASSUME Apart(s, u, C), NEW j \in 1 .. Len(t), NEW k \in 1 .. Len(u), t[j] = u[k]
      PROVE  t[j] \in C
  BY <1>3, <1>4 DEF Apart, Listed
<1>5. ASSUME Apart(u, s, C), NEW j \in 1 .. Len(u), NEW k \in 1 .. Len(t), u[j] = t[k]
      PROVE  u[j] \in C
  BY <1>3, <1>5 DEF Apart, Listed
<1> QED
  BY <1>1, <1>4, <1>5 DEF Apart

LEMMA OncePrefix ==
    ASSUME NEW S, NEW s \in Seq(S), NEW k \in 0 .. Len(s), NEW C
    PROVE  /\ SubSeq(s, 1, k) \in Seq(S)
           /\ Once(s, C) => Once(SubSeq(s, 1, k), C)
           /\ \A u : Apart(u, s, C) => Apart(u, SubSeq(s, 1, k), C)
<1>1. k \in Nat /\ k <= Len(s) /\ Len(s) \in Nat
  OBVIOUS
<1>2. PICK t \in Seq(S) : t = SubSeq(s, 1, k) /\ Len(t) = k
  BY <1>1, Prefix
<1>3. \A i \in 1 .. k : t[i] = s[i] /\ i \in 1 .. Len(s)
  BY <1>1, <1>2
<1>4. Once(s, C) => Once(t, C)
  BY <1>2, <1>3 DEF Once
<1>5. ASSUME NEW u, Apart(u, s, C) PROVE Apart(u, t, C)
  BY <1>2, <1>3, <1>5 DEF Apart
<1> QED
  BY <1>2, <1>4, <1>5

LEMMA OnceJoin ==
    ASSUME NEW S, NEW s \in Seq(S), NEW t \in Seq(S), NEW C, Once(s, C), Once(t, C), Apart(s, t, C)
    PROVE  Once(s \o t, C)
<1>1. PICK u : u = s \o t /\ IsJoin(u, s, t)
  BY Joined
<1>2. Len(s) \in Nat /\ Len(t) \in Nat
  OBVIOUS
<1>3. ASSUME NEW j \in 1 .. Len(u)
      PROVE  \/ j \in 1 .. Len(s) /\ u[j] = s[j]
             \/ \E i \in 1 .. Len(t) : j = Len(s) + i /\ u[j] = t[i]
  <2>1. CASE j <= Len(s)
    BY <1>1, <1>2, <2>1 DEF IsJoin
  <2>2. CASE ~(j <= Len(s))
    <3>1. PICK i \in 1 .. Len(t) : i = j - Len(s)
      BY <1>1, <1>2, <2>2 DEF IsJoin
    <3>2. j = Len(s) + i
      BY <1>2, <3>1
    <3> QED
      BY <1>1, <3>2 DEF IsJoin
  <2> QED
    BY <2>1, <2>2
<1> SUFFICES ASSUME NEW j \in 1 .. Len(u), NEW k \in 1 .. Len(u), j # k, u[j] = u[k]
             PROVE  u[j] \in C
  BY <1>1 DEF Once
<1>4. CASE j \in 1 .. Len(s) /\ u[j] = s[j]
  <2>1. CASE k \in 1 .. Len(s) /\ u[k] = s[k]
    BY <1>4, <2>1 DEF Once
  <2>2. CASE \E i \in 1 .. Len(t) : k = Len(s) + i /\ u[k] = t[i]
    BY <1>4, <2>2 DEF Apart
  <2> QED
    BY <1>3, <2>1, <2>2
<1>5. CASE \E i \in 1 .. Len(t) : j = Len(s) + i /\ u[j] = t[i]
  <2>1. PICK i \in 1 .. Len(t) : j = Len(s) + i /\ u[j] = t[i]
    BY <1>5
  <2>2. CASE k \in 1 .. Len(s) /\ u[k] = s[k]
    BY <2>1, <2>2 DEF Apart
  <2>3. CASE \E l \in 1 .. Len(t) : k = Len(s) + l /\ u[k] = t[l]
    BY <2>1, <2>3 DEF Once
  <2> QED
    BY <1>3, <2>2, <2>3
<1> QED
  BY <1>3, <1>4, <1>5

(* The pairs of a switch, each half made of lists without repetitions.     *)
LEMMA OncePairs ==
    ASSUME NEW N, NEW D, NEW n \in Seq(N), NEW d \in Seq(D), NEW nb \in Seq(N), NEW db \in Seq(D),
           NEW C, N \cap D = {}, Separator \notin N \cup D,
           Once(n, C), Once(nb, C), Apart(n, nb, C), Once(d, C), Once(db, C), Apart(d, db, C)
    PROVE  Once(Pairs(n, d, nb, db), C)
<1>1. PICK x \in Seq(N), y \in Seq(D) :
         /\ Len(x) = Len(y) /\ Pairs(n, d, nb, db) = x \o <<Separator>> \o y
         /\ Halved(x, y, n, d, nb, db)
  <2>1. MadeOf(Pairs(n, d, nb, db), N, D, n, d, nb, db)
    BY Paired
  <2> QED
    BY <2>1, Zenon DEF MadeOf
<1>2. Once(x, C) /\ Once(y, C)
  <2>1. CASE x = n /\ y = d
    BY <2>1
  <2>2. ASSUME NEW k \in 0 .. Len(n), NEW j \in 0 .. Len(db), x = SubSeq(n, 1, k), y = d \o SubSeq(db, 1, j)
        PROVE  Once(x, C) /\ Once(y, C)
    <3>1. Once(x, C)
      BY <2>2, OncePrefix
    <3>2. PICK e \in Seq(D) : e = SubSeq(db, 1, j) /\ Once(e, C) /\ Apart(d, e, C)
      BY OncePrefix
    <3>3. Once(d \o e, C)
      BY <3>2, OnceJoin
    <3> QED
      BY <2>2, <3>1, <3>2, <3>3
  <2>3. ASSUME NEW k \in 0 .. Len(d), NEW j \in 0 .. Len(nb), x = n \o SubSeq(nb, 1, j), y = SubSeq(d, 1, k)
        PROVE  Once(x, C) /\ Once(y, C)
    <3>1. Once(y, C)
      BY <2>3, OncePrefix
    <3>2. PICK e \in Seq(N) : e = SubSeq(nb, 1, j) /\ Once(e, C) /\ Apart(n, e, C)
      BY OncePrefix
    <3>3. Once(n \o e, C)
      BY <3>2, OnceJoin
    <3> QED
      BY <2>3, <3>1, <3>2, <3>3
  <2>4. CASE x = << >> /\ y = << >>
    <3>1. Len(x) = 0 /\ Len(y) = 0
      BY <2>4
    <3> QED
      BY <3>1 DEF Once
  <2> QED
    BY <1>1, <2>1, <2>2, <2>3, <2>4, Zenon DEF Halved
<1> DEFINE S == N \cup D \cup {Separator}
<1>3. <<Separator>> \in Seq(S) /\ Len(<<Separator>>) = 1 /\ <<Separator>>[1] = Separator
      /\ x \in Seq(S) /\ y \in Seq(S)
  OBVIOUS
<1>4. (\A i \in 1 .. Len(x) : x[i] \in N) /\ (\A i \in 1 .. Len(y) : y[i] \in D)
  BY ElementOfSeq
<1> HIDE DEF S
<1>5. PICK e \in Seq(S) : e = <<Separator>> /\ Len(e) = 1 /\ e[1] = Separator
  BY <1>3
<1>6. Once(e, C)
  BY <1>5 DEF Once
<1>7. Apart(x, e, C)
  <2> SUFFICES ASSUME NEW j \in 1 .. Len(x), NEW k \in 1 .. Len(e), x[j] = e[k] PROVE FALSE
    BY DEF Apart
  <2>1. e[k] = Separator
    BY <1>5
  <2> QED
    BY <1>4, <2>1
<1>8. PICK w \in Seq(S) : w = x \o e /\ IsJoin(w, x, e)
  BY <1>3, <1>5, Joined
<1>9. Once(w, C)
  BY <1>2, <1>3, <1>6, <1>7, <1>8, OnceJoin
<1>10. Apart(w, y, C)
  <2> SUFFICES ASSUME NEW j \in 1 .. Len(w), NEW k \in 1 .. Len(y), w[j] = y[k] PROVE FALSE
    BY DEF Apart
  <2>1. Len(x) \in Nat /\ Len(w) = Len(x) + 1
    BY <1>5, <1>8 DEF IsJoin
  <2>2. CASE j = Len(x) + 1
    <3>1. w[j] = Separator
      BY <1>5, <1>8, <2>2 DEF IsJoin
    <3> QED
      BY <1>4, <3>1
  <2>3. CASE j # Len(x) + 1
    <3>1. j \in 1 .. Len(x)
      BY <2>1, <2>3
    <3>2. w[j] = x[j]
      BY <1>8, <3>1 DEF IsJoin
    <3> QED
      BY <1>4, <3>1, <3>2
  <2> QED
    BY <2>2, <2>3
<1>11. Once(w \o y, C)
  BY <1>2, <1>3, <1>9, <1>10, OnceJoin
<1> QED
  BY <1>1, <1>5, <1>8, <1>11, Zenon

(* The pages called back for are behind the walk.                          *)
Behind ==
    Active =>
        \A p \in visited : \E l \in 0 .. leg :
            /\ p[1] = ProcAt(l) /\ FromAt(l) <= p[2] /\ p[2] <= ToAt(l)
            /\ l = leg => pc # "leg" /\ (pc = "pte" => p[2] < addr)

(* The only page a walk calls back for again is the one it began with.     *)
LEMMA Again ==
    ASSUME Types, Place, Behind, pc = "pte", walk # "clear", Here \in visited
    PROVE  Here = start[TierOf(walk)]
<1>1. PICK l \in 0 .. leg :
         /\ LegProc = ProcAt(l) /\ FromAt(l) <= addr /\ addr <= ToAt(l)
         /\ l = leg => addr < addr
  BY DEF Behind, Active, Here
<1>2. leg \in 0 .. n_pids /\ l \in 0 .. n_pids /\ addr \in Int /\ n_pids \in Nat \ {0}
      /\ Origin[1] \in 0 .. n_pids - 1 /\ Origin[2] \in Int /\ LAST \in Int
  <2>1. Origin[1] \in Proc /\ Origin[2] \in Addr
    BY Legs
  <2>2. leg \in 0 .. n_pids /\ addr \in Addr
    BY DEF Types
  <2>3. n_pids \in Nat \ {0} /\ LAST \in Nat
    BY SizeAssumption
  <2>4. l \in 0 .. n_pids
    BY <2>2, <2>3
  <2> QED
    BY <2>1, <2>2, <2>3, <2>4 DEF Addr, Proc
<1>3. l < leg
  BY <1>1, <1>2
<1>4. ProcAt(l) = ProcAt(leg)
  BY <1>1, Now
<1>5. l = 0 /\ leg = n_pids
  <2>1. ProcAt(l) = IF Origin[1] + l < n_pids THEN Origin[1] + l ELSE (Origin[1] + l) - n_pids
    BY <1>2, Legs
  <2>2. ProcAt(leg) = IF Origin[1] + leg < n_pids THEN Origin[1] + leg ELSE (Origin[1] + leg) - n_pids
    BY <1>2, Legs
  <2>3. PICK o \in 0 .. n_pids - 1, g \in 0 .. n_pids : o = Origin[1] /\ g = leg
    BY <1>2
  <2>4. o \in Int /\ g \in Int /\ l \in Int /\ n_pids \in Int
    BY <1>2, <2>3
  <2>5. (IF o + l < n_pids THEN o + l ELSE (o + l) - n_pids)
          = (IF o + g < n_pids THEN o + g ELSE (o + g) - n_pids)
    BY <1>4, <2>1, <2>2, <2>3
  <2>6. 0 <= l /\ l < g /\ g <= n_pids
    BY <1>2, <1>3, <2>3
  <2>7. l = 0 /\ g = n_pids
    BY <2>4, <2>5, <2>6
  <2> QED
    BY <2>3, <2>7
<1>6. LegProc = Origin[1] /\ addr = Origin[2]
  <2>1. ProcAt(0) = Origin[1]
    BY <1>2, Legs
  <2>2. Origin[2] <= addr
    BY <1>1, <1>5 DEF FromAt
  <2>3. addr <= Origin[2]
    BY <1>5 DEF Place, LegTo
  <2> QED
    BY <1>1, <1>2, <1>5, <2>1, <2>2, <2>3
<1>7. Origin = start[TierOf(walk)] /\ start[TierOf(walk)] \in Proc \X Addr
  BY Legs DEF Types, Origin, Page
<1> QED
  BY <1>6, <1>7 DEF Here

LEMMA CalledBehind ==
    ASSUME Types, Place, Behind, pc = "pte", NextPte, visited' = visited \cup {Here},
           UNCHANGED <<walk, start, leg>>
    PROVE  Behind'
<1>1. pc' \in {"pte", "over"} /\ (pc' = "pte" => addr' = addr + 1) /\ addr \in Int /\ leg \in 0 .. n_pids
  BY NextInLeg DEF Types, Addr
<1>2. \A l : ProcAt(l)' = ProcAt(l) /\ FromAt(l)' = FromAt(l) /\ ToAt(l)' = ToAt(l)
  BY Steady
<1>3. SUFFICES ASSUME NEW p \in visited'
               PROVE  \E l \in 0 .. leg : /\ p[1] = ProcAt(l) /\ FromAt(l) <= p[2] /\ p[2] <= ToAt(l)
                                          /\ l = leg => (pc' = "pte" => p[2] < addr')
  BY <1>1, <1>2 DEF Behind
<1>4. CASE p = Here
  <2>1. p[1] = ProcAt(leg) /\ p[2] = addr /\ FromAt(leg) <= p[2] /\ p[2] <= ToAt(leg)
    BY <1>4, Now DEF Here, Place
  <2> QED
    BY <1>1, <2>1
<1>5. CASE p # Here
  <2>1. p \in visited /\ p[2] \in Int
    BY <1>5 DEF Types, Page, Addr
  <2>2. PICK l \in 0 .. leg : /\ p[1] = ProcAt(l) /\ FromAt(l) <= p[2] /\ p[2] <= ToAt(l)
                              /\ l = leg => p[2] < addr
    BY <2>1 DEF Behind, Active
  <2> QED
    BY <1>1, <2>1, <2>2
<1> QED
  BY <1>4, <1>5

LEMMA BehindStep ==
    ASSUME Types, Place, Behind, [Next]_vars
    PROVE  Behind'
<1>0. leg \in 0 .. n_pids
  BY DEF Types
<1>a. ASSUME UNCHANGED <<walk, start, visited>>, Active' => Active,
             \/ leg' = leg + 1
             \/ leg' = leg /\ (\/ pc' = pc /\ addr' = addr
                               \/ pc' = "over"
                               \/ pc = "leg" /\ pc' = "pte")
      PROVE  Behind'
  <2>1. \A l : ProcAt(l)' = ProcAt(l) /\ FromAt(l)' = FromAt(l) /\ ToAt(l)' = ToAt(l)
    BY <1>a, Steady
  <2>2. SUFFICES ASSUME Active', NEW p \in visited
                 PROVE  \E l \in 0 .. leg' : /\ p[1] = ProcAt(l) /\ FromAt(l) <= p[2] /\ p[2] <= ToAt(l)
                                             /\ l = leg' => pc' # "leg" /\ (pc' = "pte" => p[2] < addr')
    BY <1>a, <2>1 DEF Behind
  <2>3. PICK l \in 0 .. leg : /\ p[1] = ProcAt(l) /\ FromAt(l) <= p[2] /\ p[2] <= ToAt(l)
                              /\ l = leg => pc # "leg" /\ (pc = "pte" => p[2] < addr)
    BY <1>a, <2>2 DEF Behind
  <2>4. CASE leg' = leg + 1
    <3>1. l \in 0 .. leg' /\ l # leg'
      BY <1>0, <2>4
    <3> QED
      BY <2>3, <3>1
  <2>5. CASE leg' = leg /\ ((pc' = pc /\ addr' = addr) \/ pc' = "over" \/ (pc = "leg" /\ pc' = "pte"))
    BY <2>3, <2>5
  <2> QED
    BY <1>a, <2>4, <2>5
<1>1. ASSUME NEW q \in Proc, Exit(q) PROVE Behind'
  BY <1>1, <1>a DEF Exit, request, history, Active
<1>2. ASSUME NEW p \in Page, Move(p) PROVE Behind'
  BY <1>2 DEF Move, Behind, Active
<1>3. ASSUME NEW m \in Mode, NEW n \in Count, Receive(m, n) PROVE Behind'
  BY <1>3 DEF Receive, Walking, Behind
<1>4. CASE BeginLeg
  BY <1>4, <1>a DEF BeginLeg, request, history, Active, Behind
<1>5. CASE StopFull
  BY <1>5, <1>a DEF StopFull, request, history, Active
<1>6. CASE Collects
  BY <1>6, Collected, CalledBehind
<1>7. CASE pte_callback_nvram_clear
  BY <1>7, CalledBehind DEF pte_callback_nvram_clear, request
<1>8. CASE EndLeg
  BY <1>8, <1>a DEF EndLeg, request, history, Active, Behind
<1>9. CASE MemEnd
  BY <1>9 DEF MemEnd, Behind, Active
<1>10. CASE SwitchTurn
  BY <1>10 DEF SwitchTurn, Walking, Behind, Active
<1>11. CASE SwitchEnd
  BY <1>11 DEF SwitchEnd, Behind, Active
<1>12. CASE Reply
  BY <1>12 DEF Reply, Behind, Active
<1>13. CASE UNCHANGED vars
  BY <1>13, <1>a DEF vars, request, history, Active
<1> QED
  BY <1>1, <1>2, <1>3, <1>4, <1>5, <1>6, <1>7, <1>8, <1>9, <1>10, <1>11, <1>12, <1>13, CallbackCases
  DEF Next, Environment, Handler, Walks

(* The first pages of the walks, of the tier of the walk.                  *)
Cursors == {p \in Page : \E i \in Tier : node[p] = i /\ p = start[i]}

Distinct ==
    /\ Active \/ pc = "end" =>
          /\ Once(found, Cursors) /\ Once(backups["mem"], Cursors) /\ Once(backups["switch"], Cursors)
          /\ Apart(found, backups["mem"], Cursors) /\ Apart(found, backups["switch"], Cursors)
    /\ pc = "reply" => Once(found, Cursors)
    /\ Active => \A p \in Page :
          /\ node[p] = TierOf(walk)
          /\ Listed(p, found) \/ Listed(p, backups["mem"]) \/ Listed(p, backups["switch"])
          => p \in visited

LEMMA DistinctStep ==
    ASSUME Types, Place, Sorted, Behind, Distinct, [Next]_vars
    PROVE  Distinct'
<1> DEFINE C == Cursors
           mem == backups["mem"]
           switch == backups["switch"]
<1>0. /\ found \in Seq(Page \cup {Separator}) /\ Len(found) \in Nat
      /\ Here \in Page /\ Here \in Page \cup {Separator}
      /\ mem \in Seq(Page) /\ switch \in Seq(Page)
      /\ DOMAIN backups = {"mem", "switch"} /\ TierOf(walk) \in Tier
  BY Legs, Now DEF Types, Here, Page
<1>a. ASSUME UNCHANGED <<node, walk, start, found, backups, visited>>, pc' = pc \/ (Active /\ pc' # "reply")
      PROVE  Distinct'
  <2>1. Cursors' = Cursors
    BY <1>a DEF Cursors
  <2> QED
    BY <1>a, <2>1 DEF Distinct, Listed, Active
<1>1. ASSUME NEW q \in Proc, Exit(q) PROVE Distinct'
  BY <1>1, <1>a DEF Exit, request, lists, history
<1>2. ASSUME NEW p \in Page, Move(p) PROVE Distinct'
  BY <1>2 DEF Move, Distinct, Active
<1>3. ASSUME NEW m \in Mode, NEW n \in Count, Receive(m, n) PROVE Distinct'
  <2>1. pc' = "leg" /\ found' = << >> /\ backups'["mem"] = << >> /\ backups'["switch"] = << >>
    BY <1>3 DEF Receive, Walking, Place
  <2>2. Len(found') = 0 /\ Len(backups'["mem"]) = 0 /\ Len(backups'["switch"]) = 0
    BY <2>1
  <2> QED
    BY <2>1, <2>2 DEF Distinct, Once, Apart, Listed
<1>4. CASE BeginLeg
  BY <1>4, <1>a DEF BeginLeg, request, lists, history, Active
<1>5. CASE StopFull
  BY <1>5, <1>a DEF StopFull, request, lists, history, Active
<1>6. CASE Collects
  <2>1. /\ pc = "pte" /\ NextPte /\ UNCHANGED <<node, mode, walk, start, leg>>
        /\ walk \in {"mem", "force", "write", "intensive", "switch"}
        /\ visited' = visited \cup {Here}
        /\ \/ Passes
           \/ node[Here] = TierOf(walk) /\ (Taken \/ Deferred \/ Enough)
    BY <1>6, Collected
  <2>2. pc' \in {"pte", "over"} /\ Cursors' = C
    BY <2>1, NextInLeg DEF Cursors
  <2>3. /\ Once(found, C) /\ Once(mem, C) /\ Once(switch, C)
        /\ Apart(found, mem, C) /\ Apart(found, switch, C)
        /\ \A p \in Page :
              /\ node[p] = TierOf(walk)
              /\ Listed(p, found) \/ Listed(p, mem) \/ Listed(p, switch)
              => p \in visited
    BY <2>1 DEF Distinct, Active
  <2>4. CASE UNCHANGED <<found, backups>>
    BY <2>1, <2>2, <2>3, <2>4 DEF Distinct
  <2>5. ASSUME node[Here] = TierOf(walk), Listed(Here, found) \/ Listed(Here, mem) \/ Listed(Here, switch)
        PROVE  Here \in C
    <3>1. Here \in visited
      BY <1>0, <2>3, <2>5
    <3>2. Here = start[TierOf(walk)]
      BY <2>1, <3>1, Again
    <3> QED
      BY <1>0, <2>5, <3>2 DEF Cursors
  <2> HIDE DEF C
  <2>6. CASE node[Here] = TierOf(walk) /\ Taken
    <3>1. found' = Append(found, Here) /\ backups' = backups
      BY <2>6 DEF Taken
    <3>2. Once(found', C)
      BY <1>0, <2>3, <2>5, <2>6, <3>1, OnceAppend
    <3>3. Apart(found', mem, C) /\ Apart(found', switch, C)
      BY <1>0, <2>3, <2>5, <2>6, <3>1, ApartAppend
    <3>4. \A p \in Page : Listed(p, found') => p = Here \/ Listed(p, found)
      BY <1>0, <3>1, Filled DEF Listed
    <3> QED
      BY <2>1, <2>2, <2>3, <3>1, <3>2, <3>3, <3>4 DEF Distinct
  <2>7. CASE node[Here] = TierOf(walk) /\ Deferred
    <3>1. found' = found /\ backups' = [backups EXCEPT ![ListOf(walk)] = Append(@, Here)]
      BY <2>7 DEF Deferred
    <3>2. CASE ListOf(walk) = "mem"
      <4>1. backups'["mem"] = Append(mem, Here) /\ backups'["switch"] = switch
        BY <1>0, <3>1, <3>2
      <4>2. Once(backups'["mem"], C)
        BY <1>0, <2>3, <2>5, <2>7, <4>1, OnceAppend
      <4>3. Apart(found, backups'["mem"], C)
        BY <1>0, <2>3, <2>5, <2>7, <4>1, ApartAppend
      <4>4. \A p \in Page : Listed(p, backups'["mem"]) => p = Here \/ Listed(p, mem)
        <5>1. /\ Len(backups'["mem"]) = Len(mem) + 1 /\ backups'["mem"][Len(mem) + 1] = Here
              /\ \A k \in 1 .. Len(mem) : backups'["mem"][k] = mem[k]
          BY <1>0, <4>1, AppendProperties
        <5>2. \A k \in 1 .. Len(backups'["mem"]) : k = Len(mem) + 1 \/ k \in 1 .. Len(mem)
          BY <1>0, <5>1
        <5> QED
          BY <5>1, <5>2 DEF Listed
      <4> QED
        BY <2>1, <2>2, <2>3, <3>1, <4>1, <4>2, <4>3, <4>4 DEF Distinct
    <3>3. CASE ListOf(walk) = "switch"
      <4>1. backups'["switch"] = Append(switch, Here) /\ backups'["mem"] = mem
        BY <1>0, <3>1, <3>3
      <4>2. Once(backups'["switch"], C)
        BY <1>0, <2>3, <2>5, <2>7, <4>1, OnceAppend
      <4>3. Apart(found, backups'["switch"], C)
        BY <1>0, <2>3, <2>5, <2>7, <4>1, ApartAppend
      <4>4. \A p \in Page : Listed(p, backups'["switch"]) => p = Here \/ Listed(p, switch)
        <5>1. /\ Len(backups'["switch"]) = Len(switch) + 1 /\ backups'["switch"][Len(switch) + 1] = Here
              /\ \A k \in 1 .. Len(switch) : backups'["switch"][k] = switch[k]
          BY <1>0, <4>1, AppendProperties
        <5>2. \A k \in 1 .. Len(backups'["switch"]) : k = Len(switch) + 1 \/ k \in 1 .. Len(switch)
          BY <1>0, <5>1
        <5> QED
          BY <5>1, <5>2 DEF Listed
      <4> QED
        BY <2>1, <2>2, <2>3, <3>1, <4>1, <4>2, <4>3, <4>4 DEF Distinct
    <3> QED
      BY <3>2, <3>3 DEF ListOf
  <2> QED
    BY <2>1, <2>4, <2>6, <2>7 DEF Passes, Enough
<1>7. CASE pte_callback_nvram_clear
  <2>1. /\ pc = "pte" /\ walk = "clear" /\ NextPte /\ visited' = visited \cup {Here}
        /\ UNCHANGED <<node, walk, start, leg, found, backups>>
    BY <1>7 DEF pte_callback_nvram_clear, request, lists
  <2>2. pc' \in {"pte", "over"} /\ Cursors' = C
    BY <2>1, NextInLeg DEF Cursors
  <2> QED
    BY <2>1, <2>2 DEF Distinct, Active
<1>8. CASE EndLeg
  <2>1. /\ pc = "over" /\ UNCHANGED <<node, walk, start, found, backups, visited>>
        /\ pc' \in {"leg", "end", "reply"}
    BY <1>8 DEF EndLeg, request, lists, history
  <2>2. Cursors' = C
    BY <2>1 DEF Cursors
  <2> QED
    BY <2>1, <2>2 DEF Distinct, Active
<1>9. CASE MemEnd
  <2> DEFINE short == n_to_find - Len(found)
             k == IntMin(short, Len(backups.mem))
             extra == SubSeq(backups.mem, 1, k)
  <2>1. /\ pc = "end" /\ pc' = "reply" /\ start' = start /\ node' = node
        /\ found' = IF short > 0 THEN found \o extra ELSE found
    BY <1>9 DEF MemEnd
  <2>2. Once(found, C) /\ Once(mem, C) /\ Apart(found, mem, C) /\ Cursors' = C
    BY <2>1 DEF Distinct, Cursors
  <2>3. short > 0 => k \in 0 .. Len(mem)
    BY <1>0 DEF Types, IntMin
  <2> HIDE DEF C, short, k
  <2>4. ASSUME short > 0 PROVE Once(found \o extra, C)
    <3>1. PICK e \in Seq(Page) : e = extra /\ Once(e, C) /\ Apart(found, e, C)
      BY <1>0, <2>2, <2>3, <2>4, OncePrefix
    <3>2. e \in Seq(Page \cup {Separator})
      BY <3>1
    <3>3. Once(found \o e, C)
      BY <1>0, <2>2, <3>1, <3>2, OnceJoin
    <3> QED
      BY <3>1, <3>3
  <2>5. Once(found', C)
    BY <2>1, <2>2, <2>4
  <2> QED
    BY <2>1, <2>2, <2>5 DEF Distinct, Active
<1>10. CASE SwitchTurn
  <2>1. /\ pc = "end" /\ walk = "switch" /\ mode = "SWITCH_MODE" /\ node' = node
        /\ found' = Append(found, Separator)
    BY <1>10, Modes DEF SwitchTurn, Place
  <2>2. found \in Seq(In("NVRAM")) /\ switch \in Seq(In("NVRAM"))
    BY <2>1 DEF Sorted
  <2>3. (\A i \in 1 .. Len(found) : found[i] \in In("NVRAM"))
        /\ (\A i \in 1 .. Len(switch) : switch[i] \in In("NVRAM"))
    BY <2>2, ElementOfSeq
  <2>4. Separator \notin Page /\ \A p \in In("NVRAM") : p # Separator /\ p \in Page /\ node[p] = "NVRAM"
    BY SeparatorIsNoPage DEF In
  <2>5. CASE pc' = "reply" /\ Len(found) = 0
    <3>1. Len(found') = 1
      BY <1>0, <2>1, <2>5, AppendProperties
    <3> QED
      BY <2>5, <3>1 DEF Distinct, Active, Once
  <2>6. CASE /\ pc' = "leg" /\ walk' = "mem" /\ backups' = [backups EXCEPT !.mem = << >>] /\ visited' = {}
             /\ start' = [start EXCEPT !["DRAM"] = <<last_pid["DRAM"], last_addr["DRAM"]>>]
    <3>1. /\ backups'["mem"] = << >> /\ backups'["switch"] = switch
          /\ start'["NVRAM"] = start["NVRAM"]
      BY <1>0, <2>6 DEF Types, Tier
    <3>2. \A p \in In("NVRAM") : p \in C => p \in Cursors'
      BY <2>1, <2>4, <3>1 DEF Cursors, Tier
    <3>3. Once(found, C) /\ Once(switch, C) /\ Apart(found, switch, C)
      BY <2>1 DEF Distinct
    <3>4. Once(found, Cursors') /\ Once(switch, Cursors') /\ Apart(found, switch, Cursors')
      BY <2>3, <3>2, <3>3 DEF Once, Apart
    <3>5. ~Listed(Separator, found) /\ ~Listed(Separator, switch)
      BY <2>3, <2>4 DEF Listed
    <3>6. Once(found', Cursors')
      <4>1. PICK c : c = Cursors'
        OBVIOUS
      <4>2. Once(Append(found, Separator), c)
        BY <1>0, <3>4, <3>5, <4>1, OnceAppend
      <4> QED
        BY <2>1, <4>1, <4>2
    <3>7. Apart(found', switch, Cursors')
      <4>1. PICK c : c = Cursors'
        OBVIOUS
      <4>2. Apart(Append(found, Separator), switch, c)
        BY <1>0, <3>4, <3>5, <4>1, ApartAppend
      <4> QED
        BY <2>1, <4>1, <4>2
    <3>8. Once(backups'["mem"], Cursors') /\ Apart(found', backups'["mem"], Cursors')
      <4>1. Len(backups'["mem"]) = 0
        BY <3>1
      <4> QED
        BY <4>1 DEF Once, Apart
    <3>9. ASSUME NEW p \in Page, node'[p] = TierOf(walk'),
                 Listed(p, found') \/ Listed(p, backups'["mem"]) \/ Listed(p, backups'["switch"])
          PROVE  FALSE
      <4>1. node[p] = "DRAM"
        BY <2>1, <2>6, <3>9 DEF TierOf
      <4>2. ~Listed(p, backups'["mem"])
        <5>1. Len(backups'["mem"]) = 0
          BY <3>1
        <5> QED
          BY <5>1 DEF Listed
      <4>3. ~Listed(p, switch) /\ ~Listed(p, found)
        BY <2>3, <2>4, <4>1 DEF Listed
      <4>4. Listed(p, found') => p = Separator \/ Listed(p, found)
        <5>1. /\ Len(found') = Len(found) + 1 /\ found'[Len(found) + 1] = Separator
              /\ \A k \in 1 .. Len(found) : found'[k] = found[k]
          BY <1>0, <2>1, AppendProperties
        <5>2. \A k \in 1 .. Len(found') : k = Len(found) + 1 \/ k \in 1 .. Len(found)
          BY <1>0, <5>1
        <5> QED
          BY <5>1, <5>2 DEF Listed
      <4> QED
        BY <2>4, <3>1, <3>9, <4>2, <4>3, <4>4
    <3> QED
      BY <2>6, <3>1, <3>4, <3>6, <3>7, <3>8, <3>9 DEF Distinct
  <2> QED
    BY <1>10, <2>5, <2>6 DEF SwitchTurn, Walking, TierOf
<1>11. CASE SwitchEnd
  <2> DEFINE s == CHOOSE k \in 1 .. Len(found) : found[k] = Separator
             n == SubSeq(found, 1, s - 1)
             d == SubSeq(found, s + 1, Len(found))
             NV == In("NVRAM")
             DR == In("DRAM")
  <2>1. /\ pc = "end" /\ mode = "SWITCH_MODE" /\ walk = "mem"
        /\ found' = Pairs(n, d, switch, mem) /\ pc' = "reply"
        /\ UNCHANGED <<node, start>>
    BY <1>11 DEF SwitchEnd
  <2>2. /\ s \in 1 .. Len(found) /\ n \in Seq(NV) /\ d \in Seq(DR)
        /\ switch \in Seq(NV) /\ mem \in Seq(DR)
    BY <2>1, Parts
  <2>3. /\ Once(found, C) /\ Once(mem, C) /\ Once(switch, C)
        /\ Apart(found, mem, C) /\ Apart(found, switch, C) /\ Cursors' = C
    BY <2>1 DEF Distinct, Cursors
  <2> HIDE DEF C, s
  <2>4. PICK j \in Int, k \in Int, l \in Int : j = s - 1 /\ k = s + 1 /\ l = Len(found)
    BY <1>0, <2>2
  <2>5. PICK e : e = n /\ Len(e) = j /\ \A i \in 1 .. j : e[i] = found[i] /\ i \in 1 .. Len(found)
    <3>1. \A i \in 1 .. j : found[i] \in Page \cup {Separator} /\ i \in 1 .. Len(found)
      BY <1>0, <2>2, <2>4
    <3>2. /\ Len(SubSeq(found, 1, j)) = IF 1 <= j THEN (j - 1) + 1 ELSE 0
          /\ \A i \in 1 .. (j - 1) + 1 : SubSeq(found, 1, j)[i] = found[(1 + i) - 1]
      BY <3>1, SubSeqProperties
    <3>3. j \in Nat
      BY <1>0, <2>2, <2>4
    <3>4. Len(SubSeq(found, 1, j)) = j /\ \A i \in 1 .. j : SubSeq(found, 1, j)[i] = found[i]
      BY <3>2, <3>3
    <3> QED
      BY <2>4, <3>1, <3>4, Zenon
  <2>6. PICK f : /\ f = d /\ Len(f) = l - s /\ \A i \in 1 .. l - s : f[i] = found[s + i]
                 /\ \A i \in 1 .. l - s : s + i \in 1 .. Len(found)
    <3>1. \A i \in k .. l : found[i] \in Page \cup {Separator}
      BY <1>0, <2>2, <2>4
    <3>2. /\ Len(SubSeq(found, k, l)) = IF k <= l THEN (l - k) + 1 ELSE 0
          /\ \A i \in 1 .. (l - k) + 1 : SubSeq(found, k, l)[i] = found[(k + i) - 1]
      BY <3>1, SubSeqProperties
    <3>3. (l - k) + 1 = l - s /\ l - s \in Nat /\ \A i \in 1 .. l - s : (k + i) - 1 = s + i
      BY <1>0, <2>2, <2>4
    <3>4. Len(SubSeq(found, k, l)) = l - s /\ \A i \in 1 .. l - s : SubSeq(found, k, l)[i] = found[s + i]
      <4>1. Len(SubSeq(found, k, l)) = l - s
        <5>1. IF k <= l THEN (l - k) + 1 = l - s ELSE 0 = l - s
          BY <1>0, <2>2, <2>4
        <5> QED
          BY <3>2, <5>1
      <4>2. ASSUME NEW i \in 1 .. l - s PROVE SubSeq(found, k, l)[i] = found[s + i]
        <5>1. i \in 1 .. (l - k) + 1 /\ (k + i) - 1 = s + i
          BY <3>3
        <5> QED
          BY <3>2, <5>1, Zenon
      <4> QED
        BY <4>1, <4>2
    <3>5. \A i \in 1 .. l - s : s + i \in 1 .. Len(found)
      BY <1>0, <2>2, <2>4
    <3> QED
      BY <2>4, <3>4, <3>5, Zenon
  <2> HIDE DEF n, d, NV, DR
  <2>7. Once(e, C) /\ Apart(e, switch, C)
    BY <2>3, <2>5 DEF Once, Apart
  <2>8. Once(f, C) /\ Apart(f, mem, C)
    <3>1. \A i, g \in 1 .. l - s : i # g => s + i # s + g
      BY <1>0, <2>2, <2>4
    <3>2. ASSUME NEW i \in 1 .. l - s, NEW g \in 1 .. l - s, i # g, f[i] = f[g]
          PROVE  f[i] \in C
      <4>1. s + i # s + g /\ s + i \in 1 .. Len(found) /\ s + g \in 1 .. Len(found)
        BY <2>6, <3>1, <3>2
      <4>2. f[i] = found[s + i] /\ f[g] = found[s + g]
        BY <2>6
      <4> QED
        BY <2>3, <3>2, <4>1, <4>2, Zenon DEF Once
    <3>3. ASSUME NEW i \in 1 .. l - s, NEW g \in 1 .. Len(mem), f[i] = mem[g]
          PROVE  f[i] \in C
      <4>1. s + i \in 1 .. Len(found) /\ f[i] = found[s + i]
        BY <2>6
      <4> QED
        BY <2>3, <3>3, <4>1, Zenon DEF Apart
    <3> QED
      BY <2>6, <3>2, <3>3, Zenon DEF Once, Apart
  <2>9. NV \cap DR = {} /\ Separator \notin NV \cup DR
    BY SeparatorIsNoPage DEF NV, DR, In
  <2>10. Once(found', C)
    BY <2>1, <2>2, <2>3, <2>5, <2>6, <2>7, <2>8, <2>9, OncePairs
  <2> QED
    BY <2>1, <2>3, <2>10 DEF Distinct, Active
<1>12. CASE Reply
  BY <1>12 DEF Reply, Distinct, Active
<1>13. CASE UNCHANGED vars
  BY <1>13, <1>a DEF vars, request, lists, history
<1> QED
  BY <1>1, <1>2, <1>3, <1>4, <1>5, <1>6, <1>7, <1>8, <1>9, <1>10, <1>11, <1>12, <1>13, CallbackCases
  DEF Next, Environment, Handler, Walks

(* A page can be reported twice in one reply only as the page its cursor was
   at: the walk begins and ends with it.                                   *)
THEOREM OnlyCursorTwice == Spec => []TwiceOnlyAtCursor
<1>1. Init => Behind /\ Distinct
  BY DEF Init, Behind, Distinct, Active
<1>2. WInv /\ Sorted /\ Behind /\ Distinct /\ [Next]_vars => Behind' /\ Distinct'
  BY BehindStep, DistinctStep DEF WInv
<1>3. Distinct => TwiceOnlyAtCursor
  BY DEF Distinct, TwiceOnlyAtCursor, Once, Cursors
<1> QED
  BY <1>1, <1>2, <1>3, WInvariant, SortedAlways, PTL DEF Spec

-----------------------------------------------------------------------------
(* Why a request ends.  What the handler has left is counted three deep: the
   stages of the request, of which a switch has two walks and the others one,
   the legs of the walk, and the PTEs of the leg.                          *)
WalkStage ==
    CASE pc = "idle" -> 0
      [] pc \in {"reply", "oops"} -> 1
      [] pc = "end" -> IF walk = "switch" THEN 4 ELSE 2
      [] OTHER -> IF walk = "switch" THEN 5 ELSE 3

LegsLeft == IF Active THEN LastLeg - leg ELSE 0

PtesLeft ==
    CASE pc = "leg" -> LAST + 2
      [] pc = "pte" -> LAST + 1 - addr
      [] OTHER -> 0

WorkMeasured == WalkStage \in 0 .. 5 /\ LegsLeft \in 0 .. n_pids /\ PtesLeft \in 0 .. LAST + 2

(* The next stage; or the next leg; or the next PTE.                       *)
WorkFalls ==
    \/ WalkStage' < WalkStage
    \/ WalkStage' = WalkStage /\ LegsLeft' < LegsLeft
    \/ WalkStage' = WalkStage /\ LegsLeft' = LegsLeft /\ PtesLeft' < PtesLeft

LEMMA StageIs ==
    /\ pc = "idle" => WalkStage = 0
    /\ pc \in {"reply", "oops"} => WalkStage = 1
    /\ pc = "end" => WalkStage = IF walk = "switch" THEN 4 ELSE 2
    /\ Active => WalkStage = IF walk = "switch" THEN 5 ELSE 3
BY DEF WalkStage, Active

LEMMA StageWillBe ==
    /\ pc' = "idle" => WalkStage' = 0
    /\ pc' \in {"reply", "oops"} => WalkStage' = 1
    /\ pc' = "end" => WalkStage' = IF walk' = "switch" THEN 4 ELSE 2
    /\ Active' => WalkStage' = IF walk' = "switch" THEN 5 ELSE 3
BY DEF WalkStage, Active

LEMMA PtesAre ==
    /\ pc = "leg" => PtesLeft = LAST + 2
    /\ pc = "pte" => PtesLeft = LAST + 1 - addr
    /\ pc \notin {"leg", "pte"} => PtesLeft = 0
BY DEF PtesLeft

LEMMA PtesWillBe ==
    /\ pc' = "leg" => PtesLeft' = LAST + 2
    /\ pc' = "pte" => PtesLeft' = LAST + 1 - addr'
    /\ pc' \notin {"leg", "pte"} => PtesLeft' = 0
BY DEF PtesLeft

LEMMA WorkIsMeasured ==
    ASSUME Types, Place
    PROVE  WorkMeasured
<1>1. LAST \in Nat /\ addr \in 0 .. LAST /\ n_pids \in Nat \ {0} /\ leg \in 0 .. n_pids
  BY SizeAssumption DEF Types, Addr
<1>2. PtesLeft \in 0 .. LAST + 2
  BY <1>1, PtesAre
<1>3. LegsLeft \in 0 .. n_pids
  <2>1. LastLeg \in 0 .. n_pids
    BY <1>1 DEF LastLeg
  <2>2. Active => leg <= LastLeg
    BY DEF Place
  <2> QED
    BY <1>1, <2>1, <2>2 DEF LegsLeft
<1>4. WalkStage \in 0 .. 5
  BY StageIs DEF Types, Active
<1> QED
  BY <1>2, <1>3, <1>4 DEF WorkMeasured

(* A callback stays in the leg.                                            *)
LEMMA CallbackFalls ==
    ASSUME Types, Place, Types', pc = "pte", UNCHANGED <<walk, start, leg>>,
           pc' = "over" \/ (pc' = "pte" /\ addr' = addr + 1)
    PROVE  WorkFalls
<1>1. LAST \in Nat /\ addr \in 0 .. LAST /\ addr' \in 0 .. LAST
  BY SizeAssumption DEF Types, Addr
<1>2. Active /\ Active'
  BY DEF Active
<1>3. WalkStage' = WalkStage
  BY <1>2, StageIs, StageWillBe
<1>4. LegsLeft' = LegsLeft
  BY <1>2, Steady DEF LegsLeft
<1>5. PtesLeft = LAST + 1 - addr
  BY PtesAre
<1>6. PtesLeft' < PtesLeft
  <2>1. CASE pc' = "over"
    <3>1. PtesLeft' = 0
      BY <2>1, PtesWillBe
    <3> QED
      BY <1>1, <1>5, <3>1
  <2>2. CASE pc' = "pte" /\ addr' = addr + 1
    <3>1. PtesLeft' = LAST + 1 - addr'
      BY <2>2, PtesWillBe
    <3> QED
      BY <1>1, <1>5, <2>2, <3>1
  <2> QED
    BY <2>1, <2>2
<1> QED
  BY <1>3, <1>4, <1>6 DEF WorkFalls

LEMMA HandlerFalls ==
    ASSUME Types, Place, Types', Handler
    PROVE  WorkFalls
<1>1. CASE BeginLeg
  <2>1. /\ pc = "leg" /\ pc' \in {"pte", "over", "oops"} /\ UNCHANGED <<walk, start, leg>>
    BY <1>1 DEF BeginLeg, request
  <2>2. Active /\ PtesLeft = LAST + 2 /\ LAST \in Nat /\ addr' \in 0 .. LAST
    BY <2>1, PtesAre, SizeAssumption DEF Active, Types, Addr
  <2>3. CASE pc' = "oops"
    BY <2>2, <2>3, StageIs, StageWillBe DEF WorkFalls
  <2>4. CASE pc' \in {"pte", "over"}
    <3>1. Active'
      BY <2>4 DEF Active
    <3>2. WalkStage' = WalkStage
      BY <2>1, <2>2, <3>1, StageIs, StageWillBe
    <3>3. LegsLeft' = LegsLeft
      BY <2>1, <2>2, <3>1, Steady DEF LegsLeft
    <3>4. PtesLeft' < PtesLeft
      BY <2>2, <2>4, PtesWillBe
    <3> QED
      BY <3>2, <3>3, <3>4 DEF WorkFalls
  <2> QED
    BY <2>1, <2>3, <2>4
<1>2. CASE StopFull
  <2>1. pc = "pte" /\ pc' = "over" /\ UNCHANGED <<walk, start, leg>>
    BY <1>2 DEF StopFull, request
  <2> QED
    BY <2>1, CallbackFalls
<1>3. CASE Collects \/ pte_callback_nvram_clear
  <2>1. pc = "pte" /\ NextPte /\ UNCHANGED <<walk, start, leg>>
    BY <1>3, Collected DEF pte_callback_nvram_clear, request
  <2>2. pc' = "over" \/ (pc' = "pte" /\ addr' = addr + 1)
    BY <2>1, NextInLeg
  <2> QED
    BY <2>1, <2>2, CallbackFalls
<1>4. CASE EndLeg
  <2>1. /\ pc = "over" /\ UNCHANGED <<walk, start>>
        /\ \/ pc' = "leg" /\ leg' = leg + 1
           \/ pc' \in {"reply", "end"}
    BY <1>4 DEF EndLeg, request
  <2>2. Active
    BY <2>1 DEF Active
  <2>3. CASE pc' = "leg" /\ leg' = leg + 1
    <3>1. Active'
      BY <2>3 DEF Active
    <3>2. WalkStage' = WalkStage
      BY <2>1, <2>2, <3>1, StageIs, StageWillBe
    <3>3. LastLeg' = LastLeg /\ LastLeg \in Int /\ leg \in Int
      BY <2>1, Steady, SizeAssumption DEF LastLeg, Types
    <3>4. LegsLeft' < LegsLeft
      BY <2>2, <2>3, <3>1, <3>3 DEF LegsLeft
    <3> QED
      BY <3>2, <3>4 DEF WorkFalls
  <2>4. CASE pc' \in {"reply", "end"}
    BY <2>1, <2>2, <2>4, StageIs, StageWillBe DEF WorkFalls
  <2> QED
    BY <2>1, <2>3, <2>4
<1>5. CASE MemEnd \/ SwitchEnd
  <2>1. pc = "end" /\ pc' = "reply"
    BY <1>5 DEF MemEnd, SwitchEnd
  <2> QED
    BY <2>1, StageIs, StageWillBe DEF WorkFalls
<1>6. CASE SwitchTurn
  <2>1. /\ pc = "end" /\ walk = "switch"
        /\ pc' = "reply" \/ (pc' = "leg" /\ walk' = "mem")
    BY <1>6 DEF SwitchTurn, Walking
  <2> QED
    BY <2>1, StageIs, StageWillBe DEF WorkFalls, Active
<1>7. CASE Reply
  <2>1. pc = "reply" /\ pc' = "idle"
    BY <1>7 DEF Reply
  <2> QED
    BY <2>1, StageIs, StageWillBe DEF WorkFalls
<1> QED
  BY <1>1, <1>2, <1>3, <1>4, <1>5, <1>6, <1>7, CallbackCases DEF Handler, Walks

(* A FIND costs the handler a bounded number of steps wherever the cursors
   are, and nothing that goes on beside it adds to what is left: a process
   that exits only lets its legs be skipped, and pages move in between.    *)
THEOREM WalksEnd ==
    Spec => /\ []WorkMeasured
            /\ [][ /\ Handler => WorkFalls
                   /\ Environment => UNCHANGED <<WalkStage, LegsLeft, PtesLeft>> ]_vars
<1>1. WInv => WorkMeasured
  BY WorkIsMeasured DEF WInv
<1>2. WInv /\ WInv' /\ [Next]_vars =>
        [ /\ Handler => WorkFalls
          /\ Environment => UNCHANGED <<WalkStage, LegsLeft, PtesLeft>> ]_vars
  <2> SUFFICES ASSUME WInv, WInv'
               PROVE  /\ Handler => WorkFalls
                      /\ Environment => UNCHANGED <<WalkStage, LegsLeft, PtesLeft>>
    OBVIOUS
  <2>1. Handler => WorkFalls
    BY HandlerFalls DEF WInv
  <2>2. ASSUME Environment PROVE UNCHANGED <<WalkStage, LegsLeft, PtesLeft>>
    <3>1. UNCHANGED <<pc, walk, start, leg, addr>>
      BY <2>2 DEF Environment, Exit, Move, request
    <3> QED
      BY <3>1, Steady DEF WalkStage, LegsLeft, PtesLeft, Active
  <2> QED
    BY <2>1, <2>2
<1> QED
  BY <1>1, <1>2, WInvariant, PTL DEF Spec
=============================================================================
