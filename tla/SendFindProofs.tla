-------------------------- MODULE SendFindProofs --------------------------
(***************************************************************************)
(* Proofs about SendFind, for any pages, nodes and message sizes: the      *)
(* exchange is the one of NetlinkReply, and what do_migration and          *)
(* do_switch make of the reply they read.                                  *)
(***************************************************************************)
EXTENDS SendFind, NetlinkReplyProofs, FiniteSetTheorems, FunctionTheorems, SequenceTheorems

-----------------------------------------------------------------------------
(* The replies of the module.                                              *)

(* A reply is pages, and an entry without a process after them; in a switch
   the same twice.                                                         *)
IsReply(r, m, h) ==
    /\ r \in Seq(Page \cup {End})
    /\ Len(r) = IF m = "SWITCH_MODE" THEN 2 * h + 2 ELSE h + 1
    /\ \A k \in 1 .. h : r[k] \in Page
    /\ r[h + 1] = End
    /\ m = "SWITCH_MODE" => \A k \in h + 2 .. 2 * h + 1 : r[k] \in Page

LEMMA Limits == MAX_N_FIND \in Nat /\ MAX_N_SWITCH \in Nat /\ 2 * MAX_N_SWITCH + 2 <= MAX_N_FIND + 1
<1>1. MAX_N_FIND \in Nat /\ MAX_N_FIND >= 1
  BY PacketAssumption DEF MAX_N_FIND
<1> QED
  BY <1>1 DEF MAX_N_SWITCH

(* A list is pages and End behind them.                                    *)
LEMMA ListShape ==
    ASSUME NEW h \in Nat, NEW a \in List(h)
    PROVE  /\ a \in Seq(Page \cup {End}) /\ Len(a) = h + 1
           /\ \A k \in 1 .. h : a[k] \in Page
           /\ a[h + 1] = End
<1>1. PICK p \in [1 .. h -> Page] : a = p \o <<End>>
  BY DEF List, TupleOf
<1>2. p \in Seq(Page \cup {End}) /\ Len(p) = h
  OBVIOUS
<1>3. \A k \in 1 .. h : p[k] \in Page
  OBVIOUS
<1> QED
  BY <1>1, <1>2, <1>3

LEMMA ReplyShape ==
    ASSUME NEW m \in {"DRAM_MODE", "NVRAM_MODE", "SWITCH_MODE"}, NEW r \in ReplyTo(m)
    PROVE  /\ Len(r) \in ReplyLength
           /\ \E h \in Nat : IsReply(r, m, h)
<1>1. CASE m = "SWITCH_MODE"
  <2>1. PICK h \in 0 .. MAX_N_SWITCH : r \in { s[1] \o s[2] : s \in List(h) \X List(h) }
    BY <1>1 DEF ReplyTo
  <2>2. PICK s \in List(h) \X List(h) : r = s[1] \o s[2]
    BY <2>1
  <2>3. h \in Nat
    BY Limits
  <2> DEFINE a == s[1]
             b == s[2]
  <2>4. /\ a \in Seq(Page \cup {End}) /\ Len(a) = h + 1
        /\ \A k \in 1 .. h : a[k] \in Page
        /\ a[h + 1] = End
    BY <2>3, ListShape
  <2>5. /\ b \in Seq(Page \cup {End}) /\ Len(b) = h + 1
        /\ \A k \in 1 .. h : b[k] \in Page
        /\ b[h + 1] = End
    BY <2>3, ListShape
  <2> HIDE DEF a, b
  <2>6. /\ r \in Seq(Page \cup {End}) /\ Len(r) = 2 * h + 2
        /\ \A k \in 1 .. 2 * h + 2 : r[k] = IF k <= h + 1 THEN a[k] ELSE b[k - (h + 1)]
    <3>1. r = a \o b
      BY <2>2 DEF a, b
    <3>2. /\ r \in Seq(Page \cup {End}) /\ Len(r) = Len(a) + Len(b)
          /\ \A k \in 1 .. Len(a) + Len(b) : r[k] = IF k <= Len(a) THEN a[k] ELSE b[k - Len(a)]
      BY <2>4, <2>5, <3>1, ConcatProperties
    <3>3. Len(a) + Len(b) = 2 * h + 2
      BY <2>3, <2>4, <2>5
    <3> QED
      BY <2>4, <3>2, <3>3
  <2>7. \A k \in 1 .. h : r[k] \in Page
    BY <2>3, <2>4, <2>6
  <2>8. r[h + 1] = End
    BY <2>3, <2>4, <2>6
  <2>9. \A k \in h + 2 .. 2 * h + 1 : r[k] \in Page
    <3> SUFFICES ASSUME NEW k \in h + 2 .. 2 * h + 1 PROVE r[k] \in Page
      OBVIOUS
    <3>1. k - (h + 1) \in 1 .. h /\ k \in 1 .. 2 * h + 2 /\ ~(k <= h + 1)
      BY <2>3
    <3> QED
      BY <2>5, <2>6, <3>1
  <2>10. IsReply(r, m, h)
    BY <1>1, <2>6, <2>7, <2>8, <2>9 DEF IsReply
  <2> QED
    BY <2>3, <2>6, <2>10 DEF ReplyLength
<1>2. CASE m # "SWITCH_MODE"
  <2>1. PICK h \in 0 .. MAX_N_FIND : r \in List(h)
    BY <1>2 DEF ReplyTo
  <2>2. h \in Nat
    BY Limits
  <2>3. IsReply(r, m, h) /\ Len(r) = h + 1
    BY <1>2, <2>1, <2>2, ListShape DEF IsReply
  <2> QED
    BY <2>2, <2>3 DEF ReplyLength
<1> QED
  BY <1>1, <1>2

-----------------------------------------------------------------------------
(* SendFind goes on where an exchange of NetlinkReply ends.                *)

LEMMA ReplyStart == Init => ReplyInit
<1> SUFFICES ASSUME Init PROVE ReplyInit
  OBVIOUS
<1>1. mode \in {"DRAM_MODE", "NVRAM_MODE", "SWITCH_MODE"}
  BY NodeAssumption DEF Init
<1>2. PICK r \in ReplyTo(mode) :
         /\ n_found = Len(r)
         /\ found_addrs = [k \in Slot |-> IF k < Len(r) THEN r[k + 1] ELSE Stale]
  BY DEF Init
<1>3. n_found \in ReplyLength /\ r \in Seq(Page \cup {End})
  BY <1>1, <1>2, ReplyShape DEF IsReply
<1>4. Stale \in Page
  BY NodeAssumption DEF Stale
<1>5. \A k \in Slot : k < Len(r) => k + 1 \in 1 .. Len(r)
  BY <1>3, Elements
<1>6. \A k \in Slot : k < Len(r) => r[k + 1] \in Page \cup {End}
  BY <1>3, <1>5
<1>7. Page \cup {End} \subseteq Entry
  BY NodeAssumption
<1>8. found_addrs \in [Slot -> Entry]
  BY <1>2, <1>4, <1>6, <1>7
<1>9. candidates \in [Slot -> Entry]
  BY <1>4, <1>7 DEF Init
<1> QED
  BY <1>3, <1>8, <1>9 DEF Init, ReplyInit

LEMMA ReplyStep == [Next]_vars => [ReplyNext]_replyVars
BY DEF Next, vars, replyVars, Migration, Count, Assign, BeginBatches, NoRoom, Batch,
       Migrated, HalfMigrated, OtherHalf, NextPass, Switched, BeginHalf

(* send_find and the module exchange a reply as NetlinkReply describes, and
   what follows leaves it alone.                                           *)
THEOREM ExchangesReply == Spec => ReplySpec
BY ReplyStart, ReplyStep, PTL DEF Spec, ReplySpec

(* When send_find counts, candidates holds the reply of its own request.   *)
THEOREM OwnReplyDelivered == Spec => []Delivered
BY ExchangesReply, ReplyDelivered, PTL

(* Neither array is left, by any reply of a FIND.                          *)
THEOREM ReplyFitsArrays == Spec => []ArraysHoldReply
BY ExchangesReply, ArraysSuffice, PTL

-----------------------------------------------------------------------------
(* The inductive invariant of what follows the reply.                      *)

PageAddr == {p.addr : p \in Page}

FindTypes ==
    /\ mode \in {"DRAM_MODE", "NVRAM_MODE", "SWITCH_MODE"}
    /\ step \in {"send_req", "assign", "batch", "half", "done"}
    /\ tier \in Tier /\ count \in Nat
    /\ addr \in [Tier -> Seq(PageAddr)]
    /\ processed \in [Tier -> Nat]
    /\ \A t \in Tier : processed[t] <= count /\ Len(addr[t]) = processed[t]
    /\ e \in [Tier -> Nat] /\ result \in Int
    /\ node_i \in Nat /\ n_migrated \in Nat /\ last_read \in Nat
    /\ old_n_processed \in Nat /\ old_n_processed <= processed[tier]
    /\ step = "batch" => n_migrated <= processed[tier]

(* Until the reply is counted nothing has happened.                        *)
Untouched ==
    /\ at # "count" => step = "send_req"
    /\ step = "send_req" =>
          /\ count = 0 /\ result = 0 /\ sent = {} /\ accepted = {} /\ resumed = FALSE
          /\ \A t \in Tier : e[t] = 0

(* The reply in found_addrs: as IsReply, counted from 0.                   *)
Reply(h) ==
    /\ n_found = IF mode = "SWITCH_MODE" THEN 2 * h + 2 ELSE h + 1
    /\ \A k \in 0 .. h - 1 : found_addrs[k] \in Page
    /\ found_addrs[h] = End
    /\ mode = "SWITCH_MODE" => \A k \in h + 1 .. 2 * h : found_addrs[k] \in Page

(* Count found that number; the pages of both tiers are where Base says,
   and an entry of the reply is behind them.                               *)
Counted ==
    step # "send_req" =>
        \A t \in Tier :
            /\ Base(t) + count < n_found
            /\ \A k \in 0 .. count - 1 : candidates[Base(t) + k] \in Page

(* How many pages of a tier have been through a batch: those of a pass that
   is under way count as they are sent.                                    *)
Handled(t) ==
    IF t # tier \/ step \in {"half", "done"} THEN processed[t]
    ELSE IF step = "batch" /\ old_n_processed < n_migrated THEN n_migrated
    ELSE old_n_processed

Missed(t) == {k \in 0 .. Handled(t) - 1 : <<t, k>> \notin accepted}

(* A page that has been through a batch and was not accepted is in e.      *)
MissedCounted ==
    /\ accepted \subseteq Tier \X (0 .. count - 1)
    /\ \A t \in Tier : Cardinality(Missed(t)) <= e[t]

(* do_migration has one pass: a page is accepted or counted, once.         *)
OnePass ==
    mode # "SWITCH_MODE" =>
        /\ old_n_processed = 0
        /\ step # "half"
        /\ accepted \subseteq {tier} \X (0 .. Handled(tier) - 1)
        /\ Cardinality(accepted) + e[tier] = Handled(tier)

Excepted(t) == resumed /\ t = "DRAM"

(* addr goes with candidates, and what was sent is what is handled.        *)
AddrAligned ==
    \A t \in Tier : ~Excepted(t) =>
        \A k \in 0 .. processed[t] - 1 : addr[t][k + 1] = candidates[Base(t) + k].addr

SentHandled ==
    /\ \A s \in sent : s[1] \in Tier
    /\ \A t \in Tier : ~Excepted(t) =>
          Sent(t) = {candidates[Base(t) + k] : k \in 0 .. Handled(t) - 1}

FInv ==
    /\ IInv /\ FindTypes /\ Untouched /\ Counted
    /\ \E h \in Nat : Reply(h)
    /\ MissedCounted /\ OnePass /\ AddrAligned /\ SentHandled
    /\ ReadsInReply /\ CountIsHonest

-----------------------------------------------------------------------------
(* The invariant is inductive.                                             *)

LEMMA Nodes == n_dram_nodes \in Nat /\ n_nvram_nodes \in Nat /\ \A t \in Tier : n_nodes(t) \in Nat
BY NodeAssumption DEF n_nodes, Tier

LEMMA PageFacts ==
    /\ End.pid = 0
    /\ \A p \in Page : p.pid \in Nat \ {0} /\ p = [pid |-> p.pid, addr |-> p.addr] /\ p.addr \in PageAddr
BY NodeAssumption DEF End, PageAddr

(* Sets of positions.                                                      *)
LEMMA FinitePairs ==
    ASSUME NEW T, IsFiniteSet(T), NEW n \in Nat, NEW S \in SUBSET (T \X (0 .. n - 1))
    PROVE  IsFiniteSet(S) /\ Cardinality(S) \in Nat
<1>1. IsFiniteSet(0 .. n - 1)
  <2>1. n - 1 \in Int /\ 0 \in Int
    OBVIOUS
  <2> QED
    BY <2>1, FS_Interval
<1>2. IsFiniteSet(T \X (0 .. n - 1))
  BY <1>1, FS_Product
<1>3. IsFiniteSet(S)
  BY <1>2, FS_Subset
<1> QED
  BY <1>3, FS_CardinalityType

At(t, K) == {<<t, k>> : k \in K}

LEMMA AsManyAt ==
    ASSUME NEW t, NEW K, IsFiniteSet(K)
    PROVE  IsFiniteSet(At(t, K)) /\ Cardinality(At(t, K)) = Cardinality(K)
<1> DEFINE f == [k \in K |-> <<t, k>>]
<1>1. f \in [K -> At(t, K)]
  BY DEF At
<1>2. \A a, b \in K : f[a] = f[b] => a = b
  OBVIOUS
<1>3. \A x \in At(t, K) : \E k \in K : f[k] = x
  BY DEF At
<1>4. f \in Bijection(K, At(t, K))
  <2> HIDE DEF f
  <2> QED
    BY <1>1, <1>2, <1>3, Fun_IsBij
<1>5. ExistsBijection(K, At(t, K))
  BY <1>4 DEF ExistsBijection
<1> QED
  BY <1>5, FS_Bijection

LEMMA FInvInit == Init => FInv
<1> SUFFICES ASSUME Init PROVE FInv
  OBVIOUS
<1>1. mode \in {"DRAM_MODE", "NVRAM_MODE", "SWITCH_MODE"}
  BY NodeAssumption DEF Init
<1>2. IInv
  BY ReplyStart, IInvInit
<1>3. /\ at = "put" /\ step = "send_req" /\ count = 0 /\ result = 0
      /\ tier \in Tier
      /\ addr = [t \in Tier |-> << >>] /\ processed = [t \in Tier |-> 0]
      /\ old_n_processed = 0 /\ node_i = 0
      /\ n_migrated = 0 /\ e = [t \in Tier |-> 0]
      /\ last_read = 0 /\ sent = {} /\ accepted = {} /\ resumed = FALSE
  BY DEF Init, Tier
<1>4. FindTypes
  BY <1>1, <1>3 DEF FindTypes
<1>5. Untouched /\ Counted /\ ReadsInReply /\ CountIsHonest
  BY <1>3 DEF Untouched, Counted, ReadsInReply, CountIsHonest
<1>6. \E h \in Nat : Reply(h)
  <2>1. PICK r \in ReplyTo(mode) :
           /\ n_found = Len(r)
           /\ found_addrs = [k \in Slot |-> IF k < Len(r) THEN r[k + 1] ELSE Stale]
    BY DEF Init
  <2>2. PICK h \in Nat : IsReply(r, mode, h)
    BY <1>1, <2>1, ReplyShape
  <2>3. Len(r) = n_found /\ n_found \in Nat /\ \A k \in 0 .. n_found - 1 : k \in Slot
    BY <1>2, <2>1, Elements DEF IInv, Types
  <2>4. \A k \in 0 .. n_found - 1 : found_addrs[k] = r[k + 1]
    BY <2>1, <2>3
  <2>5. n_found = IF mode = "SWITCH_MODE" THEN 2 * h + 2 ELSE h + 1
    BY <2>2, <2>3 DEF IsReply
  <2>6. \A k \in 0 .. h : k \in 0 .. n_found - 1
    BY <2>2, <2>5
  <2>7. /\ \A k \in 0 .. h - 1 : found_addrs[k] \in Page
        /\ found_addrs[h] = End
    BY <2>2, <2>4, <2>6 DEF IsReply
  <2>8. mode = "SWITCH_MODE" => \A k \in h + 1 .. 2 * h : found_addrs[k] \in Page
    <3> SUFFICES ASSUME mode = "SWITCH_MODE", NEW k \in h + 1 .. 2 * h
                 PROVE  found_addrs[k] \in Page
      OBVIOUS
    <3>1. k \in 0 .. n_found - 1 /\ k + 1 \in h + 2 .. 2 * h + 1
      BY <2>2, <2>5
    <3> QED
      BY <2>2, <2>4, <3>1 DEF IsReply
  <2> QED
    BY <2>2, <2>5, <2>7, <2>8 DEF Reply
<1>7. \A t \in Tier : Handled(t) = 0
  BY <1>3 DEF Handled
<1>8. \A t \in Tier : Missed(t) = {}
  BY <1>7 DEF Missed
<1>9. MissedCounted /\ OnePass
  BY <1>3, <1>7, <1>8, FS_EmptySet DEF MissedCounted, OnePass
<1>10. AddrAligned
  BY <1>3 DEF AddrAligned
<1>11. SentHandled
  BY <1>3, <1>7 DEF SentHandled, Sent
<1> QED
  BY <1>2, <1>4, <1>5, <1>6, <1>9, <1>10, <1>11 DEF FInv

(* What a step leaves alone that changes nothing a page has been through.  *)
LEMMA Frame ==
    ASSUME FInv, step' # "send_req", step # "send_req",
           UNCHANGED <<replyVars, mode, count, addr, processed, e, last_read, sent, accepted, resumed>>,
           \A t \in Tier : Handled(t)' = Handled(t)
    PROVE  /\ IInv' /\ Untouched' /\ Counted' /\ (\E h \in Nat : Reply(h))'
           /\ MissedCounted' /\ AddrAligned' /\ SentHandled' /\ ReadsInReply'
<1> USE DEF FInv
<1>1. UNCHANGED <<at, found_addrs, n_found, candidates>>
  BY DEF replyVars, module
<1>2. IInv'
  BY IInvStep DEF replyVars
<1>3. at = "count"
  BY DEF Untouched
<1>4. Untouched'
  BY <1>1, <1>3 DEF Untouched
<1>5. \A t \in Tier : Base(t)' = Base(t)
  BY DEF Base
<1>6. Counted' /\ AddrAligned'
  BY <1>1, <1>5 DEF Counted, AddrAligned, Excepted
<1>7. (\E h \in Nat : Reply(h))'
  BY <1>1 DEF Reply
<1>8. \A t \in Tier : Missed(t)' = Missed(t)
  BY DEF Missed
<1>9. MissedCounted'
  BY <1>8 DEF MissedCounted
<1>10. SentHandled'
  BY <1>1, <1>5 DEF SentHandled, Sent, Excepted
<1>11. ReadsInReply'
  BY <1>1 DEF ReadsInReply
<1> QED
  BY <1>2, <1>4, <1>6, <1>7, <1>9, <1>10, <1>11

(* The exchange touches nothing of what follows it.                        *)
LEMMA ReplyPartStep == ASSUME FInv, ReplyNext, UNCHANGED findVars PROVE FInv'
<1> USE DEF FInv
<1>1. at # "count" /\ UNCHANGED <<found_addrs, n_found>>
  BY DEF ReplyNext, NoSkb, PutMessage, PutLastMessage, Recvmsg, CopyMessage, CopyEnd, module
<1>2. step = "send_req"
  BY <1>1 DEF Untouched
<1>3. /\ UNCHANGED <<mode, step, count, tier, addr, processed, old_n_processed, node_i>>
      /\ UNCHANGED <<n_migrated, e, free, result, last_read, sent, accepted, resumed>>
  BY DEF findVars, arrays, batches, history
<1>4. IInv'
  BY IInvStep
<1>5. FindTypes'
  BY <1>3 DEF FindTypes
<1>6. Untouched' /\ Counted' /\ ReadsInReply' /\ CountIsHonest'
  BY <1>2, <1>3 DEF Untouched, Counted, ReadsInReply, CountIsHonest
<1>7. (\E h \in Nat : Reply(h))'
  BY <1>1, <1>3 DEF Reply
<1>8. \A t \in Tier : Handled(t)' = Handled(t) /\ Missed(t)' = Missed(t)
  BY <1>3 DEF Handled, Missed
<1>9. MissedCounted' /\ OnePass'
  BY <1>3, <1>8 DEF MissedCounted, OnePass, FindTypes
<1>10. AddrAligned' /\ SentHandled'
  <2>1. \A t \in Tier : processed[t] = 0 /\ Handled(t) = 0
    BY <1>2 DEF Untouched, FindTypes, Handled
  <2>2. \A t \in Tier : Sent(t)' = {}
    BY <1>2, <1>3 DEF Untouched, Sent
  <2> QED
    BY <1>2, <1>3, <1>8, <2>1, <2>2 DEF AddrAligned, SentHandled, Untouched
<1> QED
  BY <1>4, <1>5, <1>6, <1>7, <1>9, <1>10

(* The first entry without a process is the one behind the pages.          *)
LEMMA CountStep == ASSUME FInv, Count PROVE FInv'
<1> USE DEF FInv
<1>1. /\ at = "count" /\ step = "send_req"
      /\ step' = IF count' = 0 THEN "done" ELSE "assign"
      /\ last_read' = count'
      /\ UNCHANGED <<replyVars, mode, tier, addr, processed, old_n_processed, node_i>>
      /\ UNCHANGED <<n_migrated, e, free, result, sent, accepted, resumed>>
  BY DEF Count, arrays, batches
<1>2. UNCHANGED <<at, found_addrs, n_found, candidates>>
  BY <1>1 DEF replyVars, module
<1>3. PICK h \in Nat : Reply(h)
  OBVIOUS
<1>4. n_found \in Nat /\ n_found <= Room /\ h < n_found /\ h \in Slot
  BY <1>3, Elements DEF Reply, IInv, Types
<1>5. \A k \in 0 .. n_found - 1 : candidates[k] = found_addrs[k]
  BY <1>1, <1>4 DEF IInv, Arrived
<1>6. candidates[h] = End /\ \A k \in 0 .. h - 1 : candidates[k] \in Page
  BY <1>3, <1>4, <1>5 DEF Reply
<1>7. count' = h
  <2> DEFINE Ends(k) == candidates[k].pid = 0 /\ \A j \in 0 .. k - 1 : candidates[j].pid > 0
  <2>1. count' = CHOOSE k \in Slot : Ends(k)
    BY DEF Count
  <2>2. Ends(h)
    BY <1>6, PageFacts
  <2>3. \A k \in Slot : Ends(k) => k = h
    <3> SUFFICES ASSUME NEW k \in Slot, Ends(k) PROVE k = h
      OBVIOUS
    <3>1. k \in Nat
      BY Elements
    <3>2. ~(k < h)
      BY <1>6, <3>1, PageFacts
    <3>3. ~(h < k)
      BY <1>6, <3>1, PageFacts
    <3> QED
      BY <3>1, <3>2, <3>3
  <2> HIDE DEF Ends
  <2> QED
    BY <1>4, <2>1, <2>2, <2>3
<1>8. IInv'
  BY <1>1, IInvStep
<1>9. \A t \in Tier : processed[t] = 0 /\ e[t] = 0 /\ Len(addr[t]) = 0
  BY <1>1 DEF FindTypes, Untouched
<1>10. FindTypes'
  BY <1>1, <1>7, <1>9 DEF FindTypes, Untouched
<1>11. Untouched'
  BY <1>1, <1>2 DEF Untouched
<1>12. Counted' /\ ReadsInReply'
  <2>1. ReadsInReply'
    BY <1>1, <1>2, <1>4, <1>7 DEF ReadsInReply
  <2>2. CASE mode = "SWITCH_MODE"
    <3>1. n_found = 2 * h + 2 /\ \A k \in h + 1 .. 2 * h : found_addrs[k] \in Page
      BY <1>3, <2>2 DEF Reply
    <3>2. Base("DRAM")' = h + 1 /\ Base("NVRAM")' = 0
      BY <1>1, <1>7, <2>2 DEF Base
    <3>3. \A k \in 0 .. h - 1 : candidates[h + 1 + k] \in Page
      <4> SUFFICES ASSUME NEW k \in 0 .. h - 1 PROVE candidates[h + 1 + k] \in Page
        OBVIOUS
      <4>1. h + 1 + k \in h + 1 .. 2 * h /\ h + 1 + k \in 0 .. n_found - 1
        BY <3>1
      <4> QED
        BY <1>5, <3>1, <4>1
    <3>4. \A k \in 0 .. h - 1 : candidates[0 + k] \in Page
      BY <1>6
    <3> QED
      BY <1>2, <1>4, <1>7, <2>1, <3>1, <3>2, <3>3, <3>4 DEF Counted, Tier
  <2>3. CASE mode # "SWITCH_MODE"
    <3>1. \A t \in Tier : Base(t)' = 0
      BY <1>1, <2>3 DEF Base
    <3>2. \A k \in 0 .. h - 1 : candidates[0 + k] \in Page
      BY <1>6
    <3> QED
      BY <1>2, <1>4, <1>7, <2>1, <3>1, <3>2 DEF Counted
  <2> QED
    BY <2>2, <2>3
<1>13. (\E k \in Nat : Reply(k))'
  BY <1>1, <1>2, <1>3 DEF Reply
<1>14. \A t \in Tier : Handled(t)' = 0 /\ Handled(t) = 0
  BY <1>1, <1>9 DEF Handled, FindTypes
<1>15. \A t \in Tier : Missed(t)' = {}
  BY <1>14 DEF Missed
<1>16. MissedCounted' /\ OnePass'
  <2>1. accepted' = {} /\ \A t \in Tier : e'[t] = 0
    BY <1>1, <1>9 DEF Untouched
  <2>2. MissedCounted'
    <3>1. \A t \in Tier : Cardinality(Missed(t)') = 0
      BY <1>15, FS_EmptySet, Zenon
    <3>2. \A t \in Tier : Cardinality(Missed(t)') <= e'[t]
      BY <2>1, <3>1
    <3> QED
      BY <2>1, <3>2 DEF MissedCounted
  <2>3. old_n_processed' = 0 /\ tier' \in Tier /\ step' # "half"
    BY <1>1, <1>9 DEF FindTypes
  <2>4. OnePass'
    BY <1>14, <2>1, <2>3, FS_EmptySet DEF OnePass
  <2> QED
    BY <2>2, <2>4
<1>17. AddrAligned' /\ SentHandled'
  BY <1>1, <1>9, <1>14 DEF AddrAligned, SentHandled, Sent, Untouched
<1>18. CountIsHonest'
  BY <1>1, FS_EmptySet DEF CountIsHonest, Untouched
<1> QED
  BY <1>8, <1>10, <1>11, <1>12, <1>13, <1>16, <1>17, <1>18

(* The steps that only go on: to the batches, to the other half, to the end. *)
LEMMA Going ==
    ASSUME FInv, Assigned \/ step \in {"batch", "half"} PROVE step # "send_req"
BY DEF Assigned, FInv

LEMMA BeginBatchesStep == ASSUME FInv, BeginBatches PROVE FInv'
<1> USE DEF FInv
<1>1. /\ step = "assign" /\ step' = "batch" /\ n_migrated' = 0
      /\ UNCHANGED <<replyVars, mode, count, tier, addr, processed, old_n_processed, node_i>>
      /\ UNCHANGED <<e, result, last_read, sent, accepted, resumed>>
  BY DEF BeginBatches, Assigned, arrays, history
<1>2. \A t \in Tier : Handled(t)' = Handled(t)
  BY <1>1 DEF Handled, FindTypes
<1>3. FindTypes'
  BY <1>1 DEF FindTypes
<1>4. OnePass'
  BY <1>1, <1>2, <1>3 DEF OnePass, FindTypes
<1>5. CountIsHonest'
  BY <1>1 DEF CountIsHonest
<1> QED
  BY <1>1, <1>2, <1>3, <1>4, <1>5, Frame

LEMMA NoRoomStep == ASSUME FInv, NoRoom PROVE FInv'
<1> USE DEF FInv
<1>1. /\ step = "assign" /\ step' = "half" /\ mode = "SWITCH_MODE"
      /\ old_n_processed >= processed[tier]
      /\ UNCHANGED <<replyVars, mode, count, tier, addr, processed, old_n_processed, node_i>>
      /\ UNCHANGED <<n_migrated, e, result, last_read, sent, accepted, resumed>>
  BY DEF NoRoom, Assigned, arrays, history
<1>2. \A t \in Tier : Handled(t)' = Handled(t)
  BY <1>1 DEF Handled, FindTypes
<1>3. FindTypes'
  BY <1>1 DEF FindTypes
<1>4. OnePass' /\ CountIsHonest'
  BY <1>1 DEF OnePass, CountIsHonest
<1> QED
  BY <1>1, <1>2, <1>3, <1>4, Frame

LEMMA HalfMigratedStep == ASSUME FInv, HalfMigrated PROVE FInv'
<1> USE DEF FInv
<1>1. /\ step = "batch" /\ step' = "half" /\ mode = "SWITCH_MODE"
      /\ n_migrated >= processed[tier]
      /\ UNCHANGED <<replyVars, mode, count, tier, addr, processed, old_n_processed, node_i>>
      /\ UNCHANGED <<n_migrated, e, result, last_read, sent, accepted, resumed>>
  BY DEF HalfMigrated, arrays, batches, history
<1>2. \A t \in Tier : Handled(t)' = Handled(t)
  BY <1>1 DEF Handled, FindTypes
<1>3. FindTypes'
  BY <1>1 DEF FindTypes
<1>4. OnePass' /\ CountIsHonest'
  BY <1>1 DEF OnePass, CountIsHonest
<1> QED
  BY <1>1, <1>2, <1>3, <1>4, Frame

LEMMA MigratedStep == ASSUME FInv, Migrated PROVE FInv'
<1> USE DEF FInv
<1>1. /\ step = "batch" /\ step' = "done" /\ mode # "SWITCH_MODE"
      /\ n_migrated >= processed[tier] /\ result' = n_migrated - e[tier]
      /\ UNCHANGED <<replyVars, mode, count, tier, addr, processed, old_n_processed, node_i>>
      /\ UNCHANGED <<n_migrated, e, last_read, sent, accepted, resumed>>
  BY DEF Migrated, arrays, batches, history
<1>2. Handled(tier) = n_migrated /\ \A t \in Tier : Handled(t)' = Handled(t)
  BY <1>1 DEF Handled, FindTypes
<1>3. FindTypes'
  BY <1>1 DEF FindTypes
<1>4. /\ old_n_processed = 0 /\ accepted \subseteq {tier} \X (0 .. Handled(tier) - 1)
      /\ Cardinality(accepted) + e[tier] = Handled(tier)
  BY <1>1 DEF OnePass
<1>5. tier \in Tier /\ e[tier] \in Nat /\ n_migrated \in Nat
  BY DEF FindTypes
<1>6. IsFiniteSet(accepted) /\ Cardinality(accepted) \in Nat
  BY <1>2, <1>4, <1>5, FS_Singleton, FinitePairs
<1>7. result' = Cardinality(accepted)
  BY <1>1, <1>2, <1>4, <1>5, <1>6
<1>8. OnePass' /\ CountIsHonest'
  BY <1>1, <1>2, <1>4, <1>5, <1>6, <1>7 DEF OnePass, CountIsHonest
<1> QED
  BY <1>1, <1>2, <1>3, <1>8, Frame

LEMMA OtherHalfStep == ASSUME FInv, OtherHalf \/ NextPass PROVE FInv'
<1> USE DEF FInv
<1> DEFINE t == IF tier = "DRAM" THEN "NVRAM" ELSE "DRAM"
<1>1. /\ step = "half" /\ step' = "assign" /\ tier' = t /\ tier \in Tier
      /\ old_n_processed' = processed[t] /\ node_i' = 0
      /\ UNCHANGED <<replyVars, mode, count, addr, processed>>
      /\ UNCHANGED <<n_migrated, e, result, last_read, sent, accepted, resumed>>
  BY DEF OtherHalf, NextPass, BeginHalf, batches, history, FindTypes, Tier
<1>2. \A u \in Tier : Handled(u)' = Handled(u)
  BY <1>1 DEF Handled, FindTypes
<1>3. t \in Tier /\ processed[t] \in Nat
  BY DEF FindTypes, Tier
<1>4. FindTypes'
  <2> HIDE DEF t
  <2> QED
    BY <1>1, <1>3 DEF FindTypes
<1>5. mode = "SWITCH_MODE"
  BY <1>1 DEF OnePass
<1>6. OnePass' /\ CountIsHonest'
  BY <1>1, <1>5 DEF OnePass, CountIsHonest
<1> QED
  BY <1>1, <1>2, <1>4, <1>6, Frame

(* One node takes pages from where the last one stopped, unless these are
   the DRAM pages of a switch and one has stopped before: that is Excepted. *)
LEMMA AssignStep == ASSUME FInv, Assign PROVE FInv'
<1> USE DEF FInv
<1>1. PICK n \in 0 .. count :
         LET taken == MinOf(n, count - processed[tier]) IN
         /\ addr' = [addr EXCEPT ![tier] =
                       @ \o [j \in 1 .. taken |-> candidates[From(tier, j - 1)].addr]]
         /\ processed' = [processed EXCEPT ![tier] = @ + taken]
         /\ resumed' = (resumed \/ (mode = "SWITCH_MODE" /\ tier = "DRAM"
                                      /\ processed[tier] > 0 /\ taken > 0))
  BY DEF Assign
<1> DEFINE taken == MinOf(n, count - processed[tier])
           more == [j \in 1 .. taken |-> candidates[From(tier, j - 1)].addr]
<1>2. /\ step = "assign" /\ processed[tier] < count /\ node_i' = node_i + 1
      /\ UNCHANGED <<replyVars, mode, step, count, tier, old_n_processed>>
      /\ UNCHANGED <<n_migrated, e, free, result, last_read, sent, accepted>>
  BY DEF Assign, batches
<1>3. /\ addr' = [addr EXCEPT ![tier] = @ \o more]
      /\ processed' = [processed EXCEPT ![tier] = @ + taken]
      /\ resumed' = (resumed \/ (mode = "SWITCH_MODE" /\ tier = "DRAM"
                                   /\ processed[tier] > 0 /\ taken > 0))
  BY <1>1
<1>4. tier \in Tier /\ count \in Nat /\ processed[tier] \in Nat
  BY DEF FindTypes
<1>5. taken \in Nat /\ processed[tier] + taken <= count
  BY <1>2, <1>4 DEF MinOf
<1>6. UNCHANGED <<at, found_addrs, n_found, candidates>> /\ at = "count"
  BY <1>2 DEF replyVars, module, Untouched
<1>7. IInv'
  BY <1>2, IInvStep
<1>8. \A t \in Tier : Base(t)' = Base(t) /\ Base(t) \in Nat
  BY <1>2, <1>4 DEF Base
<1>9. \A j \in 1 .. taken : From(tier, j - 1) \in {Base(tier) + k : k \in 0 .. count - 1}
  <2> SUFFICES ASSUME NEW j \in 1 .. taken
               PROVE  \E k \in 0 .. count - 1 : From(tier, j - 1) = Base(tier) + k
    OBVIOUS
  <2>1. CASE mode = "SWITCH_MODE" /\ tier = "DRAM"
    <3>1. From(tier, j - 1) = Base(tier) + (j - 1)
      BY <2>1 DEF From
    <3>2. j - 1 \in 0 .. count - 1
      BY <1>4, <1>5
    <3> QED
      BY <3>1, <3>2
  <2>2. CASE ~(mode = "SWITCH_MODE" /\ tier = "DRAM")
    <3>1. From(tier, j - 1) = processed[tier] + (j - 1) /\ Base(tier) = 0
      BY <2>2 DEF From, Base
    <3>2. processed[tier] + (j - 1) \in 0 .. count - 1
      BY <1>4, <1>5
    <3> QED
      BY <3>1, <3>2
  <2> QED
    BY <2>1, <2>2
<1>10. \A j \in 1 .. taken : candidates[From(tier, j - 1)].addr \in PageAddr
  BY <1>2, <1>4, <1>9, PageFacts DEF Counted
<1>11. more \in Seq(PageAddr) /\ Len(more) = taken
  <2> HIDE DEF taken
  <2> QED
    BY <1>5, <1>10
<1>12. \A j \in 1 .. taken : more[j] = candidates[From(tier, j - 1)].addr
  OBVIOUS
<1> HIDE DEF more, taken
<1>13. /\ processed' \in [Tier -> Nat]
       /\ processed'[tier] = processed[tier] + taken
       /\ \A t \in Tier : t # tier => processed'[t] = processed[t]
  BY <1>3, <1>4, <1>5 DEF FindTypes
<1>14. /\ addr[tier] \in Seq(PageAddr) /\ Len(addr[tier]) = processed[tier]
       /\ addr'[tier] = addr[tier] \o more
       /\ addr'[tier] \in Seq(PageAddr) /\ Len(addr'[tier]) = processed[tier] + taken
       /\ \A k \in 1 .. processed[tier] + taken :
             addr'[tier][k] = IF k <= processed[tier] THEN addr[tier][k]
                                                      ELSE more[k - processed[tier]]
  <2>1. addr[tier] \in Seq(PageAddr) /\ Len(addr[tier]) = processed[tier]
    BY <1>4 DEF FindTypes
  <2>2. addr'[tier] = addr[tier] \o more
    BY <1>3, <1>4 DEF FindTypes
  <2> DEFINE old == addr[tier]
  <2> HIDE DEF old
  <2>3. /\ old \o more \in Seq(PageAddr) /\ Len(old \o more) = Len(old) + Len(more)
        /\ \A k \in 1 .. Len(old) + Len(more) :
              (old \o more)[k] = IF k <= Len(old) THEN old[k] ELSE more[k - Len(old)]
    BY <1>11, <2>1, ConcatProperties DEF old
  <2> QED
    BY <1>11, <2>1, <2>2, <2>3 DEF old
<1>15. \A t \in Tier : t # tier => addr'[t] = addr[t]
  BY <1>3 DEF FindTypes
<1>16. FindTypes'
  <2>1. addr' \in [Tier -> Seq(PageAddr)]
    BY <1>3, <1>14, <1>15 DEF FindTypes
  <2>2. \A t \in Tier : processed'[t] <= count /\ Len(addr'[t]) = processed'[t]
    BY <1>5, <1>13, <1>14, <1>15 DEF FindTypes
  <2>3. old_n_processed <= processed'[tier]
    BY <1>4, <1>5, <1>13 DEF FindTypes
  <2> QED
    BY <1>2, <1>13, <2>1, <2>2, <2>3 DEF FindTypes
<1>17. Untouched' /\ Counted' /\ (\E h \in Nat : Reply(h))' /\ ReadsInReply' /\ CountIsHonest'
  BY <1>2, <1>6, <1>8 DEF Untouched, Counted, Reply, ReadsInReply, CountIsHonest
<1>18. \A t \in Tier : Handled(t)' = Handled(t) /\ Missed(t)' = Missed(t)
  BY <1>2, <1>13 DEF Handled, Missed
<1>19. MissedCounted' /\ OnePass'
  BY <1>2, <1>4, <1>18 DEF MissedCounted, OnePass
<1>20. \A t \in Tier : ~Excepted(t)' => ~Excepted(t)
  BY <1>3 DEF Excepted
<1>21. SentHandled'
  BY <1>2, <1>6, <1>8, <1>18, <1>20 DEF SentHandled, Sent
<1>22. AddrAligned'
  <2> SUFFICES ASSUME NEW t \in Tier, ~Excepted(t)', NEW k \in 0 .. processed'[t] - 1
               PROVE  addr'[t][k + 1] = candidates[Base(t) + k].addr
    BY <1>6, <1>8 DEF AddrAligned
  <2>1. CASE t # tier \/ k < processed[tier]
    <3>1. k \in 0 .. processed[t] - 1
      BY <1>4, <1>13, <2>1
    <3>2. addr'[t][k + 1] = addr[t][k + 1]
      <4>1. CASE t # tier
        BY <1>15, <4>1
      <4>2. CASE t = tier
        <5>1. k + 1 \in 1 .. processed[tier] + taken /\ k + 1 <= processed[tier]
          BY <1>4, <1>5, <3>1, <4>2
        <5> QED
          BY <1>14, <4>2, <5>1
      <4> QED
        BY <4>1, <4>2
    <3> QED
      BY <1>20, <3>1, <3>2 DEF AddrAligned
  <2>2. CASE t = tier /\ k >= processed[tier]
    <3>1. PICK i \in 0 .. taken - 1 : k = processed[tier] + i
      <4>1. k - processed[tier] \in 0 .. taken - 1 /\ k = processed[tier] + (k - processed[tier])
        BY <1>4, <1>5, <1>13, <2>2
      <4> QED
        BY <4>1
    <3>2. addr'[tier][k + 1] = candidates[From(tier, i)].addr
      <4>1. i + 1 \in 1 .. taken /\ k + 1 \in 1 .. processed[tier] + taken
            /\ ~(k + 1 <= processed[tier]) /\ k + 1 - processed[tier] = i + 1 /\ i + 1 - 1 = i
        BY <1>4, <1>5, <3>1
      <4>2. addr'[tier][k + 1] = more[i + 1]
        <5>1. PICK l \in 1 .. processed[tier] + taken : l = k + 1
          BY <4>1
        <5>2. l - processed[tier] = i + 1 /\ ~(l <= processed[tier])
          BY <1>4, <3>1, <5>1
        <5>3. addr'[tier][l] = IF l <= processed[tier] THEN addr[tier][l]
                                                       ELSE more[l - processed[tier]]
          BY <1>14
        <5>4. addr'[tier][l] = more[l - processed[tier]]
          BY <5>2, <5>3, Zenon
        <5> QED
          BY <5>1, <5>2, <5>4, Zenon
      <4>3. more[i + 1] = candidates[From(tier, i)].addr
        <5>1. PICK j \in 1 .. taken : j = i + 1
          BY <4>1
        <5>2. j - 1 = i
          BY <4>1, <5>1
        <5>3. more[j] = candidates[From(tier, j - 1)].addr
          BY <1>12
        <5> QED
          BY <5>1, <5>2, <5>3, Zenon
      <4> QED
        BY <4>2, <4>3
    <3>3. mode = "SWITCH_MODE" /\ tier = "DRAM" => processed[tier] = 0
      <4>1. taken > 0
        BY <1>4, <1>5, <3>1
      <4>2. mode = "SWITCH_MODE" /\ tier = "DRAM" => ~(processed[tier] > 0)
        BY <1>3, <2>2, <4>1 DEF Excepted
      <4> QED
        BY <1>4, <4>2
    <3>4. From(tier, i) = Base(tier) + k
      BY <1>4, <3>1, <3>3 DEF From, Base
    <3> QED
      BY <2>2, <3>2, <3>4
  <2> QED
    BY <1>4, <1>13, <2>1, <2>2
<1> QED
  BY <1>7, <1>16, <1>17, <1>19, <1>21, <1>22

LEMMA LeastNumber ==
    ASSUME NEW S \in SUBSET Nat, S # {}
    PROVE  \E i \in S : \A j \in S : ~(j < i)
<1>1. PICK i \in S : \A j \in S : <<j, i>> \notin OpToRel(<, Nat)
  <2>1. IsWellFoundedOn(OpToRel(<, Nat), Nat)
    BY NatLessThanWellFounded
  <2> QED
    BY <2>1, WFMin, Zenon
<1>2. \A j \in S : ~(j < i)
  <2> SUFFICES ASSUME NEW j \in S, j < i PROVE FALSE
    OBVIOUS
  <2>1. <<j, i>> \in OpToRel(<, Nat)
    BY Zenon DEF OpToRel
  <2> QED
    BY <1>1, <2>1, Zenon
<1> QED
  BY ONLY <1>2

(* A batch is the longest run of one process that begins at n_migrated, or
   a shorter one where the pages end.                                      *)
LEMMA BatchRun ==
    ASSUME FInv, step = "batch", n_migrated < processed[tier]
    PROVE  /\ BatchLength \in 1 .. count
           /\ n_migrated + BatchLength <= processed[tier]
           /\ \A j \in 0 .. BatchLength - 1 : pid_at(n_migrated + j) = pid_at(n_migrated)
<1>1. /\ tier \in Tier /\ count \in Nat /\ processed[tier] \in Nat /\ n_migrated \in Nat
      /\ processed[tier] <= count
  BY DEF FInv, FindTypes
<1> DEFINE Stops(i) == pid_at(n_migrated + i) # pid_at(n_migrated) \/ n_migrated + i >= processed[tier]
           S == {i \in 1 .. count : Stops(i)}
           Length(i) == Stops(i) /\ \A j \in 1 .. i - 1 :
                          pid_at(n_migrated + j) = pid_at(n_migrated) /\ n_migrated + j < processed[tier]
<1>2. processed[tier] - n_migrated \in S
  BY <1>1
<1>3. S \in SUBSET Nat
  BY <1>1
<1>4. PICK i \in S : \A j \in S : ~(j < i)
  <2> HIDE DEF S
  <2> QED
    BY <1>2, <1>3, LeastNumber
<1>5. i \in 1 .. count /\ Length(i)
  <2>1. \A j \in 1 .. i - 1 : ~Stops(j)
    <3> SUFFICES ASSUME NEW j \in 1 .. i - 1 PROVE ~Stops(j)
      OBVIOUS
    <3>1. j \in 1 .. count /\ j < i
      BY <1>1
    <3> HIDE DEF Stops
    <3> QED
      BY <1>4, <3>1
  <2>2. \A j \in 1 .. i - 1 : n_migrated + j \in Nat
    BY <1>1
  <2> QED
    BY <1>1, <2>1, <2>2
<1>6. BatchLength = CHOOSE k \in 1 .. count : Length(k)
  BY DEF BatchLength
<1>7. BatchLength \in 1 .. count /\ Length(BatchLength)
  <2> HIDE DEF Length
  <2> QED
    BY <1>5, <1>6
<1>8. n_migrated + BatchLength <= processed[tier]
  <2>1. CASE BatchLength = 1
    BY <1>1, <2>1
  <2>2. CASE BatchLength # 1
    <3>1. BatchLength - 1 \in 1 .. BatchLength - 1
      BY <1>1, <1>7, <2>2
    <3>2. n_migrated + (BatchLength - 1) < processed[tier]
      BY <1>7, <3>1
    <3> QED
      BY <1>1, <1>7, <3>2
  <2> QED
    BY <2>1, <2>2
<1>9. \A j \in 0 .. BatchLength - 1 : pid_at(n_migrated + j) = pid_at(n_migrated)
  <2> SUFFICES ASSUME NEW j \in 0 .. BatchLength - 1
               PROVE  pid_at(n_migrated + j) = pid_at(n_migrated)
    OBVIOUS
  <2>1. CASE j = 0
    <3>1. n_migrated + j = n_migrated
      BY <1>1, <2>1
    <3> QED
      BY <3>1
  <2>2. CASE j # 0
    <3>1. j \in 1 .. BatchLength - 1
      BY <1>1, <1>7, <2>2
    <3> QED
      BY <1>7, <3>1
  <2> QED
    BY <2>1, <2>2
<1> QED
  BY <1>7, <1>8, <1>9

LEMMA BatchStep == ASSUME FInv, Batch PROVE FInv'
<1> USE DEF FInv
<1> DEFINE b == BatchLength
           batch == n_migrated .. n_migrated + b - 1
           Sends(k) == [pid |-> pid_at(n_migrated), addr |-> addr[tier][k + 1]]
<1>1. PICK failed \in SUBSET batch :
         /\ e' = [e EXCEPT ![tier] = @ + Cardinality(failed)]
         /\ accepted' = accepted \cup {<<tier, k>> : k \in batch \ failed}
         /\ sent' = sent \cup {<<tier, Sends(k)>> : k \in batch}
  BY DEF Batch
<1>2. /\ step = "batch" /\ n_migrated < processed[tier]
      /\ last_read' = Base(tier) + n_migrated + b
      /\ n_migrated' = n_migrated + b
      /\ UNCHANGED <<replyVars, mode, step, count, tier, addr, processed, old_n_processed>>
      /\ UNCHANGED <<node_i, free, result, resumed>>
  BY DEF Batch, arrays
<1>3. /\ tier \in Tier /\ count \in Nat /\ processed[tier] \in Nat /\ processed[tier] <= count
      /\ n_migrated \in Nat /\ old_n_processed \in Nat /\ old_n_processed <= processed[tier]
  BY DEF FindTypes
<1>4. /\ b \in 1 .. count /\ n_migrated + b <= processed[tier]
      /\ \A j \in 0 .. b - 1 : pid_at(n_migrated + j) = pid_at(n_migrated)
  BY <1>2, BatchRun
<1> HIDE DEF b
<1>5. IsFiniteSet(batch) /\ Cardinality(batch) = b
  <2>1. n_migrated \in Int /\ n_migrated + b - 1 \in Int /\ ~(n_migrated > n_migrated + b - 1)
    BY <1>3, <1>4
  <2>2. /\ IsFiniteSet(batch)
        /\ Cardinality(batch) = IF n_migrated > n_migrated + b - 1 THEN 0
                                ELSE (n_migrated + b - 1) - n_migrated + 1
    BY <2>1, FS_Interval, Zenon
  <2> QED
    BY <1>3, <1>4, <2>2
<1>6. IsFiniteSet(failed) /\ Cardinality(failed) \in Nat
  BY <1>1, <1>5, FS_Subset, FS_CardinalityType
<1>7. e'[tier] = e[tier] + Cardinality(failed) /\ e[tier] \in Nat /\ e' \in [Tier -> Nat]
      /\ \A t \in Tier : t # tier => e'[t] = e[t]
  BY <1>1, <1>3, <1>6 DEF FindTypes
<1>8. UNCHANGED <<at, found_addrs, n_found, candidates>> /\ at = "count"
  BY <1>2 DEF replyVars, module, Untouched
<1>9. \A t \in Tier : Base(t)' = Base(t) /\ Base(t) \in Nat
  BY <1>2, <1>3 DEF Base
<1>10. IInv'
  BY <1>2, IInvStep
<1>11. FindTypes'
  BY <1>2, <1>3, <1>4, <1>7, <1>9 DEF FindTypes
<1>12. Untouched' /\ Counted' /\ (\E h \in Nat : Reply(h))' /\ CountIsHonest'
  BY <1>2, <1>8, <1>9 DEF Untouched, Counted, Reply, CountIsHonest
<1>13. ReadsInReply'
  <2>1. Base(tier) + count < n_found
    BY <1>2, <1>3 DEF Counted
  <2>2. n_found \in Nat
    BY Elements DEF IInv, Types
  <2> QED
    BY <1>2, <1>3, <1>4, <1>8, <1>9, <2>1, <2>2 DEF ReadsInReply
(* The positions of the batch follow those handled before, or are some of
   them that a pass sends again.                                           *)
<1>14. /\ Handled(tier) \in Nat /\ Handled(tier)' \in Nat /\ n_migrated <= Handled(tier)
       /\ Handled(tier) <= processed[tier]
       /\ 0 .. Handled(tier)' - 1 = (0 .. Handled(tier) - 1) \cup batch
       /\ old_n_processed = 0 => Handled(tier) = n_migrated /\ Handled(tier)' = n_migrated + b
  BY <1>2, <1>3, <1>4 DEF Handled, FindTypes
<1>15. \A t \in Tier : t # tier => Handled(t)' = Handled(t)
  BY <1>2 DEF Handled
<1> HIDE DEF batch
<1>16. batch \subseteq 0 .. processed[tier] - 1
  BY <1>3, <1>4 DEF batch
<1>17. MissedCounted'
  <2>1. accepted' \subseteq Tier \X (0 .. count - 1)
    BY <1>1, <1>3, <1>16 DEF MissedCounted
  <2>2. ASSUME NEW t \in Tier, t # tier PROVE Cardinality(Missed(t)') <= e'[t]
    <3>1. Missed(t)' = Missed(t)
      BY <1>1, <1>15, <2>2 DEF Missed
    <3> QED
      BY <1>7, <2>2, <3>1 DEF MissedCounted
  <2>3. Cardinality(Missed(tier)') <= e'[tier]
    <3>1. Missed(tier)' \subseteq Missed(tier) \cup failed
      <4> SUFFICES ASSUME NEW k \in Missed(tier)', k \notin failed PROVE k \in Missed(tier)
        OBVIOUS
      <4>1. k \in 0 .. Handled(tier)' - 1 /\ <<tier, k>> \notin accepted'
        BY <1>2 DEF Missed
      <4>2. <<tier, k>> \notin accepted /\ k \notin batch
        BY <1>1, <4>1
      <4> QED
        BY <1>14, <4>1, <4>2 DEF Missed
    <3>2. IsFiniteSet(Missed(tier)) /\ Cardinality(Missed(tier)) \in Nat
      <4>1. IsFiniteSet(0 .. Handled(tier) - 1)
        <5>1. 0 \in Int /\ Handled(tier) - 1 \in Int
          BY <1>14
        <5> QED
          BY <5>1, FS_Interval
      <4>2. Missed(tier) \in SUBSET (0 .. Handled(tier) - 1)
        BY DEF Missed
      <4> QED
        BY <4>1, <4>2, FS_Subset, FS_CardinalityType
    <3>3. /\ IsFiniteSet(Missed(tier) \cup failed)
          /\ Cardinality(Missed(tier) \cup failed) =
                Cardinality(Missed(tier)) + Cardinality(failed) - Cardinality(Missed(tier) \cap failed)
      BY <1>6, <3>2, FS_Union
    <3>4. IsFiniteSet(Missed(tier) \cap failed) /\ Cardinality(Missed(tier) \cap failed) \in Nat
      <4>1. Missed(tier) \cap failed \in SUBSET failed
        OBVIOUS
      <4> QED
        BY <1>6, <4>1, FS_Subset, FS_CardinalityType
    <3>5. /\ Cardinality(Missed(tier)') <= Cardinality(Missed(tier) \cup failed)
          /\ Cardinality(Missed(tier)') \in Nat
      <4>1. IsFiniteSet(Missed(tier)')
            /\ Cardinality(Missed(tier)') <= Cardinality(Missed(tier) \cup failed)
        BY <3>1, <3>3, FS_Subset
      <4> QED
        BY <4>1, FS_CardinalityType
    <3>6. Cardinality(Missed(tier)) <= e[tier]
      BY <1>3 DEF MissedCounted
    <3> QED
      BY <1>6, <1>7, <3>2, <3>3, <3>4, <3>5, <3>6
  <2> QED
    BY <1>2, <2>1, <2>2, <2>3 DEF MissedCounted
<1>18. OnePass'
  <2> SUFFICES ASSUME mode # "SWITCH_MODE" PROVE OnePass'
    BY <1>2 DEF OnePass
  <2>1. /\ old_n_processed = 0 /\ accepted \subseteq {tier} \X (0 .. Handled(tier) - 1)
        /\ Cardinality(accepted) + e[tier] = Handled(tier)
    BY DEF OnePass
  <2>2. Handled(tier) = n_migrated /\ Handled(tier)' = n_migrated + b
    BY <1>14, <2>1
  <2> DEFINE New == At(tier, batch \ failed)
  <2>3. accepted' = accepted \cup New
    BY <1>1 DEF At
  <2>4. IsFiniteSet(batch \ failed) /\ Cardinality(batch \ failed) = b - Cardinality(failed)
    <3>1. batch \cap failed = failed
      BY <1>1
    <3> QED
      BY <1>5, <3>1, FS_Difference
  <2>5. IsFiniteSet(New) /\ Cardinality(New) = b - Cardinality(failed)
    BY <2>4, AsManyAt
  <2>6. accepted \cap New = {}
    BY <1>3, <2>1, <2>2 DEF At, batch
  <2>7. IsFiniteSet(accepted) /\ Cardinality(accepted) \in Nat
    BY <1>14, <2>1, FS_Singleton, FinitePairs
  <2> HIDE DEF New
  <2>8. Cardinality(accepted') = Cardinality(accepted) + (b - Cardinality(failed))
    <3>1. Cardinality(accepted \cup New) =
             Cardinality(accepted) + Cardinality(New) - Cardinality(accepted \cap New)
      BY <2>5, <2>7, FS_Union
    <3>2. Cardinality(accepted \cap New) = 0
      BY <2>6, FS_EmptySet, Zenon
    <3> QED
      BY <1>3, <1>4, <1>6, <2>3, <2>5, <2>7, <3>1, <3>2
  <2>9. accepted' \subseteq {tier} \X (0 .. Handled(tier)' - 1)
    BY <1>14, <2>1, <2>3 DEF At, New
  <2>10. Cardinality(accepted') + e'[tier] = Handled(tier)'
    BY <1>3, <1>4, <1>6, <1>7, <2>1, <2>2, <2>7, <2>8
  <2> QED
    BY <1>2, <2>1, <2>9, <2>10 DEF OnePass
<1>19. AddrAligned'
  BY <1>2, <1>8, <1>9 DEF AddrAligned, Excepted
<1>20. SentHandled'
  <2>1. \A s \in sent' : s[1] \in Tier
    BY <1>1, <1>3 DEF SentHandled
  <2>2. ASSUME NEW t \in Tier, t # tier PROVE Sent(t)' = Sent(t)
    BY <1>1, <2>2 DEF Sent
  <2>3. Sent(tier)' = Sent(tier) \cup {Sends(k) : k \in batch}
    <3> DEFINE of(A) == {x \in A : x[1] = tier}
               now == {<<tier, Sends(k)>> : k \in batch}
    <3>1. of(sent') = of(sent) \cup now
      <4>1. \A x \in now : x[1] = tier
        OBVIOUS
      <4> HIDE DEF now
      <4>2. sent' = sent \cup now
        BY <1>1 DEF now
      <4> QED
        BY <4>1, <4>2
    <3>2. {s[2] : s \in now} = {Sends(k) : k \in batch}
      <4> HIDE DEF Sends
      <4>1. \A k \in batch : <<tier, Sends(k)>> \in now /\ <<tier, Sends(k)>>[2] = Sends(k)
        OBVIOUS
      <4>2. \A s \in now : \E k \in batch : s = <<tier, Sends(k)>>
        OBVIOUS
      <4> HIDE DEF now
      <4>3. \A x \in {s[2] : s \in now} : x \in {Sends(k) : k \in batch}
        BY <4>2
      <4>4. \A x \in {Sends(k) : k \in batch} : x \in {s[2] : s \in now}
        BY <4>1
      <4> QED
        BY <4>3, <4>4
    <3> HIDE DEF now
    <3>3. {s[2] : s \in of(sent')} = {s[2] : s \in of(sent)} \cup {s[2] : s \in now}
      BY <3>1
    <3> QED
      BY <1>2, <3>2, <3>3 DEF Sent
  <2>4. ~Excepted(tier) => \A k \in batch : Sends(k) = candidates[Base(tier) + k]
    <3> SUFFICES ASSUME ~Excepted(tier), NEW k \in batch
                 PROVE  Sends(k) = candidates[Base(tier) + k]
      OBVIOUS
    <3> DEFINE p == candidates[Base(tier) + k]
    <3>1. k \in 0 .. processed[tier] - 1 /\ k \in 0 .. count - 1
      BY <1>3, <1>16
    <3>2. addr[tier][k + 1] = p.addr
      BY <1>3, <3>1 DEF AddrAligned
    <3>3. p \in Page
      BY <1>2, <1>3, <3>1 DEF Counted
    <3>4. p.pid = pid_at(n_migrated)
      <4>1. k - n_migrated \in 0 .. b - 1 /\ n_migrated + (k - n_migrated) = k
        BY <1>3, <1>4 DEF batch
      <4>2. pid_at(n_migrated + (k - n_migrated)) = pid_at(n_migrated)
        BY <1>4, <4>1
      <4>3. pid_at(k) = pid_at(n_migrated)
        BY <4>1, <4>2
      <4> QED
        BY <4>3 DEF pid_at
    <3>5. p = [pid |-> p.pid, addr |-> p.addr]
      BY <3>3, PageFacts
    <3> HIDE DEF p
    <3>6. Sends(k) = p
      BY <3>2, <3>4, <3>5
    <3> QED
      BY <3>6 DEF p
  <2> HIDE DEF Sends
  <2>5. ~Excepted(tier) =>
           Sent(tier)' = {candidates[Base(tier) + k] : k \in 0 .. Handled(tier)' - 1}
    <3> SUFFICES ASSUME ~Excepted(tier)
                 PROVE  Sent(tier)' = {candidates[Base(tier) + k] : k \in 0 .. Handled(tier)' - 1}
      OBVIOUS
    <3>1. Sent(tier) = {candidates[Base(tier) + k] : k \in 0 .. Handled(tier) - 1}
      BY <1>3 DEF SentHandled
    <3>2. {Sends(k) : k \in batch} = {candidates[Base(tier) + k] : k \in batch}
      BY <2>4
    <3>3. Sent(tier)' = {candidates[Base(tier) + k] : k \in (0 .. Handled(tier) - 1) \cup batch}
      BY <2>3, <3>1, <3>2
    <3> QED
      BY <1>14, <3>3
  <2>6. \A t \in Tier : Excepted(t)' = Excepted(t)
    BY <1>2 DEF Excepted
  <2>7. ASSUME NEW t \in Tier, ~Excepted(t)
        PROVE  Sent(t)' = {candidates[Base(t) + k] : k \in 0 .. Handled(t)' - 1}
    <3>1. CASE t = tier
      <4>1. ~Excepted(tier)
        BY <2>7, <3>1 DEF Excepted
      <4> QED
        <5>1. Sent(t)' = Sent(tier)'
          BY <1>2, <3>1 DEF Sent
        <5>2. Handled(t)' = Handled(tier)'
          BY <1>2, <3>1 DEF Handled
        <5>3. Base(t) = Base(tier)
          BY <3>1
        <5> QED
          BY <2>5, <4>1, <5>1, <5>2, <5>3
    <3>2. CASE t # tier
      <4>1. Sent(t) = {candidates[Base(t) + k] : k \in 0 .. Handled(t) - 1}
        BY <2>7 DEF SentHandled
      <4> QED
        BY <1>15, <2>2, <3>2, <4>1
    <3> QED
      BY <3>1, <3>2
  <2> QED
    BY <1>2, <1>8, <1>9, <2>1, <2>6, <2>7 DEF SentHandled
<1> QED
  BY <1>10, <1>11, <1>12, <1>13, <1>17, <1>18, <1>19, <1>20

(* Of the pages of a tier that are handled at least as many were accepted
   as e does not hold.                                                     *)
LEMMA AcceptedAtLeast ==
    ASSUME FInv, NEW t \in Tier, Handled(t) = processed[t]
    PROVE  \E K \in SUBSET (0 .. processed[t] - 1) :
              /\ At(t, K) \subseteq accepted
              /\ IsFiniteSet(At(t, K)) /\ Cardinality(At(t, K)) \in Nat
              /\ processed[t] - e[t] <= Cardinality(At(t, K))
<1> DEFINE all == 0 .. processed[t] - 1
           K == all \ Missed(t)
<1>1. processed[t] \in Nat /\ e[t] \in Nat
  BY DEF FInv, FindTypes
<1>2. IsFiniteSet(all) /\ Cardinality(all) = processed[t]
  <2>1. 0 \in Int /\ processed[t] - 1 \in Int
    BY <1>1
  <2>2. /\ IsFiniteSet(all)
        /\ Cardinality(all) = IF 0 > processed[t] - 1 THEN 0 ELSE (processed[t] - 1) - 0 + 1
    BY <2>1, FS_Interval, Zenon
  <2> QED
    BY <1>1, <2>2
<1>3. Missed(t) \in SUBSET all
  BY DEF Missed
<1>4. IsFiniteSet(Missed(t)) /\ Cardinality(Missed(t)) \in Nat /\ Cardinality(Missed(t)) <= e[t]
  BY <1>2, <1>3, FS_Subset, FS_CardinalityType DEF FInv, MissedCounted
<1>5. IsFiniteSet(K) /\ Cardinality(K) = processed[t] - Cardinality(Missed(t))
  <2>1. all \cap Missed(t) = Missed(t)
    BY <1>3
  <2>2. /\ IsFiniteSet(all \ Missed(t))
        /\ Cardinality(all \ Missed(t)) = Cardinality(all) - Cardinality(all \cap Missed(t))
    BY <1>2, FS_Difference, Zenon
  <2> HIDE DEF all
  <2> QED
    BY <1>2, <2>1, <2>2
<1>6. K \in SUBSET all /\ At(t, K) \subseteq accepted
  BY DEF At, Missed
<1> HIDE DEF all, K
<1>7. IsFiniteSet(At(t, K)) /\ Cardinality(At(t, K)) = Cardinality(K) /\ Cardinality(K) \in Nat
  BY <1>5, AsManyAt, FS_CardinalityType
<1>8. processed[t] - e[t] <= Cardinality(At(t, K))
  BY <1>1, <1>4, <1>5, <1>7
<1> QED
  BY <1>6, <1>7, <1>8 DEF all

LEMMA SwitchedStep == ASSUME FInv, Switched PROVE FInv'
<1> USE DEF FInv
<1>1. /\ step = "half" /\ step' = "done" /\ tier = "NVRAM"
      /\ result' = (processed["DRAM"] - e["DRAM"]) + (processed["NVRAM"] - e["NVRAM"])
      /\ UNCHANGED <<replyVars, mode, count, tier, addr, processed, old_n_processed, node_i>>
      /\ UNCHANGED <<n_migrated, e, last_read, sent, accepted, resumed>>
  BY DEF Switched, arrays, batches, history
<1>2. \A t \in Tier : Handled(t)' = Handled(t) /\ Handled(t) = processed[t]
  BY <1>1 DEF Handled
<1>3. /\ "DRAM" \in Tier /\ "NVRAM" \in Tier
      /\ \A t \in Tier : processed[t] \in Nat /\ e[t] \in Nat
  BY DEF FindTypes, Tier
<1>4. FindTypes'
  BY <1>1, <1>3 DEF FindTypes
<1>5. mode = "SWITCH_MODE"
  BY <1>1 DEF OnePass
<1>6. OnePass'
  BY <1>1, <1>5 DEF OnePass
<1>7. result' <= Cardinality(accepted)
  <2>1. PICK D \in SUBSET (0 .. processed["DRAM"] - 1) :
           /\ At("DRAM", D) \subseteq accepted
           /\ IsFiniteSet(At("DRAM", D)) /\ Cardinality(At("DRAM", D)) \in Nat
           /\ processed["DRAM"] - e["DRAM"] <= Cardinality(At("DRAM", D))
    BY <1>2, <1>3, AcceptedAtLeast
  <2>2. PICK N \in SUBSET (0 .. processed["NVRAM"] - 1) :
           /\ At("NVRAM", N) \subseteq accepted
           /\ IsFiniteSet(At("NVRAM", N)) /\ Cardinality(At("NVRAM", N)) \in Nat
           /\ processed["NVRAM"] - e["NVRAM"] <= Cardinality(At("NVRAM", N))
    BY <1>2, <1>3, AcceptedAtLeast
  <2> DEFINE d == At("DRAM", D)
             n == At("NVRAM", N)
  <2>3. d \cap n = {}
    BY DEF At
  <2> HIDE DEF d, n
  <2>4. Cardinality(d \cap n) = 0
    BY <2>3, FS_EmptySet, Zenon
  <2>5. Cardinality(d \cup n) = Cardinality(d) + Cardinality(n) - Cardinality(d \cap n)
    BY <2>1, <2>2, FS_Union DEF d, n
  <2>6. IsFiniteSet(accepted)
    <3>1. count \in Nat /\ IsFiniteSet(Tier) /\ accepted \in SUBSET (Tier \X (0 .. count - 1))
      <4>1. Tier = {"DRAM"} \cup {"NVRAM"}
        BY DEF Tier
      <4>2. IsFiniteSet(Tier)
        BY <4>1, FS_Singleton, FS_Union
      <4> QED
        BY <4>2 DEF FindTypes, MissedCounted
    <3> QED
      BY <3>1, FinitePairs
  <2>7. Cardinality(d \cup n) <= Cardinality(accepted)
    <3>1. d \cup n \in SUBSET accepted
      BY <2>1, <2>2 DEF d, n
    <3> QED
      BY <2>6, <3>1, FS_Subset
  <2>8. Cardinality(accepted) \in Nat
    BY <2>6, FS_CardinalityType
  <2>9. /\ Cardinality(d) \in Nat /\ Cardinality(n) \in Nat
        /\ processed["DRAM"] - e["DRAM"] <= Cardinality(d)
        /\ processed["NVRAM"] - e["NVRAM"] <= Cardinality(n)
    BY <2>1, <2>2 DEF d, n
  <2> QED
    BY <1>1, <1>3, <2>4, <2>5, <2>7, <2>8, <2>9
<1>8. CountIsHonest'
  BY <1>1, <1>5, <1>7 DEF CountIsHonest
<1> QED
  BY <1>1, <1>2, <1>4, <1>6, <1>8, Frame

LEMMA FInvStep == FInv /\ [Next]_vars => FInv'
<1> SUFFICES ASSUME FInv, [Next]_vars PROVE FInv'
  OBVIOUS
<1>1. CASE ReplyNext /\ UNCHANGED findVars
  BY <1>1, ReplyPartStep
<1>2. CASE Count
  BY <1>2, CountStep
<1>3. CASE Assign
  BY <1>3, AssignStep
<1>4. CASE BeginBatches
  BY <1>4, BeginBatchesStep
<1>5. CASE NoRoom
  BY <1>5, NoRoomStep
<1>6. CASE Batch
  BY <1>6, BatchStep
<1>7. CASE Migrated
  BY <1>7, MigratedStep
<1>8. CASE HalfMigrated
  BY <1>8, HalfMigratedStep
<1>9. CASE OtherHalf \/ NextPass
  BY <1>9, OtherHalfStep
<1>10. CASE Switched
  BY <1>10, SwitchedStep
<1>11. CASE UNCHANGED vars
  <2>1. /\ UNCHANGED <<replyVars, mode, step, count, tier, addr, processed, old_n_processed>>
        /\ UNCHANGED <<node_i, n_migrated, e, free, result, last_read, sent, accepted, resumed>>
    BY <1>11 DEF vars, findVars, arrays, batches, history
  <2>2. UNCHANGED <<at, found_addrs, n_found, candidates>>
    BY <2>1 DEF replyVars, module
  <2>3. IInv'
    BY <2>1, IInvStep DEF FInv
  <2>4. \A t \in Tier : Base(t)' = Base(t) /\ Handled(t)' = Handled(t) /\ Sent(t)' = Sent(t)
    BY <2>1 DEF Base, Handled, Sent
  <2>5. \A t \in Tier : Missed(t)' = Missed(t) /\ Excepted(t)' = Excepted(t)
    BY <2>1, <2>4 DEF Missed, Excepted
  <2>6. FindTypes' /\ Untouched' /\ ReadsInReply' /\ CountIsHonest'
    BY <2>1, <2>2 DEF FInv, FindTypes, Untouched, ReadsInReply, CountIsHonest
  <2>7. (\E h \in Nat : Reply(h))'
    BY <2>1, <2>2 DEF FInv, Reply
  <2>8. Counted' /\ AddrAligned' /\ SentHandled'
    BY <2>1, <2>2, <2>4, <2>5 DEF FInv, Counted, AddrAligned, SentHandled
  <2>9. MissedCounted' /\ OnePass'
    BY <2>1, <2>4, <2>5 DEF FInv, FindTypes, MissedCounted, OnePass
  <2> QED
    BY <2>3, <2>6, <2>7, <2>8, <2>9 DEF FInv
<1> QED
  BY <1>1, <1>2, <1>3, <1>4, <1>5, <1>6, <1>7, <1>8, <1>9, <1>10, <1>11 DEF Next, Migration

(* The inductive invariant of the exchange and of the migration after it.  *)
THEOREM FindInvariance == Spec => []FInv
BY FInvInit, FInvStep, PTL DEF Spec

-----------------------------------------------------------------------------
(* What follows.                                                           *)

(* The state keeps its types, addr as long as processed says.              *)
THEOREM MigrationTypeCorrect == Spec => []TypeOK
<1> DEFINE Free == free \in [Tier -> BOOLEAN]
<1>1. Init => Free
  BY Zenon DEF Init
<1>2. FInv /\ Free /\ [Next]_vars => Free'
  <2> SUFFICES ASSUME FInv, Free, [Next]_vars PROVE Free'
    OBVIOUS
  <2>1. \/ UNCHANGED free
        \/ free' = [free EXCEPT ![tier] = TRUE]
        \/ free' = [free EXCEPT ![tier] = FALSE]
    BY DEF Next, Migration, vars, findVars, batches, Count, Assign, BeginBatches, NoRoom, Batch,
           Migrated, HalfMigrated, OtherHalf, NextPass, Switched
  <2>2. tier \in Tier
    BY DEF FInv, FindTypes
  <2>3. free' \in [Tier -> BOOLEAN]
    BY <2>1, <2>2
  <2> QED
    BY <2>3
<1>3. FInv /\ Free => TypeOK
  <2> SUFFICES ASSUME FInv, Free PROVE TypeOK
    OBVIOUS
  <2>1. ReplyTypeOK
    BY Elements DEF FInv, IInv, Types, ReplyTypeOK
  <2>2. count \in Slot
    <3>1. count \in Nat /\ n_found \in 1 .. Room /\ Room \in Nat /\ "NVRAM" \in Tier
      BY Elements DEF FInv, IInv, Types, FindTypes, Tier
    <3>2. count < n_found
      BY <3>1 DEF FInv, Untouched, Counted, Base
    <3> QED
      BY <3>1, <3>2, Elements
  <2>3. \A t \in Tier : Len(addr[t]) = processed[t] /\ processed[t] \in 0 .. count
    BY DEF FInv, FindTypes
  <2> QED
    BY <2>1, <2>2, <2>3 DEF FInv, FindTypes, TypeOK
<1>4. Spec => []Free
  <2> HIDE DEF Free
  <2> QED
    BY <1>1, <1>2, FindInvariance, PTL DEF Spec
<1> HIDE DEF Free
<1> QED
  BY <1>3, <1>4, FindInvariance, PTL

(* No loop of send_find or its callees reads an entry that the reply did
   not write.                                                              *)
THEOREM LoopsStayInReply == Spec => []ReadsInReply
BY FindInvariance, PTL DEF FInv

(* The number send_find returns is what move_pages accepted, or less in a
   switch.                                                                 *)
THEOREM HonestCount == Spec => []CountIsHonest
BY FindInvariance, PTL DEF FInv

(* Every page that was given a node is sent under its own process, and no
   other, but for the DRAM pages of a switch in a second pass.             *)
THEOREM AssignedAreSent == Spec => []SendsAssigned
<1>1. FInv => SendsAssigned
  <2> SUFFICES ASSUME FInv, step = "done",
                      NEW t \in IF resumed THEN {"NVRAM"} ELSE Tier
               PROVE  Sent(t) = GivenNode(t)
    BY DEF SendsAssigned
  <2>1. t \in Tier /\ ~Excepted(t)
    BY DEF Excepted, Tier
  <2>2. Handled(t) = processed[t]
    BY DEF Handled
  <2> QED
    BY <2>1, <2>2 DEF FInv, SentHandled, GivenNode
<1> QED
  BY <1>1, FindInvariance, PTL

-----------------------------------------------------------------------------
(* A send_find is finite: every step of the exchange and of the migration  *)
(* brings four numbers down in their lexicographic order, so there is no   *)
(* endless run of steps, however little room the nodes have and whatever   *)
(* fails to move.  SendFindEnds adds that the next step is taken.          *)

\* How far send_find is.
Stage ==
    IF step = "done" \/ at = "lost" THEN 0
    ELSE IF step # "send_req" THEN 1
    ELSE IF at = "count" THEN 2
    ELSE IF at = "copy" THEN 3
    ELSE IF at = "sent" THEN 4 ELSE 5

\* Pages that have no node to go to yet.
Left == (count - processed["DRAM"]) + (count - processed["NVRAM"])

\* What free says of a tier when its half ends, unless more pages find a node.
HadRoom(t) ==
    IF step = "assign" /\ t = tier THEN old_n_processed < processed[t] ELSE free[t]

\* The halves that are still begun unless more pages find a node: a pass in which
\* none does is the last one.
Halves ==
    IF mode # "SWITCH_MODE" THEN 0
    ELSE IF tier = "DRAM" THEN (IF HadRoom("DRAM") THEN 3 ELSE 1)
    ELSE IF HadRoom("DRAM") \/ HadRoom("NVRAM") THEN 2 ELSE 0

\* What the loop that is under way has before it: messages, nodes, pages.
Turns ==
    IF step = "send_req" THEN (IF at = "put" THEN MAX_PACKETS - Len(skb) ELSE Len(buffer))
    ELSE IF step = "assign" THEN
        count + 2 + (IF node_i < n_nodes(tier) THEN n_nodes(tier) - node_i ELSE 0)
    ELSE IF step = "batch" THEN processed[tier] - n_migrated + 1
    ELSE 0

Measured == Stage \in Nat /\ Left \in Nat /\ Halves \in Nat /\ Turns \in Nat

Decreases ==
    \/ Stage' < Stage
    \/ Stage' = Stage /\ Left' < Left
    \/ Stage' = Stage /\ Left' = Left /\ Halves' < Halves
    \/ Stage' = Stage /\ Left' = Left /\ Halves' = Halves /\ Turns' < Turns

LEMMA MeasureTypes == ASSUME FInv PROVE Measured
<1> USE DEF FInv
<1>1. Stage \in Nat /\ Halves \in Nat
  BY DEF Stage, Halves
<1>2. Left \in Nat
  BY DEF Left, FindTypes, Tier
<1>3. Len(buffer) \in Nat /\ MAX_PACKETS - Len(skb) \in Nat
  <2>1. required_packets \in 1 .. MAX_PACKETS /\ Len(skb) <= required_packets
    BY Sizes DEF IInv, Putting
  <2> QED
    BY <2>1, PacketAssumption DEF IInv, Types
<1>4. /\ count \in Nat /\ processed[tier] \in Nat /\ n_migrated \in Nat /\ node_i \in Nat
      /\ n_nodes(tier) \in Nat /\ (step = "batch" => n_migrated <= processed[tier])
  BY Nodes DEF FindTypes
<1>5. Turns \in Nat
  <2> DEFINE n == n_nodes(tier)
             p == processed[tier]
  <2>1. n \in Nat /\ p \in Nat /\ (step = "batch" => n_migrated <= p)
    BY <1>4
  <2>2. Turns = IF step = "send_req" THEN (IF at = "put" THEN MAX_PACKETS - Len(skb) ELSE Len(buffer))
                ELSE IF step = "assign" THEN count + 2 + (IF node_i < n THEN n - node_i ELSE 0)
                ELSE IF step = "batch" THEN p - n_migrated + 1
                ELSE 0
    BY DEF Turns
  <2> HIDE DEF n, p
  <2> QED
    BY <1>3, <1>4, <2>1, <2>2
<1> QED
  BY <1>1, <1>2, <1>5 DEF Measured

LEMMA ExchangeDecreases == ASSUME FInv, ReplyNext, UNCHANGED findVars PROVE Decreases
<1> USE DEF FInv
<1>1. at # "count"
  BY DEF ReplyNext, NoSkb, PutMessage, PutLastMessage, Recvmsg, CopyMessage, CopyEnd
<1>2. step = "send_req" /\ UNCHANGED <<step, count, processed, tier, mode, old_n_processed, free>>
  BY <1>1 DEF Untouched, findVars, arrays, batches
<1>3. Left' = Left
  BY <1>2 DEF Left
<1>4. Halves' = Halves
  BY <1>2 DEF Halves, HadRoom
<1>5. CASE NoSkb \/ PutLastMessage \/ Recvmsg \/ CopyEnd
  BY <1>2, <1>5 DEF NoSkb, PutLastMessage, Recvmsg, CopyEnd, Stage, Decreases
<1>6. CASE PutMessage
  <2>1. at = "put" /\ at' = "put" /\ Stage' = Stage
    BY <1>2, <1>6 DEF PutMessage, Stage
  <2>2. Len(skb') = Len(skb) + 1 /\ Len(skb) \in Nat
    <3>1. skb \in Seq(Seq(Entry)) /\ skb' = Append(skb, Message(Len(skb), MAX_N_PER_PACKET))
      BY <1>6 DEF PutMessage, IInv, Types
    <3> QED
      BY <3>1
  <2>3. Turns' < Turns
    BY <1>2, <2>1, <2>2, PacketAssumption DEF Turns
  <2> QED
    BY <1>3, <1>4, <2>1, <2>3 DEF Decreases
<1>7. CASE CopyMessage
  <2>1. at = "copy" /\ at' = "copy" /\ Stage' = Stage
    BY <1>2, <1>7 DEF CopyMessage, Stage
  <2>2. Len(buffer') = Len(buffer) - 1 /\ Len(buffer) \in Nat
    <3>1. buffer \in Seq(Seq(Entry)) /\ buffer # << >> /\ buffer' = Tail(buffer)
      BY <1>7 DEF CopyMessage, IInv, Types
    <3> QED
      BY <3>1
  <2>3. Turns' < Turns
    BY <1>2, <2>1, <2>2 DEF Turns
  <2> QED
    BY <1>3, <1>4, <2>1, <2>3 DEF Decreases
<1> QED
  BY <1>5, <1>6, <1>7 DEF ReplyNext

(* A node that takes pages leaves fewer; one that has no room is one node
   less to ask.                                                            *)
LEMMA AssignDecreases == ASSUME FInv, Assign PROVE Decreases
<1> USE DEF FInv
<1>1. PICK n \in 0 .. count :
         processed' = [processed EXCEPT ![tier] = @ + MinOf(n, count - processed[tier])]
  BY DEF Assign
<1>2. /\ step = "assign" /\ node_i < n_nodes(tier) /\ processed[tier] < count
      /\ node_i' = node_i + 1
      /\ UNCHANGED <<at, mode, step, count, tier, old_n_processed, free>>
  BY DEF Assign, batches, replyVars
<1> DEFINE taken == MinOf(n, count - processed[tier])
<1>3. /\ tier \in Tier /\ count \in Nat /\ processed \in [Tier -> Nat] /\ node_i \in Nat
      /\ n_nodes(tier) \in Nat
  BY Nodes DEF FindTypes
<1>4. taken \in Nat /\ processed[tier] + taken <= count
  BY <1>2, <1>3 DEF MinOf
<1> HIDE DEF taken
<1>5. /\ processed'[tier] = processed[tier] + taken
      /\ \A t \in Tier : t # tier => processed'[t] = processed[t]
  BY <1>1, <1>3 DEF taken
<1>6. Stage' = Stage
  BY <1>2 DEF Stage
<1>7. CASE taken > 0
  <2>1. Left' < Left
    BY <1>2, <1>3, <1>4, <1>5, <1>7 DEF Left, Tier
  <2> QED
    BY <1>6, <2>1 DEF Decreases
<1>8. CASE taken = 0
  <2>1. \A t \in Tier : processed'[t] = processed[t]
    BY <1>3, <1>5, <1>8
  <2>2. Left' = Left
    BY <1>2, <2>1 DEF Left, Tier
  <2>3. Halves' = Halves
    BY <1>2, <2>1 DEF Halves, HadRoom, Tier
  <2>4. n_nodes(tier)' = n_nodes(tier)
    BY <1>2 DEF n_nodes
  <2>5. Turns' < Turns
    BY <1>2, <1>3, <2>4 DEF Turns
  <2> QED
    BY <1>6, <2>2, <2>3, <2>5 DEF Decreases
<1> QED
  BY <1>4, <1>7, <1>8

(* The turn of one half to the next, and the turns within one.             *)
LEMMA HalfDecreases ==
    ASSUME FInv, free \in [Tier -> BOOLEAN],
           BeginBatches \/ NoRoom \/ Batch \/ HalfMigrated \/ OtherHalf \/ NextPass
    PROVE  Decreases
<1> USE DEF FInv
<1>1. /\ step \in {"assign", "batch", "half"} /\ step' \in {"assign", "batch", "half"}
      /\ UNCHANGED <<at, mode, count, processed>>
  BY DEF BeginBatches, NoRoom, Assigned, Batch, HalfMigrated, OtherHalf, NextPass, BeginHalf,
         arrays, replyVars
<1>2. at = "count"
  BY <1>1 DEF Untouched
<1>3. Stage' = Stage /\ Left' = Left
  BY <1>1, <1>2 DEF Stage, Left
<1>4. /\ tier \in Tier /\ count \in Nat /\ processed[tier] \in Nat /\ n_migrated \in Nat
      /\ processed[tier] <= count /\ n_nodes(tier) \in Nat /\ node_i \in Nat
  BY Nodes DEF FindTypes
<1>5. CASE BeginBatches
  <2>1. /\ step = "assign" /\ step' = "batch" /\ n_migrated' = 0
        /\ UNCHANGED <<tier, old_n_processed>>
        /\ free' = [free EXCEPT ![tier] = TRUE]
        /\ mode # "SWITCH_MODE" \/ old_n_processed < processed[tier]
    BY <1>5 DEF BeginBatches, Assigned, arrays
  <2>2. free'[tier] = TRUE /\ \A t \in Tier : t # tier => free'[t] = free[t]
    BY <1>4, <2>1, Zenon
  <2>3. Halves' = Halves
    BY <1>1, <1>4, <2>1, <2>2 DEF Halves, HadRoom, Tier
  <2>4. Turns' < Turns
    BY <1>1, <1>4, <2>1 DEF Turns
  <2> QED
    BY <1>3, <2>3, <2>4 DEF Decreases
<1>6. CASE NoRoom
  <2>1. /\ step = "assign" /\ step' = "half"
        /\ UNCHANGED <<tier, old_n_processed>>
        /\ free' = [free EXCEPT ![tier] = FALSE]
        /\ old_n_processed >= processed[tier] /\ old_n_processed \in Nat
    BY <1>6 DEF NoRoom, Assigned, arrays, FindTypes
  <2>2. free'[tier] = FALSE /\ \A t \in Tier : t # tier => free'[t] = free[t]
    BY <1>4, <2>1, Zenon
  <2>3. Halves' = Halves
    BY <1>1, <1>4, <2>1, <2>2 DEF Halves, HadRoom, Tier
  <2>4. Turns' < Turns
    BY <1>1, <1>4, <2>1 DEF Turns
  <2> QED
    BY <1>3, <2>3, <2>4 DEF Decreases
<1>7. CASE Batch
  <2>1. /\ step = "batch" /\ step' = "batch" /\ n_migrated' = n_migrated + BatchLength
        /\ UNCHANGED <<tier, free, old_n_processed>> /\ n_migrated < processed[tier]
    BY <1>7 DEF Batch, arrays
  <2>2. BatchLength \in 1 .. count
    BY <2>1, BatchRun
  <2>3. Halves' = Halves
    BY <1>1, <2>1 DEF Halves, HadRoom
  <2>4. Turns' < Turns
    BY <1>1, <1>4, <2>1, <2>2 DEF Turns
  <2> QED
    BY <1>3, <2>3, <2>4 DEF Decreases
<1>8. CASE HalfMigrated
  <2>1. /\ step = "batch" /\ step' = "half"
        /\ UNCHANGED <<tier, free, old_n_processed, n_migrated>>
    BY <1>8 DEF HalfMigrated, arrays, batches
  <2>2. Halves' = Halves
    BY <1>1, <2>1 DEF Halves, HadRoom
  <2>3. n_migrated <= processed[tier]
    BY <2>1 DEF FindTypes
  <2>4. Turns' < Turns
    BY <1>1, <1>4, <2>1, <2>3 DEF Turns
  <2> QED
    BY <1>3, <2>2, <2>4 DEF Decreases
<1>9. CASE OtherHalf
  <2>1. /\ step = "half" /\ tier = "DRAM" /\ step' = "assign" /\ tier' = "NVRAM"
        /\ old_n_processed' = processed["NVRAM"] /\ UNCHANGED free
    BY <1>9 DEF OtherHalf, BeginHalf, batches
  <2>2. mode = "SWITCH_MODE" /\ processed["NVRAM"] \in Nat
    BY <2>1 DEF OnePass, FindTypes, Tier
  <2>3. ~HadRoom("NVRAM")' /\ HadRoom("DRAM")' = HadRoom("DRAM")
    BY <1>1, <2>1, <2>2 DEF HadRoom
  <2>4. Halves' < Halves
    BY <1>1, <2>1, <2>2, <2>3 DEF Halves
  <2> QED
    BY <1>3, <2>4 DEF Decreases
<1>10. CASE NextPass
  <2>1. /\ step = "half" /\ tier = "NVRAM" /\ step' = "assign" /\ tier' = "DRAM"
        /\ old_n_processed' = processed["DRAM"] /\ UNCHANGED free
        /\ \E t \in Tier : free[t]
    BY <1>10 DEF NextPass, AnotherPass, BeginHalf, batches
  <2>2. mode = "SWITCH_MODE" /\ processed["DRAM"] \in Nat
    BY <2>1 DEF OnePass, FindTypes, Tier
  <2>3. ~HadRoom("DRAM")'
    BY <1>1, <2>1, <2>2 DEF HadRoom
  <2>4. HadRoom("DRAM") \/ HadRoom("NVRAM")
    BY <2>1 DEF HadRoom, Tier
  <2>5. Halves' < Halves
    BY <1>1, <2>1, <2>2, <2>3, <2>4 DEF Halves
  <2> QED
    BY <1>3, <2>5 DEF Decreases
<1> QED
  BY <1>5, <1>6, <1>7, <1>8, <1>9, <1>10

(* send_find returns after finitely many steps or waits for a reply that is
   lost: a page that finds a node leaves fewer, a pass in which none does is
   the last, and within a half every node is asked and every page sent once. *)
THEOREM SendFindIsFinite == Spec => []Measured /\ [][Decreases]_vars
<1>1. ASSUME FInv, TypeOK, Next PROVE Decreases
  <2>1. CASE ReplyNext /\ UNCHANGED findVars
    BY <1>1, <2>1, ExchangeDecreases
  <2>2. CASE Count \/ Migrated \/ Switched
    <3>1. at = "count" /\ UNCHANGED at
      BY <1>1, <2>2 DEF Count, Migrated, Switched, FInv, Untouched, replyVars
    <3>2. \/ step = "send_req" /\ step' \in {"done", "assign"}
          \/ step \in {"batch", "half"} /\ step' = "done"
      BY <2>2 DEF Count, Migrated, Switched
    <3> QED
      BY <3>1, <3>2 DEF Stage, Decreases
  <2>3. CASE Assign
    BY <1>1, <2>3, AssignDecreases
  <2>4. CASE BeginBatches \/ NoRoom \/ Batch \/ HalfMigrated \/ OtherHalf \/ NextPass
    BY <1>1, <2>4, HalfDecreases DEF TypeOK
  <2> QED
    BY <1>1, <2>1, <2>2, <2>3, <2>4 DEF Next, Migration
<1>2. FInv => Measured
  BY MeasureTypes
<1>3. FInv /\ TypeOK /\ [Next]_vars => [Decreases]_vars
  BY <1>1
<1> QED
  BY <1>2, <1>3, FindInvariance, MigrationTypeCorrect, PTL DEF Spec
=============================================================================
