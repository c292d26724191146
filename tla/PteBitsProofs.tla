-------------------------- MODULE PteBitsProofs --------------------------
(***************************************************************************)
(* Proofs about PteBits, for any set of pages: what the first list of a    *)
(* FIND holds, in ambix_hyb and in ambix_MixM.                             *)
(***************************************************************************)
EXTENDS PteBits, TLAPS

-----------------------------------------------------------------------------
(* What the callbacks of a CLEAR and of the FIND after it do.              *)

LEMMA ClearCallback ==
    ASSUME walk = "clear"
    PROVE  /\ TierOf(walk) = "NVRAM"
           /\ \A y, d : IsCleaned(y, d) /\ ~ IsTaken(y, d)
<1>1. TierOf(walk) = "NVRAM"
  BY DEF TierOf
<1>2. \A y, d : Cleans(walk, y, d) = TRUE /\ Takes(walk, y, d) = FALSE
  BY Zenon DEF Cleans, Takes
<1>3. walk \notin {"intensive", "switch", "mem"} /\ walk # "intensive" /\ walk # "switch"
  OBVIOUS
<1>4. \A y, d : CleansMixM(walk, y, d) = TRUE
  BY ONLY <1>2, <1>3, Zenon DEF CleansMixM
<1>5. \A y, d : TakesMixM(walk, y, d) = FALSE
  BY ONLY <1>2, <1>3, Zenon DEF TakesMixM
<1>6. \A y, d : IsCleaned(y, d)
  BY ONLY <1>2, <1>4, Zenon DEF IsCleaned
<1>7. \A y, d : ~ IsTaken(y, d)
  BY ONLY <1>2, <1>5, Zenon DEF IsTaken
<1> QED
  BY <1>1, <1>6, <1>7

(* memcheck's FIND takes pages of NVRAM: in ambix_hyb dirty ones, and it
   cleans none of them; in ambix_MixM clean ones.                          *)
LEMMA FindCallback ==
    ASSUME walk \in {"intensive", "switch"}, NEW p
    PROVE  /\ TierOf(walk) = "NVRAM"
           /\ build = "hyb" /\ IsTaken(p \in young, p \in dirty) => p \in dirty
           /\ build = "hyb" => ~ IsCleaned(p \in young, p \in dirty)
           /\ build = "MixM" /\ IsTaken(p \in young, p \in dirty) => p \notin dirty
<1>1. TierOf(walk) = "NVRAM"
  BY DEF TierOf
<1>2. walk # "mem" /\ walk \in {"force", "write", "intensive", "switch"} /\ walk # "force"
      /\ walk # "clear" /\ walk \in {"write", "intensive", "switch"}
  OBVIOUS
<1>3. Takes(walk, p \in young, p \in dirty) => p \in dirty
  BY ONLY <1>2, Zenon DEF Takes
<1>4. Cleans(walk, p \in young, p \in dirty) = FALSE
  BY ONLY <1>2, Zenon DEF Cleans
<1>5. TakesMixM(walk, p \in young, p \in dirty) => p \notin dirty
  BY Zenon DEF TakesMixM
<1>6. build = "hyb" => build # "MixM"
  OBVIOUS
<1>7. build = "hyb" /\ IsTaken(p \in young, p \in dirty) => p \in dirty
  BY ONLY <1>3, <1>6, Zenon DEF IsTaken
<1>8. build = "hyb" => ~ IsCleaned(p \in young, p \in dirty)
  BY ONLY <1>4, <1>6, Zenon DEF IsCleaned
<1>9. build = "MixM" /\ IsTaken(p \in young, p \in dirty) => p \notin dirty
  BY ONLY <1>5, Zenon DEF IsTaken
<1> QED
  BY <1>1, <1>7, <1>8, <1>9

-----------------------------------------------------------------------------
(* The inductive invariant.                                                *)

(* Where a walk is under way and with which callback; nobody joins the list
   while it is.                                                            *)
Walking ==
    /\ phase \in {"idle", "clear", "window", "find", "other"}
    /\ tlb \in [Page -> {"none", "clean", "dirty"}]
    /\ todo \subseteq managed /\ managed \subseteq Page
    /\ taken \subseteq managed /\ deferred \subseteq managed
    /\ phase \in {"idle", "window"} => todo = {}
    /\ phase = "clear" => walk = "clear" /\ late = {}
    /\ phase = "find" => walk \in {"intensive", "switch"}
    /\ phase = "other" => build # "hyb" /\ walk # "clear"

(* ambix_hyb: a dirty page of NVRAM that the CLEAR has been at was written
   since, and this stays so until the FIND has looked at it.               *)
Hot(p) == tier[p] = "NVRAM" /\ p \in dirty => p \in written

DirtyIsWritten ==
    build = "hyb" =>
        /\ phase = "clear" => \A p \in managed \ todo : Hot(p)
        /\ phase \in {"window", "find"} => \A p \in managed \ late : Hot(p)

TakenIsHot ==
    build = "hyb" =>
        /\ taken \subseteq written \cup late
        /\ phase # "find" => taken = {}

(* ambix_MixM: a page of NVRAM that was written since the CLEAR was at it, or
   can be without a trace in its PTE, is dirty, unless another FIND cleaned or
   moved it or a processor held it as dirty at the CLEAR, until the FIND looks
   at it.                                                                  *)
Hit(p) == p \in written \/ tlb[p] = "dirty"

Cold(p) == tier[p] = "NVRAM" /\ Hit(p) => p \in dirty \cup swept \cup stale

WrittenIsDirty ==
    build = "MixM" =>
        /\ \A p \in Page \ managed : Hit(p) => p \in dirty
        /\ phase = "clear" => \A p \in managed \ todo : Cold(p)
        /\ phase \in {"window", "other"} => \A p \in Page : Cold(p)
        /\ phase = "find" => \A p \in todo : Cold(p)

IInv == Walking /\ DirtyIsWritten /\ TakenIsHot /\ WrittenIsDirty

LEMMA IInvInit == Init => IInv
BY DEF Init, IInv, Walking, DirtyIsWritten, TakenIsHot, WrittenIsDirty

LEMMA EnvironmentStep == ASSUME IInv, UNCHANGED build, Environment PROVE IInv'
<1> USE DEF IInv, Walking, DirtyIsWritten, TakenIsHot, WrittenIsDirty, Hot, Cold, Hit, lists, since, bits, window
<1> SUFFICES ASSUME NEW p \in Page, Read(p) \/ Write(p) \/ Age(p) \/ Evict(p) PROVE IInv'
  BY DEF Environment
<1>1. CASE Read(p)
  BY <1>1 DEF Read
<1>2. CASE Write(p)
  BY <1>2 DEF Write
<1>3. CASE Age(p)
  BY <1>3 DEF Age
<1>4. CASE Evict(p)
  BY <1>4 DEF Evict
<1> QED
  BY <1>1, <1>2, <1>3, <1>4

LEMMA BindStep == ASSUME IInv, UNCHANGED build, NEW p \in Page, Bind(p) PROVE IInv'
BY DEF IInv, Walking, DirtyIsWritten, TakenIsHot, WrittenIsDirty, Hot, Cold, Hit,
       lists, since, bits, window, Bind

LEMMA MigrateStep == ASSUME IInv, UNCHANGED build, NEW p \in Page, Migrate(p) PROVE IInv'
BY DEF IInv, Walking, DirtyIsWritten, TakenIsHot, WrittenIsDirty, Hot, Cold, Hit,
       lists, since, bits, window, Migrate, Remap

(* One callback, in each of the three walks.                               *)
LEMMA VisitStep == ASSUME IInv, UNCHANGED build, NEW p \in Page, Visit(p) PROVE IInv'
<1> DEFINE young_p == p \in young
           dirty_p == p \in dirty
           takes == tier[p] = TierOf(walk) /\ IsTaken(young_p, dirty_p)
           cleans == tier[p] = TierOf(walk) /\ IsCleaned(young_p, dirty_p)
<1>1. /\ p \in todo /\ todo' = todo \ {p} /\ p \in managed
      /\ UNCHANGED <<build, managed, tier, tlb, phase, walk, late>>
  BY DEF Visit, IInv, Walking
<1>2. /\ dirty' = dirty \/ dirty' = dirty \ {p}
      /\ written' = written \/ walk = "clear"
      /\ walk # "clear" => written' = written /\ stale' = stale
  BY DEF Visit
<1>3. (cleans /\ dirty' = dirty \ {p}) \/ (~ cleans /\ dirty' = dirty)
  BY Zenon DEF Visit
<1>4. (takes /\ taken' = taken \cup {p}) \/ (~ takes /\ taken' = taken)
  BY Zenon DEF Visit
<1>5. (cleans /\ phase = "other" /\ swept' = swept \cup {p})
      \/ (~ (cleans /\ phase = "other") /\ swept' = swept)
  BY Zenon DEF Visit
<1>6. walk = "clear" /\ tier[p] = TierOf(walk) =>
        /\ written' = written \ {p}
        /\ stale' = IF tlb[p] = "dirty" THEN stale \cup {p} ELSE stale \ {p}
  BY DEF Visit
<1>7. walk = "clear" /\ tier[p] # TierOf(walk) => written' = written /\ stale' = stale
  BY DEF Visit
<1>8. Walking'
  <2>1. taken' \subseteq taken \cup {p} /\ deferred' \subseteq deferred \cup {p}
    BY Zenon DEF Visit
  <2> QED
    BY <1>1, <2>1 DEF IInv, Walking
<1>9. CASE phase = "clear"
  <2>1. walk = "clear" /\ TierOf(walk) = "NVRAM"
    BY <1>9, ClearCallback DEF IInv, Walking
  <2>2. ~ takes
    BY ONLY <2>1, ClearCallback, Zenon
  <2>3. tier[p] = "NVRAM" => cleans
    BY ONLY <2>1, ClearCallback, Zenon
  <2> HIDE DEF takes, cleans
  <2>4. taken' = taken /\ (tier[p] = "NVRAM" => dirty' = dirty \ {p})
    BY <1>3, <1>4, <2>2, <2>3
  <2>5. /\ tier[p] = "NVRAM" =>
              /\ written' = written \ {p} /\ (p \in stale' <=> tlb[p] = "dirty")
              /\ \A q : q # p => (q \in stale' <=> q \in stale)
        /\ tier[p] # "NVRAM" => written' = written /\ stale' = stale
        /\ swept' = swept
    BY <1>5, <1>6, <1>7, <1>9, <2>1
  <2>6. TakenIsHot'
    BY <1>1, <1>9, <2>4, <2>5 DEF IInv, TakenIsHot
  <2>7. DirtyIsWritten'
    BY <1>1, <1>2, <1>9, <2>4, <2>5 DEF IInv, DirtyIsWritten, Hot
  <2>8. WrittenIsDirty'
    BY <1>1, <1>2, <1>9, <2>4, <2>5 DEF IInv, WrittenIsDirty, Cold, Hit
  <2> QED
    BY <1>8, <2>6, <2>7, <2>8 DEF IInv
<1>10. CASE phase = "find"
  <2>1. walk \in {"intensive", "switch"} /\ walk # "clear"
    BY <1>10 DEF IInv, Walking
  <2>2. TierOf(walk) = "NVRAM"
    BY <2>1, FindCallback
  <2>3. build = "hyb" /\ takes => p \in dirty
    BY ONLY <2>1, FindCallback, Zenon
  <2>4. build = "hyb" => ~ cleans
    BY ONLY <2>1, FindCallback, Zenon
  <2>5. takes => tier[p] = "NVRAM"
    BY ONLY <2>2, Zenon
  <2> HIDE DEF takes, cleans
  <2>6. written' = written /\ swept' = swept /\ stale' = stale
    BY <1>2, <1>5, <1>10, <2>1
  <2>7. DirtyIsWritten'
    BY <1>1, <1>3, <1>10, <2>4, <2>6 DEF IInv, DirtyIsWritten, Hot
  <2>8. TakenIsHot'
    BY <1>1, <1>4, <1>10, <2>3, <2>5, <2>6 DEF IInv, TakenIsHot, DirtyIsWritten, Hot
  <2>9. WrittenIsDirty'
    BY <1>1, <1>2, <1>10, <2>6 DEF IInv, WrittenIsDirty, Cold, Hit
  <2> QED
    BY <1>8, <2>7, <2>8, <2>9 DEF IInv
<1>11. CASE phase = "other"
  <2> HIDE DEF takes, cleans
  <2>1. build # "hyb"
    BY <1>11 DEF IInv, Walking
  <2>2. DirtyIsWritten' /\ TakenIsHot'
    BY <1>1, <2>1 DEF DirtyIsWritten, TakenIsHot
  <2>3. \A q \in Page : q \in dirty \cup swept => q \in dirty' \cup swept'
    BY <1>3, <1>5, <1>11
  <2>4. \A q \in Page \ managed : q \in dirty => q \in dirty'
    BY <1>1, <1>2
  <2>5. written' = written /\ stale' = stale
    BY <1>2, <1>11 DEF IInv, Walking
  <2>6. WrittenIsDirty'
    BY <1>1, <1>11, <2>3, <2>4, <2>5 DEF IInv, WrittenIsDirty, Cold, Hit
  <2> QED
    BY <1>8, <2>2, <2>6 DEF IInv
<1>12. phase \in {"clear", "find", "other"}
  BY <1>1 DEF IInv, Walking
<1> QED
  BY <1>9, <1>10, <1>11, <1>12

(* The requests of memcheck, and the other FINDs of ambix_MixM.            *)
LEMMA RequestStep ==
    ASSUME IInv, UNCHANGED build,
           SendClear \/ ClearDone \/ NoFind \/ SendFind \/ FindDone \/ SendOther \/ OtherDone
    PROVE  IInv'
<1> USE DEF IInv, Walking, DirtyIsWritten, TakenIsHot, WrittenIsDirty, Hot, Cold, Hit, lists, since, bits, window
<1>1. CASE SendClear
  BY <1>1 DEF SendClear
<1>2. CASE ClearDone
  BY <1>2 DEF ClearDone
<1>3. CASE NoFind
  BY <1>3 DEF NoFind
<1>4. CASE SendFind
  BY <1>4 DEF SendFind
<1>5. CASE FindDone
  <2> PICK moved \in SUBSET Page : MoveFound(moved)
    BY <1>5 DEF FindDone
  <2>1. /\ phase' = "idle" /\ taken' = {} /\ deferred' = {} /\ todo = {}
        /\ UNCHANGED <<managed, todo, written>>
    BY <1>5 DEF FindDone, MoveFound
  <2>3. /\ tlb' \in [Page -> {"none", "clean", "dirty"}]
        /\ \A q \in Page : tlb'[q] = "dirty" => tlb[q] = "dirty"
    BY DEF MoveFound, Remap
  <2>2. \A q \in Page \ managed : q \in dirty => q \in dirty'
    BY DEF MoveFound, Remap
  <2>4. build = "MixM" => \A q \in Page \ managed : Hit(q)' => q \in dirty'
    BY <2>1, <2>2, <2>3
  <2> QED
    BY <2>1, <2>3, <2>4
<1>6. CASE SendOther
  BY <1>6 DEF SendOther
<1>7. CASE OtherDone
  <2> PICK moved \in SUBSET Page : MoveFound(moved) /\ swept' = swept \cup moved
    BY <1>7 DEF OtherDone
  <2>1. /\ phase = "other" /\ phase' = "window" /\ taken' = {} /\ deferred' = {} /\ todo = {}
        /\ UNCHANGED <<managed, todo, written, stale, late>>
    BY <1>7 DEF OtherDone, MoveFound
  <2>2. \A q \in Page \ managed : q \in dirty => q \in dirty'
    BY DEF MoveFound, Remap
  <2>3. \A q \in Page : q \in swept' \/ (tier'[q] = tier[q] /\ (q \in dirty => q \in dirty')
                                          /\ (q \in swept => q \in swept'))
    BY DEF MoveFound, Remap
  <2>4. build # "hyb"
    BY <2>1
  <2>8. /\ tlb' \in [Page -> {"none", "clean", "dirty"}]
        /\ \A q \in Page : tlb'[q] = "dirty" => tlb[q] = "dirty"
    BY DEF MoveFound, Remap
  <2>5. Walking' /\ DirtyIsWritten' /\ TakenIsHot'
    BY <2>1, <2>4, <2>8
  <2>6. \A q \in Page : Cold(q) => (Cold(q))'
    BY <2>1, <2>3, <2>8
  <2>7. WrittenIsDirty'
    BY <2>1, <2>2, <2>6, <2>8
  <2> QED
    BY <2>5, <2>7
<1> QED
  BY <1>1, <1>2, <1>3, <1>4, <1>5, <1>6, <1>7

LEMMA IInvStep == IInv /\ [Next]_vars => IInv'
<1> SUFFICES ASSUME IInv, [Next]_vars PROVE IInv'
  OBVIOUS
<1>1. CASE UNCHANGED vars
  BY <1>1 DEF vars, bits, since, lists, window, IInv, Walking, DirtyIsWritten, TakenIsHot,
              WrittenIsDirty, Hot, Cold, Hit
<1> QED
  BY <1>1, EnvironmentStep, BindStep, MigrateStep, VisitStep, RequestStep DEF Next

(* The pages ambix_hyb puts first on its list were written after the CLEAR
   was at them, or their process was bound between CLEAR and FIND: a dirty
   bit from before the CLEAR never makes a page a candidate.               *)
THEOREM PrioritiesAreHot == Spec => []PriorityIsHot
<1>1. IInv => PriorityIsHot
  BY DEF IInv, TakenIsHot, PriorityIsHot
<1> QED
  BY <1>1, IInvInit, IInvStep, PTL DEF Spec

(* The pages ambix_MixM puts first on its list were not written since the
   CLEAR was at them, as far as no other FIND came between and no processor
   held them as dirty when the CLEAR was at them.                          *)
THEOREM PrioritiesAreUnwritten == Spec => UnwrittenWhenTaken
<1> DEFINE A == build = "MixM" /\ phase = "find" =>
                  \A p \in taken' \ taken : p \in written => p \in swept \cup stale
<1>1. IInv /\ [Next]_vars => [A]_vars
  <2> SUFFICES ASSUME IInv, Next, build = "MixM", phase = "find",
                      NEW p \in taken', p \notin taken, p \in written
               PROVE  p \in swept \cup stale
    OBVIOUS
  <2>1. walk \in {"intensive", "switch"}
    BY DEF IInv, Walking
  <2>2. PICK q \in Page : Visit(q)
    BY DEF Next, Environment, Read, Write, Age, Evict, Bind, Migrate, SendClear, ClearDone, NoFind,
           SendFind, FindDone, MoveFound, SendOther, OtherDone, lists
  <2>3. p = q /\ q \in todo
    BY <2>2 DEF Visit
  <2>4. tier[q] = TierOf(walk) /\ IsTaken(q \in young, q \in dirty)
    <3>1. CASE tier[q] = TierOf(walk) /\ IsTaken(q \in young, q \in dirty)
      BY ONLY <3>1, Zenon
    <3>2. CASE ~ (tier[q] = TierOf(walk) /\ IsTaken(q \in young, q \in dirty))
      <4>1. taken' = taken
        BY <2>2, <3>2, Zenon DEF Visit
      <4> QED
        BY <4>1
    <3> QED
      BY ONLY <3>1, <3>2, Zenon
  <2>5. TierOf(walk) = "NVRAM"
    BY <2>1, FindCallback
  <2>6. q \notin dirty
    BY <2>1, <2>4, FindCallback, Zenon
  <2>7. Cold(q)
    BY <2>3 DEF IInv, WrittenIsDirty
  <2>8. tier[q] = "NVRAM"
    BY ONLY <2>4, <2>5, Zenon
  <2> QED
    BY <2>3, <2>6, <2>7, <2>8 DEF Cold, Hit
<1>2. Spec => [][A]_vars
  BY <1>1, IInvInit, IInvStep, PTL DEF Spec
<1> QED
  BY <1>2 DEF UnwrittenWhenTaken
=============================================================================
