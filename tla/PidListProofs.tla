--------------------------- MODULE PidListProofs ---------------------------
(***************************************************************************)
(* Proofs about PidList, for any number of tasks, any capacity and any     *)
(* assignment of process numbers to tasks.                                 *)
(***************************************************************************)
EXTENDS PidList, FiniteSetTheorems, FunctionTheorems, TLAPS

-----------------------------------------------------------------------------
(* The inductive invariant.  Beside the properties themselves it records   *)
(* what each step of the handler leaves for the next one.                  *)

(* An empty list leaves both cursors at address 0, so that the first
   process bound next is walked from its start.                            *)
EmptyListFresh == n_pids = 0 => \A t \in Tier : last_addr[t] = 0

(* A number recorded as absent is still out of use.                        *)
AbsentNotInUse == \A p \in absent : ~Exists(p)

(* What the handler knows at each step.                                    *)
HandlerState ==
    /\ pc # "idle" => req \in Request
    /\ pc \in {"bind", "attach"} => req.op = "BIND_OP"
    /\ pc = "unbind" => req.op = "UNBIND_OP"
    /\ pc = "walk" => req.op = "FIND_OP" /\ n_pids > 0
    /\ pc # "refresh" => i = 0
    /\ pc = "attach" =>
          /\ pid_s \in Task /\ PidOf[pid_s] = req.arg
          /\ req.arg \notin ManagedPids /\ req.arg \notin absent
          /\ n_pids < BIND_LIMIT

(* The entries below the loop index of refresh_pids have been looked at.   *)
RefreshProgress ==
    pc = "refresh" =>
        \A j \in 0 .. n_pids - 1 : j < i => PidOf[task_items[j]] \notin absent

IInv ==
    /\ TypeOK
    /\ CursorInRange
    /\ EmptyListFresh
    /\ DistinctPids
    /\ AbsentNotInUse
    /\ HandlerState
    /\ RefreshProgress
    /\ RefreshDropsDead
    /\ UnbindForgets

-----------------------------------------------------------------------------
(* A removal, as far as the proofs need to know it: the entries before k   *)
(* stay, the ones after it move down by one, and a cursor follows its      *)
(* entry.                                                                  *)
LEMMA Removal ==
    ASSUME TypeOK, NEW k \in 0 .. n_pids - 1, UpdatePidList(k)
    PROVE  /\ n_pids' = n_pids - 1 /\ n_pids' \in 0 .. BIND_LIMIT
           /\ task_items' \in [Slot -> Task \cup {NoTask}]
           /\ \A j \in 0 .. n_pids' - 1 :
                 /\ j < k => task_items'[j] = task_items[j]
                 /\ j >= k => task_items'[j] = task_items[j + 1]
                 /\ task_items'[j] \in Task
           /\ last_pid' \in [Tier -> Nat]
           /\ last_addr' \in [Tier -> Addr]
           /\ \A t \in Tier :
                 /\ last_pid[t] > k => last_pid'[t] = last_pid[t] - 1
                 /\ last_pid[t] < k => last_pid'[t] = last_pid[t]
                 /\ last_pid[t] = k => last_pid'[t] \in {0, last_pid[t]}
                 /\ last_pid[t] = k /\ k = n_pids - 1 => last_pid'[t] = 0
                 /\ last_pid[t] # k => last_addr'[t] = last_addr[t]
                 /\ last_pid[t] = k => last_addr'[t] = 0
<1> USE CapacityAssumption, AddrAssumption
<1>1. n_pids \in Nat /\ n_pids <= BIND_LIMIT /\ BIND_LIMIT \in Nat
  BY DEF TypeOK
<1>2. n_pids' = n_pids - 1 /\ n_pids' \in 0 .. BIND_LIMIT
  BY <1>1 DEF UpdatePidList
<1>3. task_items' = [j \in Slot |->
          IF j \in k .. n_pids - 2 THEN task_items[j + 1] ELSE task_items[j]]
  BY DEF UpdatePidList, EntryAfter
<1>4. \A j \in Slot : task_items[j] \in Task \cup {NoTask}
  BY DEF TypeOK
<1>5. task_items' \in [Slot -> Task \cup {NoTask}]
  BY <1>1, <1>3, <1>4 DEF Slot
<1>6. \A j \in 0 .. n_pids' - 1 :
         /\ j < k => task_items'[j] = task_items[j]
         /\ j >= k => task_items'[j] = task_items[j + 1]
         /\ task_items'[j] \in Task
  BY <1>1, <1>2, <1>3 DEF Slot, TypeOK
<1>7. \A t \in Tier : last_pid[t] \in Nat /\ last_addr[t] \in Addr
  BY DEF TypeOK
<1>8. /\ last_pid' \in [Tier -> Nat]
      /\ \A t \in Tier :
            /\ last_pid[t] > k => last_pid'[t] = last_pid[t] - 1
            /\ last_pid[t] < k => last_pid'[t] = last_pid[t]
            /\ last_pid[t] = k => last_pid'[t] \in {0, last_pid[t]}
            /\ last_pid[t] = k /\ k = n_pids - 1 => last_pid'[t] = 0
  BY <1>1, <1>7 DEF UpdatePidList, CursorAfter
<1>9. /\ last_addr' \in [Tier -> Addr]
      /\ \A t \in Tier :
            /\ last_pid[t] # k => last_addr'[t] = last_addr[t]
            /\ last_pid[t] = k => last_addr'[t] = 0
  BY <1>7 DEF UpdatePidList, AddrAfter
<1>10. QED
  BY <1>2, <1>5, <1>6, <1>8, <1>9

(* Types are preserved.                                                    *)
LEMMA TypeStep ==
    ASSUME TypeOK, HandlerState, [Next]_vars
    PROVE  TypeOK'
<1> USE TaskAssumption, CapacityAssumption, AddrAssumption
<1>1. ASSUME NEW t \in Task, Start(t) PROVE TypeOK'
  BY <1>1 DEF TypeOK, Start, list
<1>2. ASSUME NEW t \in Task, Exit(t) PROVE TypeOK'
  BY <1>2 DEF TypeOK, Exit, list
<1>3. ASSUME NEW t \in Task, Reap(t) PROVE TypeOK'
  BY <1>3 DEF TypeOK, Reap, list
<1>4. ASSUME NEW r \in Request, Receive(r) PROVE TypeOK'
  BY <1>4 DEF TypeOK, Receive, list
<1>5. CASE RefreshDrop
  <2>1. i \in 0 .. n_pids - 1
    BY <1>5 DEF RefreshDrop, TypeOK
  <2>2. QED
    BY <1>5, <2>1, Removal DEF RefreshDrop, TypeOK
<1>6. CASE RefreshKeep
  BY <1>6 DEF TypeOK, RefreshKeep, list
<1>7. CASE RefreshEnd
  BY <1>7 DEF TypeOK, RefreshEnd, list
<1>8. CASE BindRefuse
  BY <1>8 DEF TypeOK, BindRefuse, list
<1>9. CASE BindLookup
  <2>1. \E t \in Task : PidOf[t] = req.arg /\ life[t] \in {"running", "zombie"}
    BY <1>9 DEF BindLookup, Refused, Exists
  <2>2. pid_s' \in Task
    BY <1>9, <2>1 DEF BindLookup
  <2>3. QED
    BY <1>9, <2>2 DEF TypeOK, BindLookup, list
<1>10. CASE BindAttach
  <2>1. pid_s \in Task /\ n_pids < BIND_LIMIT
    BY <1>10 DEF BindAttach, HandlerState
  <2>2. CASE life[pid_s] = "reaped"
    BY <1>10, <2>2 DEF TypeOK, BindAttach
  <2>3. CASE life[pid_s] # "reaped"
    <3>1. n_pids \in Slot
      BY <2>1 DEF Slot, TypeOK
    <3>2. /\ task_items' = [task_items EXCEPT ![n_pids] = pid_s]
          /\ n_pids' = n_pids + 1 /\ ret' = 0 /\ pc' = "reply"
          /\ UNCHANGED <<life, last_pid, last_addr, req, i, absent>>
          /\ pid_s' = NoTask
      BY <1>10, <2>3 DEF BindAttach
    <3>3. task_items' \in [Slot -> Task \cup {NoTask}] /\ n_pids' \in 0 .. BIND_LIMIT
      BY <2>1, <3>1, <3>2 DEF TypeOK
    <3>4. \A j \in 0 .. n_pids' - 1 : task_items'[j] \in Task
      BY <2>1, <3>1, <3>2 DEF TypeOK, Slot
    <3>5. QED
      BY <3>2, <3>3, <3>4 DEF TypeOK
  <2>4. QED
    BY <2>2, <2>3
<1>11. CASE Unbind
  <2>1. CASE req.arg \in ManagedPids
    <3>1. PICK k \in 0 .. n_pids - 1 : UpdatePidList(k)
      BY <1>11, <2>1 DEF Unbind
    <3>2. QED
      BY <1>11, <2>1, <3>1, Removal DEF Unbind, TypeOK
  <2>2. CASE req.arg \notin ManagedPids
    BY <1>11, <2>2 DEF Unbind, TypeOK, list
  <2>3. QED
    BY <2>1, <2>2
<1>12. CASE Walk
  <2>1. last_pid' \in [Tier -> Nat] /\ last_addr' \in [Tier -> Addr]
    BY <1>12 DEF Walk, TypeOK
  <2>2. ret' \in {0, -1}
    BY <1>12 DEF Walk
  <2>3. QED
    BY <1>12, <2>1, <2>2 DEF Walk, TypeOK
<1>13. CASE Reply
  BY <1>13 DEF TypeOK, Reply, list
<1>14. CASE UNCHANGED vars
  BY <1>14 DEF TypeOK, vars, list
<1>15. QED
  BY <1>1, <1>2, <1>3, <1>4, <1>5, <1>6, <1>7, <1>8, <1>9, <1>10, <1>11, <1>12,
     <1>13, <1>14 DEF Next, Environment, Handler

-----------------------------------------------------------------------------
(* A removal keeps the cursors in range and the numbers distinct, and takes
   the number of entry k, and no other, off the list.                      *)
LEMMA RemovalKeeps ==
    ASSUME TypeOK, CursorInRange, EmptyListFresh, DistinctPids,
           NEW k \in 0 .. n_pids - 1, UpdatePidList(k)
    PROVE  /\ CursorInRange' /\ EmptyListFresh' /\ DistinctPids'
           /\ ManagedPids' \subseteq ManagedPids \ {PidOf[task_items[k]]}
<1>1. n_pids \in Nat /\ \A t \in Tier : last_pid[t] \in Nat
  BY DEF TypeOK
<1>2. CursorInRange'
  BY <1>1, Removal DEF CursorInRange
<1>3. EmptyListFresh'
  <2>1. ASSUME NEW t \in Tier, n_pids' = 0 PROVE last_addr'[t] = 0
    <3>1. n_pids = 1 /\ k = 0 /\ last_pid[t] = 0
      BY <1>1, <2>1, Removal DEF CursorInRange
    <3>2. QED
      BY <3>1, Removal
  <2>2. QED
    BY <2>1 DEF EmptyListFresh
<1>4. \A j \in 0 .. n_pids' - 1 :
         \E m \in 0 .. n_pids - 1 :
            m # k /\ m = (IF j < k THEN j ELSE j + 1) /\ task_items'[j] = task_items[m]
  BY <1>1, Removal
<1>5. DistinctPids'
  <2>1. ASSUME NEW j \in 0 .. n_pids' - 1, NEW l \in 0 .. n_pids' - 1,
               PidOf[task_items'[j]] = PidOf[task_items'[l]]
        PROVE  j = l
    <3>1. (IF j < k THEN j ELSE j + 1) = (IF l < k THEN l ELSE l + 1)
      BY <1>4, <2>1 DEF DistinctPids
    <3>2. QED
      BY <1>1, <3>1, Removal
  <2>2. QED
    BY <2>1 DEF DistinctPids
<1>6. ManagedPids' \subseteq ManagedPids \ {PidOf[task_items[k]]}
  BY <1>4 DEF ManagedPids, DistinctPids
<1>7. QED
  BY <1>2, <1>3, <1>5, <1>6

(* unbind_pid removes one entry, the one with the number it was given, or
   changes nothing because there is none.                                  *)
LEMMA UnbindRemoves ==
    ASSUME Unbind
    PROVE  \/ \E k \in 0 .. n_pids - 1 :
                  PidOf[task_items[k]] = req.arg /\ UpdatePidList(k)
           \/ req.arg \notin ManagedPids /\ UNCHANGED list
BY DEF Unbind

(* What holds of the list alone is preserved.                              *)
LEMMA ListStep ==
    ASSUME IInv, [Next]_vars
    PROVE  CursorInRange' /\ EmptyListFresh' /\ DistinctPids'
<1> USE CapacityAssumption, AddrAssumption DEF IInv
<1>1. ASSUME UNCHANGED list PROVE CursorInRange' /\ EmptyListFresh' /\ DistinctPids'
  BY <1>1 DEF list, CursorInRange, EmptyListFresh, DistinctPids
<1>2. CASE RefreshDrop
  <2>1. i \in 0 .. n_pids - 1
    BY <1>2 DEF RefreshDrop, TypeOK
  <2>2. QED
    BY <1>2, <2>1, RemovalKeeps DEF RefreshDrop
<1>3. CASE Unbind
  BY <1>1, <1>3, UnbindRemoves, RemovalKeeps
<1>4. CASE BindAttach
  <2>1. CASE life[pid_s] = "reaped"
    BY <1>1, <1>4, <2>1 DEF BindAttach, list
  <2>2. CASE life[pid_s] # "reaped"
    <3>1. /\ task_items' = [task_items EXCEPT ![n_pids] = pid_s]
          /\ n_pids' = n_pids + 1
          /\ UNCHANGED <<last_pid, last_addr>>
      BY <1>4, <2>2 DEF BindAttach
    <3>2. /\ n_pids \in Nat /\ n_pids \in Slot
          /\ task_items'[n_pids] = pid_s
          /\ \A j \in 0 .. n_pids - 1 : task_items'[j] = task_items[j]
      BY <1>4, <3>1 DEF BindAttach, HandlerState, TypeOK, Slot
    <3>3. CursorInRange'
      BY <3>1, <3>2 DEF CursorInRange, TypeOK
    <3>4. EmptyListFresh'
      BY <3>1, <3>2 DEF EmptyListFresh
    <3>5. \A j \in 0 .. n_pids - 1 : PidOf[task_items[j]] # PidOf[pid_s]
      BY <1>4 DEF BindAttach, HandlerState, ManagedPids
    <3>6. DistinctPids'
      BY <3>1, <3>2, <3>5 DEF DistinctPids
    <3>7. QED
      BY <3>3, <3>4, <3>6
  <2>3. QED
    BY <2>1, <2>2
<1>5. CASE Walk
  <2>1. n_pids > 0 /\ n_pids \in Nat /\ UNCHANGED <<task_items, n_pids>>
    BY <1>5 DEF Walk, HandlerState, TypeOK
  <2>2. \A t \in Tier : last_pid'[t] \in 0 .. n_pids - 1 \/ last_pid'[t] = last_pid[t]
    BY <1>5 DEF Walk
  <2>3. QED
    BY <2>1, <2>2 DEF CursorInRange, EmptyListFresh, DistinctPids
<1>6. CASE ~(RefreshDrop \/ Unbind \/ BindAttach \/ Walk)
  <2>1. UNCHANGED list
    BY <1>6 DEF Next, Environment, Handler, Start, Exit, Reap, Receive, RefreshKeep,
       RefreshEnd, BindRefuse, BindLookup, Reply, vars, list
  <2>2. QED
    BY <1>1, <2>1
<1>7. QED
  BY <1>2, <1>3, <1>4, <1>5, <1>6

-----------------------------------------------------------------------------
(* No step but a new request records a number as absent, and a number comes
   back into use only through Start, which strikes it off the record.      *)
LEMMA AbsentStep ==
    ASSUME IInv, [Next]_vars
    PROVE  /\ AbsentNotInUse'
           /\ pc # "idle" => absent' \subseteq absent
<1> USE TaskAssumption DEF IInv
<1>1. ASSUME NEW t \in Task, Start(t) PROVE AbsentNotInUse' /\ absent' \subseteq absent
  <2>1. absent' = absent \ {PidOf[t]} /\ life' = [life EXCEPT ![t] = "running"]
    BY <1>1 DEF Start
  <2>2. \A u \in Task : u # t => life'[u] = life[u]
    BY <2>1 DEF TypeOK
  <2>3. QED
    BY <2>1, <2>2 DEF AbsentNotInUse, Exists
<1>2. ASSUME NEW t \in Task, Exit(t) \/ Reap(t)
      PROVE  AbsentNotInUse' /\ absent' \subseteq absent
  <2>1. /\ absent' = absent
        /\ \A u \in Task :
              life'[u] \in {"running", "zombie"} => life[u] \in {"running", "zombie"}
    BY <1>2 DEF Exit, Reap, TypeOK
  <2>2. QED
    BY <2>1 DEF AbsentNotInUse, Exists
<1>3. ASSUME NEW r \in Request, Receive(r) PROVE AbsentNotInUse' /\ pc = "idle"
  BY <1>3 DEF Receive, AbsentNotInUse, Exists
<1>4. CASE UNCHANGED <<life, absent>>
  BY <1>4 DEF AbsentNotInUse, Exists
<1>5. CASE Reply
  BY <1>5 DEF Reply, AbsentNotInUse
<1>6. CASE Handler /\ ~Reply
  BY <1>4, <1>6 DEF Handler, RefreshDrop, RefreshKeep, RefreshEnd, BindRefuse,
     BindLookup, BindAttach, Unbind, Walk
<1>7. QED
  BY <1>1, <1>2, <1>3, <1>4, <1>5, <1>6 DEF Next, Environment, vars

(* Each step of the handler finds what the one before it left.             *)
LEMMA HandlerStep ==
    ASSUME IInv, [Next]_vars
    PROVE  HandlerState'
<1> USE TaskAssumption DEF IInv
<1>1. ASSUME NEW t \in Task, Start(t) \/ Exit(t) \/ Reap(t) PROVE HandlerState'
  <2>1. UNCHANGED <<list, pc, req, i, pid_s>> /\ absent' \subseteq absent
    BY <1>1 DEF Start, Exit, Reap
  <2>2. QED
    BY <2>1 DEF HandlerState, ManagedPids, list
<1>2. ASSUME NEW r \in Request, Receive(r) PROVE HandlerState'
  BY <1>2 DEF Receive, HandlerState, Request
<1>3. CASE RefreshDrop \/ RefreshKeep
  BY <1>3 DEF RefreshDrop, RefreshKeep, HandlerState
<1>4. CASE RefreshEnd
  <2>1. req \in Request
    BY <1>4 DEF RefreshEnd, HandlerState
  <2>2. /\ pc' \in {"bind", "walk", "reply"} /\ i' = 0
        /\ pc' = "bind" => req.op = "BIND_OP"
        /\ pc' = "walk" => req.op = "FIND_OP" /\ n_pids > 0
    BY <1>4 DEF RefreshEnd
  <2>3. QED
    BY <1>4, <2>1, <2>2 DEF RefreshEnd, HandlerState, Request, list
<1>5. CASE BindLookup
  <2>1. \E t \in Task : PidOf[t] = req.arg /\ life[t] \in {"running", "zombie"}
    BY <1>5 DEF BindLookup, Refused, Exists
  <2>2. pid_s' \in Task /\ PidOf[pid_s'] = req.arg
    BY <1>5, <2>1 DEF BindLookup
  <2>3. req.arg \notin absent
    BY <1>5 DEF BindLookup, Refused, AbsentNotInUse
  <2>4. n_pids < BIND_LIMIT /\ req.arg \notin ManagedPids
    BY <1>5, CapacityAssumption DEF BindLookup, Refused, AlreadyManaged, TypeOK
  <2>5. QED
    BY <1>5, <2>2, <2>3, <2>4 DEF BindLookup, HandlerState, ManagedPids, list
<1>6. CASE Unbind
  BY <1>6 DEF Unbind, HandlerState, Request
<1>7. CASE BindRefuse \/ BindAttach \/ Walk \/ Reply
  BY <1>7 DEF BindRefuse, BindAttach, Walk, Reply, HandlerState
<1>8. CASE UNCHANGED vars
  BY <1>8 DEF vars, list, HandlerState, ManagedPids
<1>9. QED
  BY <1>1, <1>2, <1>3, <1>4, <1>5, <1>6, <1>7, <1>8 DEF Next, Environment, Handler

(* The loop of refresh_pids leaves no entry behind whose number is absent. *)
LEMMA RefreshStep ==
    ASSUME IInv, [Next]_vars
    PROVE  RefreshProgress' /\ RefreshDropsDead'
<1> USE DEF IInv
<1>1. pc # "idle" => absent' \subseteq absent
  BY AbsentStep
<1>2. ASSUME UNCHANGED <<list, pc, i>>, pc # "idle"
      PROVE  RefreshProgress' /\ RefreshDropsDead'
  BY <1>1, <1>2 DEF RefreshProgress, RefreshDropsDead, list
<1>3. CASE pc' = "idle"
  BY <1>3 DEF RefreshProgress, RefreshDropsDead
<1>4. ASSUME NEW r \in Request, Receive(r) PROVE RefreshProgress' /\ RefreshDropsDead'
  BY <1>4 DEF Receive, HandlerState, RefreshProgress, RefreshDropsDead, TypeOK
<1>5. CASE RefreshDrop
  <2>1. i \in 0 .. n_pids - 1
    BY <1>5 DEF RefreshDrop, TypeOK
  <2>2. RefreshProgress'
    BY <1>1, <1>5, <2>1, Removal DEF RefreshDrop, RefreshProgress, TypeOK
  <2>3. QED
    BY <1>5, <2>2 DEF RefreshDrop, RefreshDropsDead
<1>6. CASE RefreshKeep
  <2>1. Exists(PidOf[task_items[i]]) /\ i' = i + 1 /\ pc = "refresh"
        /\ UNCHANGED <<list, pc, absent>>
    BY <1>6 DEF RefreshKeep
  <2>2. PidOf[task_items[i]] \notin absent
    BY <2>1 DEF AbsentNotInUse
  <2>3. \A j \in 0 .. n_pids - 1 : j < i + 1 => j < i \/ j = i
    BY DEF TypeOK
  <2>4. RefreshProgress'
    BY <2>1, <2>2, <2>3 DEF RefreshProgress, list
  <2>5. QED
    BY <2>1, <2>4 DEF RefreshDropsDead
<1>7. CASE RefreshEnd
  <2>1. /\ pc = "refresh" /\ i >= n_pids /\ UNCHANGED <<list, absent>>
        /\ pc' \in {"bind", "walk", "reply"}
    BY <1>7 DEF RefreshEnd
  <2>2. \A j \in 0 .. n_pids - 1 : j < i
    BY <2>1 DEF TypeOK
  <2>3. QED
    BY <2>1, <2>2 DEF RefreshProgress, RefreshDropsDead, list
<1>8. CASE BindRefuse \/ BindLookup \/ Walk
  BY <1>8 DEF BindRefuse, BindLookup, Walk, RefreshProgress, RefreshDropsDead, list
<1>9. CASE BindAttach
  <2>1. /\ pc = "attach" /\ pc' = "reply" /\ absent' = absent
        /\ \/ UNCHANGED <<task_items, n_pids>>
           \/ /\ task_items' = [task_items EXCEPT ![n_pids] = pid_s]
              /\ n_pids' = n_pids + 1
    BY <1>9 DEF BindAttach
  <2>2. PidOf[pid_s] \notin absent /\ n_pids \in Slot
    BY <2>1, CapacityAssumption DEF HandlerState, TypeOK, Slot
  <2>3. \A j \in 0 .. n_pids' - 1 : PidOf[task_items'[j]] \notin absent
    BY <2>1, <2>2, CapacityAssumption DEF RefreshDropsDead, TypeOK, Slot
  <2>4. QED
    BY <2>1, <2>3 DEF RefreshProgress, RefreshDropsDead
<1>10. CASE Unbind
  BY <1>10 DEF Unbind, HandlerState, RefreshProgress, RefreshDropsDead, TypeOK
<1>11. CASE UNCHANGED <<list, pc, i>>
  BY <1>2, <1>3, <1>11
<1>12. CASE Reply
  BY <1>3, <1>12 DEF Reply
<1>13. QED
  BY <1>4, <1>5, <1>6, <1>7, <1>8, <1>9, <1>10, <1>11, <1>12
     DEF Next, Environment, Handler, Start, Exit, Reap, vars

(* An answered UNBIND stays answered until the reply.                      *)
LEMMA UnbindStep ==
    ASSUME IInv, [Next]_vars
    PROVE  UnbindForgets'
<1> USE DEF IInv
<1>1. CASE Unbind
  <2>1. ASSUME NEW k \in 0 .. n_pids - 1, PidOf[task_items[k]] = req.arg, UpdatePidList(k)
        PROVE  req.arg \notin ManagedPids'
    BY <2>1, RemovalKeeps
  <2>2. req.arg \notin ManagedPids /\ UNCHANGED list => req.arg \notin ManagedPids'
    BY DEF ManagedPids, list
  <2>3. req.arg \notin ManagedPids' /\ req' = req
    BY <1>1, <2>1, <2>2, UnbindRemoves DEF Unbind
  <2>4. QED
    BY <2>3 DEF UnbindForgets
<1>2. CASE RefreshDrop
  <2>1. i \in 0 .. n_pids - 1
    BY <1>2 DEF RefreshDrop, TypeOK
  <2>2. ManagedPids' \subseteq ManagedPids
    BY <1>2, <2>1, RemovalKeeps DEF RefreshDrop
  <2>3. QED
    BY <1>2, <2>2 DEF RefreshDrop, UnbindForgets
<1>3. CASE RefreshKeep \/ RefreshEnd
  BY <1>3 DEF RefreshKeep, RefreshEnd, UnbindForgets, ManagedPids, list
<1>4. ASSUME NEW r \in Request, Receive(r) PROVE UnbindForgets'
  BY <1>4 DEF Receive, UnbindForgets
<1>5. CASE BindRefuse \/ BindLookup \/ BindAttach
  BY <1>5 DEF BindRefuse, BindLookup, BindAttach, HandlerState, UnbindForgets
<1>6. CASE Reply
  BY <1>6 DEF Reply, UnbindForgets
<1>7. CASE Walk
  BY <1>7 DEF Walk, UnbindForgets, HandlerState, ManagedPids
<1>8. CASE UNCHANGED <<list, pc, req>>
  BY <1>8 DEF UnbindForgets, ManagedPids, list
<1>9. QED
  BY <1>1, <1>2, <1>3, <1>4, <1>5, <1>6, <1>7, <1>8
     DEF Next, Environment, Handler, Start, Exit, Reap, vars

-----------------------------------------------------------------------------
(* Nothing is managed before the first request.                            *)
LEMMA IInvInit == Init => IInv
<1> SUFFICES ASSUME Init PROVE IInv
  OBVIOUS
<1> USE TaskAssumption, CapacityAssumption, AddrAssumption DEF Init
<1>1. TypeOK
  BY DEF TypeOK
<1>2. CursorInRange /\ EmptyListFresh /\ DistinctPids
  BY DEF CursorInRange, EmptyListFresh, DistinctPids
<1>3. AbsentNotInUse /\ HandlerState /\ RefreshProgress /\ RefreshDropsDead
  BY DEF AbsentNotInUse, HandlerState, RefreshProgress, RefreshDropsDead
<1>4. UnbindForgets
  BY DEF UnbindForgets, NoRequest
<1>5. QED
  BY <1>1, <1>2, <1>3, <1>4 DEF IInv

LEMMA IInvStep == IInv /\ [Next]_vars => IInv'
<1> SUFFICES ASSUME IInv, [Next]_vars PROVE IInv'
  OBVIOUS
<1>1. TypeOK'
  BY TypeStep DEF IInv
<1>2. QED
  BY <1>1, ListStep, AbsentStep, HandlerStep, RefreshStep, UnbindStep DEF IInv

(* The inductive invariant holds in every reachable state.                 *)
THEOREM Inductive == Spec => []IInv
BY IInvInit, IInvStep, PTL DEF Spec

(* Types, for every number of tasks, capacity and assignment of numbers.   *)
THEOREM TypeCorrect == Spec => []TypeOK
<1>1. IInv => TypeOK
  BY DEF IInv
<1>2. QED
  BY <1>1, Inductive, PTL

(* update_pid_list and the walks keep both cursors inside the list, so the
   unchecked task_items[last_pid] of do_page_walk is always an entry.      *)
THEOREM CursorsStayInRange == Spec => []CursorInRange
<1>1. IInv => CursorInRange
  BY DEF IInv
<1>2. QED
  BY <1>1, Inductive, PTL

(* The list never holds one process number twice.                          *)
THEOREM NumbersDistinct == Spec => []DistinctPids
<1>1. IInv => DistinctPids
  BY DEF IInv
<1>2. QED
  BY <1>1, Inductive, PTL

(* After refresh_pids no entry is left whose number has been out of use
   since the request came in.                                              *)
THEOREM RefreshIsComplete == Spec => []RefreshDropsDead
<1>1. IInv => RefreshDropsDead
  BY DEF IInv
<1>2. QED
  BY <1>1, Inductive, PTL

(* unbind_pid leaves no entry with the number it was given.                *)
THEOREM UnbindIsComplete == Spec => []UnbindForgets
<1>1. IInv => UnbindForgets
  BY DEF IInv
<1>2. QED
  BY <1>1, Inductive, PTL

(* With the guard of ambix_hyb the list stays inside its allocation.       *)
THEOREM HybStaysWithinArray == BIND_LIMIT = MAX_PIDS => (Spec => []WithinArray)
<1> SUFFICES ASSUME BIND_LIMIT = MAX_PIDS PROVE Spec => []WithinArray
  OBVIOUS
<1>1. IInv => WithinArray
  BY CapacityAssumption DEF IInv, TypeOK, WithinArray
<1>2. QED
  BY <1>1, Inductive, PTL

-----------------------------------------------------------------------------
(* A removal moves a cursor with its process, or to address 0.             *)
LEMMA RemovalMovesCursor ==
    ASSUME TypeOK, CursorInRange, DistinctPids,
           NEW k \in 0 .. n_pids - 1, UpdatePidList(k), NEW t \in Tier
    PROVE  IF task_items[last_pid[t]] \in Managed'
             THEN /\ task_items'[last_pid'[t]] = task_items[last_pid[t]]
                  /\ last_addr'[t] = last_addr[t]
             ELSE last_addr'[t] = 0
<1>1. n_pids \in Nat /\ last_pid[t] \in 0 .. n_pids - 1
  BY DEF TypeOK, CursorInRange
<1>2. CASE last_pid[t] = k
  <2>1. \A j \in 0 .. n_pids' - 1 :
           \E m \in 0 .. n_pids - 1 : m # k /\ task_items'[j] = task_items[m]
    BY <1>1, Removal
  <2>2. task_items[k] \notin Managed'
    BY <2>1 DEF DistinctPids, Managed
  <2>3. QED
    BY <1>2, <2>2, Removal
<1>3. CASE last_pid[t] < k
  <2>1. last_pid'[t] = last_pid[t] /\ last_pid[t] \in 0 .. n_pids' - 1
    BY <1>1, <1>3, Removal
  <2>2. QED
    BY <1>3, <2>1, Removal DEF Managed
<1>4. CASE last_pid[t] > k
  <2>1. last_pid'[t] = last_pid[t] - 1 /\ last_pid'[t] \in 0 .. n_pids' - 1
    BY <1>1, <1>4, Removal
  <2>2. task_items'[last_pid'[t]] = task_items[last_pid[t]]
    BY <1>1, <1>4, <2>1, Removal
  <2>3. QED
    BY <1>4, <2>1, <2>2, Removal DEF Managed
<1>5. QED
  BY <1>1, <1>2, <1>3, <1>4

(* CursorFollowsTask, for one step.                                        *)
CursorFollows ==
    \A t \in Tier :
        LET at == task_items[last_pid[t]] IN
        IF n_pids > 0 /\ at \in Managed'
          THEN task_items'[last_pid'[t]] = at /\ last_addr'[t] = last_addr[t]
          ELSE last_addr'[t] = 0

LEMMA CursorFollowsStep ==
    ASSUME IInv, Next, ~Walk
    PROVE  CursorFollows
<1> USE DEF IInv
<1>1. /\ n_pids \in Nat
      /\ \A t \in Tier : n_pids > 0 => last_pid[t] \in 0 .. n_pids - 1
      /\ \A t \in Tier : n_pids = 0 => last_addr[t] = 0
  BY DEF TypeOK, CursorInRange, EmptyListFresh
<1>2. ASSUME UNCHANGED list PROVE CursorFollows
  <2>1. n_pids > 0 => \A t \in Tier : task_items[last_pid[t]] \in Managed'
    BY <1>1, <1>2 DEF list, Managed
  <2>2. QED
    BY <1>1, <1>2, <2>1 DEF list, CursorFollows
<1>3. ASSUME NEW k \in 0 .. n_pids - 1, UpdatePidList(k) PROVE CursorFollows
  BY <1>1, <1>3, RemovalMovesCursor DEF CursorFollows
<1>4. CASE RefreshDrop
  <2>1. i \in 0 .. n_pids - 1
    BY <1>4 DEF RefreshDrop, TypeOK
  <2>2. QED
    BY <1>3, <1>4, <2>1 DEF RefreshDrop
<1>5. CASE Unbind
  BY <1>2, <1>3, <1>5, UnbindRemoves
<1>6. CASE BindAttach
  <2>1. CASE life[pid_s] = "reaped"
    BY <1>2, <1>6, <2>1 DEF BindAttach, list
  <2>2. CASE life[pid_s] # "reaped"
    <3>1. /\ task_items' = [task_items EXCEPT ![n_pids] = pid_s]
          /\ n_pids' = n_pids + 1
          /\ UNCHANGED <<last_pid, last_addr>>
      BY <1>6, <2>2 DEF BindAttach
    <3>2. \A j \in 0 .. n_pids - 1 : task_items'[j] = task_items[j] /\ j \in 0 .. n_pids' - 1
      BY <1>1, <3>1 DEF TypeOK
    <3>3. n_pids > 0 => \A t \in Tier : task_items[last_pid[t]] \in Managed'
      BY <1>1, <3>2 DEF Managed
    <3>4. QED
      BY <1>1, <3>1, <3>2, <3>3 DEF CursorFollows
  <2>3. QED
    BY <2>1, <2>2
<1>7. CASE ~(RefreshDrop \/ Unbind \/ BindAttach)
  <2>1. UNCHANGED list
    BY <1>7 DEF Next, Environment, Handler, Start, Exit, Reap, Receive, RefreshKeep,
       RefreshEnd, BindRefuse, BindLookup, Reply
  <2>2. QED
    BY <1>2, <2>1
<1>8. QED
  BY <1>4, <1>5, <1>6, <1>7

(* Outside a walk, a cursor stays with its process at its address, or goes
   back to address 0 because the process left the list.                    *)
THEOREM CursorsFollowTasks == Spec => CursorFollowsTask
<1>1. IInv /\ [Next]_vars => [~Walk => CursorFollows]_vars
  BY CursorFollowsStep
<1>2. QED
  BY <1>1, Inductive, PTL DEF Spec, CursorFollowsTask, CursorFollows

-----------------------------------------------------------------------------
(* The list implements ManagedSet.  The mapping needs two facts more: the  *)
(* reply is -1 until a request is served, and a task that was looked up is *)
(* no unborn one.                                                          *)

Served == pc = "reply" \/ (pc = "refresh" /\ req.op = "UNBIND_OP")

MInv ==
    /\ ~Served => ret = -1
    /\ pc = "attach" => life[pid_s] # "unborn"

LEMMA MInvInit == Init => MInv
BY DEF Init, MInv, Served

LEMMA MInvStep == IInv /\ MInv /\ [Next]_vars => MInv'
<1> SUFFICES ASSUME IInv, MInv, [Next]_vars PROVE MInv'
  OBVIOUS
<1> USE DEF IInv
<1>1. CASE Environment
  <2>1. UNCHANGED <<pc, req, ret, pid_s>> /\ \A t \in Task : life[t] # "unborn" => life'[t] # "unborn"
    BY <1>1 DEF Environment, Start, Exit, Reap, TypeOK
  <2>2. pc = "attach" => pid_s \in Task
    BY DEF HandlerState
  <2> QED
    BY <2>1, <2>2 DEF MInv, Served
<1>2. ASSUME NEW r \in Request, Receive(r) PROVE MInv'
  BY <1>2 DEF Receive, MInv, Served
<1>3. CASE RefreshDrop \/ RefreshKeep
  BY <1>3 DEF RefreshDrop, RefreshKeep, MInv, Served
<1>4. CASE RefreshEnd
  <2>1. /\ pc = "refresh" /\ UNCHANGED <<req, ret, life, pid_s>>
        /\ req.op = "UNBIND_OP" => pc' = "reply"
        /\ pc' \in {"bind", "walk", "reply"}
    BY <1>4 DEF RefreshEnd
  <2> QED
    BY <2>1 DEF MInv, Served
<1>5. CASE BindLookup
  <2>1. \E t \in Task : PidOf[t] = req.arg /\ life[t] \in {"running", "zombie"}
    BY <1>5 DEF BindLookup, Refused, Exists
  <2>2. life[pid_s'] \in {"running", "zombie"}
    BY <1>5, <2>1 DEF BindLookup
  <2> QED
    BY <1>5, <2>2 DEF BindLookup, MInv, Served
<1>6. CASE BindRefuse \/ BindAttach \/ Walk
  BY <1>6 DEF BindRefuse, BindAttach, Walk, MInv, Served
<1>7. CASE Unbind
  BY <1>7 DEF Unbind, MInv, Served, HandlerState
<1>8. CASE Reply
  BY <1>8 DEF Reply, MInv, Served
<1>9. CASE UNCHANGED vars
  BY <1>9 DEF vars, MInv, Served
<1> QED
  BY <1>1, <1>2, <1>3, <1>4, <1>5, <1>6, <1>7, <1>8, <1>9 DEF Next, Handler

(* Phase, without CASE.                                                    *)
LEMMA Phases ==
    /\ pc = "idle" => Phase = "idle"
    /\ pc # "idle" /\ Served => Phase = "served"
    /\ pc # "idle" /\ ~Served => Phase = "pending"
<1>1. pc = "idle" => ~Served
  BY DEF Served
<1> QED
  BY <1>1, Zenon DEF Phase, Served

LEMMA PhasesPrimed ==
    /\ pc' = "idle" => Phase' = "idle"
    /\ pc' # "idle" /\ Served' => Phase' = "served"
    /\ pc' # "idle" /\ ~Served' => Phase' = "pending"
<1>1. pc' = "idle" => ~Served'
  BY DEF Served
<1> QED
  BY <1>1, Zenon DEF Phase, Served

LEMMA SameExists == \A p : Exists(p) <=> Abstract!Exists(p)
BY DEF Exists, Abstract!Exists

(* As many tasks are managed as the list is long.                          *)
LEMMA Size ==
    ASSUME TypeOK, DistinctPids
    PROVE  IsFiniteSet(Managed) /\ Cardinality(Managed) = n_pids
<1> DEFINE S == 0 .. n_pids - 1
           f == [j \in S |-> task_items[j]]
<1>1. n_pids \in Nat
  BY CapacityAssumption DEF TypeOK
<1>2. IsFiniteSet(S) /\ Cardinality(S) = n_pids
  <2>1. 0 \in Int /\ n_pids - 1 \in Int
    BY <1>1
  <2>2. IsFiniteSet(S) /\ Cardinality(S) = IF 0 > n_pids - 1 THEN 0 ELSE (n_pids - 1) - 0 + 1
    BY <2>1, FS_Interval, Zenon
  <2> QED
    BY <1>1, <2>2
<1>3. f \in [S -> Managed]
  BY DEF Managed
<1>4. \A a, b \in S : f[a] = f[b] => a = b
  BY DEF DistinctPids
<1>5. \A t \in Managed : \E j \in S : f[j] = t
  BY DEF Managed
<1>6. f \in Bijection(S, Managed)
  <2> HIDE DEF f, S
  <2> QED
    BY <1>3, <1>4, <1>5, Fun_IsBij
<1>7. ExistsBijection(S, Managed)
  BY <1>6 DEF ExistsBijection
<1> HIDE DEF S
<1> QED
  BY <1>2, <1>7, FS_Bijection

(* update_pid_list takes one task off the set.                             *)
LEMMA RemovalManaged ==
    ASSUME TypeOK, DistinctPids, NEW k \in 0 .. n_pids - 1, UpdatePidList(k)
    PROVE  Managed' = Managed \ {task_items[k]}
<1>1. n_pids \in Nat
  BY DEF TypeOK
<1>2. \A j \in 0 .. n_pids' - 1 :
         \E m \in 0 .. n_pids - 1 : m # k /\ task_items'[j] = task_items[m]
  BY <1>1, Removal
<1>3. \A m \in 0 .. n_pids - 1 : m # k =>
         \E j \in 0 .. n_pids' - 1 : task_items'[j] = task_items[m]
  <2> SUFFICES ASSUME NEW m \in 0 .. n_pids - 1, m # k
               PROVE  \E j \in 0 .. n_pids' - 1 : task_items'[j] = task_items[m]
    OBVIOUS
  <2>1. CASE m < k
    BY <1>1, <2>1, Removal
  <2>2. CASE m > k
    <3>1. m - 1 \in 0 .. n_pids' - 1 /\ m - 1 >= k /\ m - 1 + 1 = m
      BY <1>1, <2>2, Removal
    <3>2. task_items'[m - 1] = task_items[m]
      BY <3>1, Removal
    <3> QED
      BY <3>1, <3>2
  <2> QED
    BY <1>1, <2>1, <2>2
<1>4. \A m \in 0 .. n_pids - 1 : m # k => task_items[m] # task_items[k]
  BY DEF DistinctPids
<1> QED
  BY <1>2, <1>3, <1>4 DEF Managed

\* ManagedSet counts as PidList does.
LEMMA SameCardinality == ASSUME NEW S PROVE Abstract!Cardinality(S) = Cardinality(S)
BY Zenon DEF Abstract!Cardinality, Cardinality

LEMMA AbstractInit == Init => Abstract!Init
<1> SUFFICES ASSUME Init PROVE Abstract!Init
  OBVIOUS
<1>1. Managed = {}
  BY DEF Init, Managed
<1>2. Phase = "idle"
  BY Phases DEF Init
<1> QED
  BY <1>1, <1>2 DEF Init, NoRequest, Abstract!Init

(* The numbers in the list are those of the managed tasks.                 *)
LEMMA HoldersOf ==
    ASSUME NEW p
    PROVE  /\ Abstract!Holders(p) = {t \in Managed : PidOf[t] = p}
           /\ Abstract!Holders(p) = {} <=> p \notin ManagedPids
BY DEF Abstract!Holders, Managed, ManagedPids

LEMMA AbstractStep ==
    IInv /\ MInv /\ [Next]_vars => [Abstract!Next]_Abstract!vars
<1> SUFFICES ASSUME IInv, MInv, [Next]_vars PROVE [Abstract!Next]_Abstract!vars
  OBVIOUS
<1> USE DEF IInv
<1>1. ASSUME UNCHANGED <<task_items, n_pids>> PROVE Managed' = Managed
  BY <1>1 DEF Managed
<1>2. ASSUME UNCHANGED <<pc, req>> PROVE Phase' = Phase
  BY <1>2 DEF Phase
<1>3. Cardinality(Managed) = n_pids /\ n_pids \in Nat
  BY Size DEF TypeOK
<1>4. ASSUME NEW t \in Task, Start(t) \/ Exit(t) \/ Reap(t) PROVE Abstract!Live(t)
  <2>1. UNCHANGED <<task_items, n_pids, pc, req, ret>>
    BY <1>4 DEF Start, Exit, Reap, list
  <2>2. \/ life[t] = "unborn" /\ ~Exists(PidOf[t]) /\ life' = [life EXCEPT ![t] = "running"]
        \/ life[t] = "running" /\ life' = [life EXCEPT ![t] = "zombie"]
        \/ life[t] = "zombie" /\ life' = [life EXCEPT ![t] = "reaped"]
    BY <1>4 DEF Start, Exit, Reap
  <2> QED
    BY <1>1, <1>2, <2>1, <2>2, SameExists DEF Abstract!Live
<1>5. ASSUME NEW r \in Request, Receive(r) PROVE Abstract!Receive(r)
  <2>1. Phase = "idle" /\ UNCHANGED <<task_items, n_pids, life, ret>> /\ req' = r
    BY <1>5, Phases DEF Receive, list
  <2>2. Phase' = "pending"
    BY <1>5, PhasesPrimed DEF Receive, Served
  <2> QED
    BY <1>1, <2>1, <2>2 DEF Abstract!Receive
(* The entry that is dropped is one task of the set.                       *)
<1>6. CASE RefreshDrop
  <2> DEFINE t == task_items[i]
  <2>1. i \in 0 .. n_pids - 1 /\ ~Exists(PidOf[t]) /\ UpdatePidList(i)
        /\ pc = "refresh" /\ UNCHANGED <<life, pc, req, ret>>
    BY <1>6 DEF RefreshDrop, TypeOK
  <2>2. t \in Task /\ t \in Managed
    BY <2>1 DEF TypeOK, Managed
  <2>3. Managed' = Managed \ {t}
    BY <2>1, RemovalManaged
  <2>4. Phase # "idle"
    BY <2>1, Phases
  <2>5. Abstract!Drop(t)
    BY <1>2, <2>1, <2>2, <2>3, <2>4, SameExists DEF Abstract!Drop
  <2> QED
    BY <2>2, <2>5 DEF Abstract!Next
<1>7. CASE RefreshKeep
  <2>1. UNCHANGED <<task_items, n_pids, life, pc, req, ret>>
    BY <1>7 DEF RefreshKeep, list
  <2> QED
    BY <1>1, <1>2, <2>1 DEF Abstract!vars
(* The end of the loop answers a FIND that has nothing to walk, and an
   UNBIND was answered before it.                                          *)
<1>8. CASE RefreshEnd
  <2>1. /\ pc = "refresh" /\ UNCHANGED <<task_items, n_pids, life, req, ret>>
        /\ req \in Request
    BY <1>8 DEF RefreshEnd, list, HandlerState
  <2>2. req.op \in {"BIND_OP", "FIND_OP", "UNBIND_OP"}
    BY <2>1 DEF Request
  <2>3. CASE req.op = "UNBIND_OP"
    <3>1. pc' = "reply"
      BY <1>8, <2>3 DEF RefreshEnd
    <3>2. Phase = "served" /\ Phase' = "served"
      BY <2>1, <2>3, <3>1, Phases, PhasesPrimed DEF Served
    <3> QED
      BY <1>1, <2>1, <3>2 DEF Abstract!vars
  <2>4. CASE pc' \in {"bind", "walk"} /\ req.op # "UNBIND_OP"
    <3>1. Phase = "pending" /\ Phase' = "pending"
      BY <2>1, <2>4, Phases, PhasesPrimed DEF Served
    <3> QED
      BY <1>1, <2>1, <3>1 DEF Abstract!vars
  <2>5. CASE pc' \notin {"bind", "walk"} /\ req.op # "UNBIND_OP"
    <3>1. req.op = "FIND_OP" /\ pc' = "reply"
      BY <1>8, <2>2, <2>5 DEF RefreshEnd
    <3>2. Phase = "pending" /\ Phase' = "served" /\ ret = -1
      BY <2>1, <3>1, Phases, PhasesPrimed DEF Served, MInv
    <3>3. Abstract!Find
      BY <1>1, <2>1, <3>1, <3>2 DEF Abstract!Find, Abstract!Serve
    <3> QED
      BY <3>3 DEF Abstract!Next
  <2> QED
    BY <2>3, <2>4, <2>5
<1>9. CASE BindRefuse
  <2>1. /\ pc = "bind" /\ pc' = "reply" /\ ret' = -1 /\ Refused
        /\ UNCHANGED <<task_items, n_pids, life, req>>
        /\ req.op = "BIND_OP"
    BY <1>9 DEF BindRefuse, list, HandlerState
  <2>2. Phase = "pending" /\ Phase' = "served"
    BY <2>1, Phases, PhasesPrimed DEF Served
  <2>3. \/ ~Abstract!Exists(req.arg)
        \/ Cardinality(Managed) >= BIND_LIMIT
        \/ Abstract!Holders(req.arg) # {}
    <3>1. req.arg = 0 => ~Exists(req.arg)
      BY TaskAssumption DEF Exists
    <3> QED
      BY <1>3, <2>1, <3>1, SameExists, HoldersOf DEF Refused, AlreadyManaged
  <2>4. Abstract!Refuse
    <3>1. Abstract!Serve("BIND_OP", -1) /\ Managed' = Managed
      BY <1>1, <2>1, <2>2 DEF Abstract!Serve
    <3> QED
      BY <2>3, <3>1, SameCardinality, Zenon DEF Abstract!Refuse
  <2> QED
    BY <2>4 DEF Abstract!Next
<1>10. CASE BindLookup
  <2>1. /\ pc = "bind" /\ pc' = "attach"
        /\ UNCHANGED <<task_items, n_pids, life, req, ret>>
    BY <1>10 DEF BindLookup, list
  <2>2. Phase = "pending" /\ Phase' = "pending"
    BY <2>1, Phases, PhasesPrimed DEF Served
  <2> QED
    BY <1>1, <2>1, <2>2 DEF Abstract!vars
<1>11. CASE BindAttach
  <2>1. /\ pc = "attach" /\ pc' = "reply" /\ UNCHANGED <<life, req>>
        /\ req.op = "BIND_OP"
        /\ pid_s \in Task /\ PidOf[pid_s] = req.arg
        /\ req.arg \notin ManagedPids /\ n_pids < BIND_LIMIT
    BY <1>11 DEF BindAttach, HandlerState
  <2>2. Phase = "pending" /\ Phase' = "served"
    BY <2>1, Phases, PhasesPrimed DEF Served
  <2>3. CASE life[pid_s] = "reaped"
    <3>1. ret' = -1 /\ UNCHANGED <<task_items, n_pids>>
      BY <1>11, <2>3 DEF BindAttach
    <3>2. Abstract!Refuse
      BY <1>1, <2>1, <2>2, <2>3, <3>1 DEF Abstract!Refuse, Abstract!Serve
    <3> QED
      BY <3>2 DEF Abstract!Next
  <2>4. CASE life[pid_s] # "reaped"
    <3>1. ret' = 0 /\ task_items' = [task_items EXCEPT ![n_pids] = pid_s] /\ n_pids' = n_pids + 1
      BY <1>11, <2>4 DEF BindAttach
    <3>2. Managed' = Managed \cup {pid_s}
      <4>1. n_pids \in Slot
        BY <1>3, <2>1, CapacityAssumption DEF Slot
      <4>2. task_items'[n_pids] = pid_s /\ \A j \in 0 .. n_pids - 1 : task_items'[j] = task_items[j]
        BY <1>3, <3>1, <4>1 DEF TypeOK
      <4>3. 0 .. n_pids' - 1 = (0 .. n_pids - 1) \cup {n_pids}
        BY <1>3, <3>1
      <4> QED
        BY <4>2, <4>3 DEF Managed
    <3>3. life[pid_s] \in {"running", "zombie"}
      BY <2>1, <2>4 DEF MInv, TypeOK
    <3>4. Cardinality(Managed) < BIND_LIMIT /\ Abstract!Holders(req.arg) = {}
      BY <1>3, <2>1, HoldersOf
    <3>5. Abstract!Bind(pid_s)
      <4>1. Abstract!Serve("BIND_OP", 0)
        BY <2>1, <2>2, <3>1 DEF Abstract!Serve
      <4> QED
        BY <2>1, <3>2, <3>3, <3>4, <4>1, SameCardinality, Zenon DEF Abstract!Bind
    <3> QED
      BY <2>1, <3>5 DEF Abstract!Next
  <2> QED
    BY <2>3, <2>4
<1>12. CASE Unbind
  <2>1. /\ pc = "unbind" /\ pc' = "refresh" /\ UNCHANGED <<life, req>>
        /\ req.op = "UNBIND_OP"
    BY <1>12 DEF Unbind, HandlerState
  <2>2. Phase = "pending" /\ Phase' = "served"
    BY <2>1, Phases, PhasesPrimed DEF Served
  <2>3. ret' = IF Abstract!Holders(req.arg) = {} THEN -1 ELSE 0
    BY <1>12, HoldersOf DEF Unbind
  <2>4. Managed' = Managed \ Abstract!Holders(req.arg)
    <3>1. CASE req.arg \notin ManagedPids
      BY <1>1, <1>12, <3>1, HoldersOf DEF Unbind, list
    <3>2. CASE req.arg \in ManagedPids
      <4>1. PICK k \in 0 .. n_pids - 1 : PidOf[task_items[k]] = req.arg /\ UpdatePidList(k)
        BY <1>12, <3>2 DEF Unbind
      <4>2. Managed' = Managed \ {task_items[k]}
        BY <4>1, RemovalManaged
      <4>3. Abstract!Holders(req.arg) = {task_items[k]}
        BY <4>1, HoldersOf DEF Managed, DistinctPids
      <4> QED
        BY <4>2, <4>3
    <3> QED
      BY <3>1, <3>2
  <2>5. Abstract!Unbind
    BY <2>1, <2>2, <2>3, <2>4 DEF Abstract!Unbind, Abstract!Serve
  <2> QED
    BY <2>5 DEF Abstract!Next
<1>13. CASE Walk
  <2>1. /\ pc = "walk" /\ pc' = "reply" /\ ret' \in {0, -1}
        /\ UNCHANGED <<task_items, n_pids, life, req>>
        /\ req.op = "FIND_OP" /\ n_pids > 0
    BY <1>13 DEF Walk, HandlerState
  <2>2. Phase = "pending" /\ Phase' = "served"
    BY <2>1, Phases, PhasesPrimed DEF Served
  <2>3. Managed # {}
    BY <1>3, <2>1 DEF Managed
  <2>4. Abstract!Find
    BY <1>1, <2>1, <2>2, <2>3 DEF Abstract!Find, Abstract!Serve
  <2> QED
    BY <2>4 DEF Abstract!Next
<1>14. CASE Reply
  <2>1. /\ pc = "reply" /\ pc' = "idle" /\ req' = NoRequest /\ ret' = -1
        /\ UNCHANGED <<task_items, n_pids, life>>
    BY <1>14 DEF Reply, list
  <2>2. Phase = "served" /\ Phase' = "idle"
    BY <2>1, Phases, PhasesPrimed DEF Served
  <2>3. Abstract!Answer
    BY <1>1, <2>1, <2>2 DEF Abstract!Answer, NoRequest
  <2> QED
    BY <2>3 DEF Abstract!Next
<1>15. CASE UNCHANGED vars
  <2>1. UNCHANGED <<task_items, n_pids, life, pc, req, ret>>
    BY <1>15 DEF vars, list
  <2> QED
    BY <1>1, <1>2, <2>1 DEF Abstract!vars
<1>16. CASE Environment
  BY <1>4, <1>16 DEF Environment, Abstract!Next
<1>17. CASE \E r \in Request : Receive(r)
  BY <1>5, <1>17 DEF Abstract!Next
<1> QED
  BY <1>6, <1>7, <1>8, <1>9, <1>10, <1>11, <1>12, <1>13, <1>14, <1>15, <1>16, <1>17
     DEF Next, Handler

(* To a client the list is a set of tasks: BIND and UNBIND answer for what
   they did, and a task is lost only when its number is out of use.        *)
THEOREM ListIsManagedSet == Spec => ImplementsManagedSet
<1>1. Spec => []MInv
  BY MInvInit, MInvStep, Inductive, PTL DEF Spec
<1> QED
  BY <1>1, AbstractInit, AbstractStep, Inductive, PTL DEF Spec, ImplementsManagedSet, Abstract!Spec

-----------------------------------------------------------------------------
(* Why a request is answered.  The loop of refresh_pids looks at an index
   again when it removes an entry, and stops only because the list is shorter
   by then: what bounds the steps that are left is the distance of the index
   from the end of the list, which falls either way.                        *)

(* The steps of the handler that are left at most.  An UNBIND refreshes the
   list after it has removed its entry, the other requests before.         *)
HandlerTurns ==
    CASE pc = "idle" -> 0
      [] pc = "reply" -> 1
      [] pc \in {"walk", "attach"} -> 2
      [] pc = "bind" -> 3
      [] pc = "refresh" -> (n_pids - i) + 4
      [] OTHER -> n_pids + 5

(* The index of refresh_pids does not pass the end of the list.            *)
IndexInList == pc = "refresh" => i <= n_pids

LEMMA Turns ==
    ASSUME TypeOK
    PROVE  /\ pc = "idle" => HandlerTurns = 0
           /\ pc = "reply" => HandlerTurns = 1
           /\ pc \in {"walk", "attach"} => HandlerTurns = 2
           /\ pc = "bind" => HandlerTurns = 3
           /\ pc = "refresh" => HandlerTurns = (n_pids - i) + 4
           /\ pc = "unbind" => HandlerTurns = n_pids + 5
BY DEF TypeOK, HandlerTurns

LEMMA TurnsPrimed ==
    ASSUME TypeOK'
    PROVE  /\ pc' = "idle" => HandlerTurns' = 0
           /\ pc' = "reply" => HandlerTurns' = 1
           /\ pc' \in {"walk", "attach"} => HandlerTurns' = 2
           /\ pc' = "bind" => HandlerTurns' = 3
           /\ pc' = "refresh" => HandlerTurns' = (n_pids' - i') + 4
           /\ pc' = "unbind" => HandlerTurns' = n_pids' + 5
BY DEF TypeOK, HandlerTurns

LEMMA TurnsBounded ==
    ASSUME TypeOK, IndexInList
    PROVE  HandlerTurns \in 0 .. BIND_LIMIT + 5
<1>1. /\ n_pids \in Nat /\ n_pids <= BIND_LIMIT /\ BIND_LIMIT \in Nat /\ i \in Nat
      /\ pc \in {"idle", "refresh", "bind", "attach", "unbind", "walk", "reply"}
  BY CapacityAssumption DEF TypeOK
<1> QED
  BY <1>1, Turns DEF IndexInList

(* A step of the handler lowers the bound, and no step passes the end.     *)
LEMMA HandlerTurnsFall ==
    ASSUME IInv, IndexInList, TypeOK', Handler
    PROVE  IndexInList' /\ HandlerTurns' < HandlerTurns
<1> USE DEF IInv
<1>1. n_pids \in Nat /\ n_pids' \in Nat /\ i \in Nat /\ i' \in Nat
  BY CapacityAssumption DEF TypeOK
<1>2. CASE RefreshDrop
  <2>1. /\ pc = "refresh" /\ pc' = "refresh" /\ i < n_pids /\ i' = i
        /\ n_pids' = n_pids - 1
    BY <1>2 DEF RefreshDrop, UpdatePidList
  <2> QED
    BY <1>1, <2>1, Turns, TurnsPrimed DEF IndexInList
<1>3. CASE RefreshKeep
  <2>1. /\ pc = "refresh" /\ pc' = "refresh" /\ i < n_pids /\ i' = i + 1
        /\ n_pids' = n_pids
    BY <1>3 DEF RefreshKeep, list
  <2> QED
    BY <1>1, <2>1, Turns, TurnsPrimed DEF IndexInList
<1>4. CASE RefreshEnd
  <2>1. pc = "refresh" /\ pc' \in {"bind", "walk", "reply"}
    BY <1>4 DEF RefreshEnd
  <2> QED
    BY <1>1, <2>1, Turns, TurnsPrimed DEF IndexInList
<1>5. CASE BindRefuse
  <2>1. pc = "bind" /\ pc' = "reply"
    BY <1>5 DEF BindRefuse
  <2> QED
    BY <2>1, Turns, TurnsPrimed DEF IndexInList
<1>6. CASE BindLookup
  <2>1. pc = "bind" /\ pc' = "attach"
    BY <1>6 DEF BindLookup
  <2> QED
    BY <2>1, Turns, TurnsPrimed DEF IndexInList
<1>7. CASE BindAttach
  <2>1. pc = "attach" /\ pc' = "reply"
    BY <1>7 DEF BindAttach
  <2> QED
    BY <2>1, Turns, TurnsPrimed DEF IndexInList
<1>8. CASE Unbind
  <2>1. pc = "unbind" /\ pc' = "refresh" /\ i' = 0
    BY <1>8 DEF Unbind, HandlerState
  <2>2. n_pids' <= n_pids
    BY <1>1, <1>8, UnbindRemoves DEF UpdatePidList, list
  <2>3. HandlerTurns = n_pids + 5 /\ HandlerTurns' = (n_pids' - 0) + 4
    BY <2>1, Turns, TurnsPrimed
  <2>4. HandlerTurns' < HandlerTurns
    <3>1. \A a, b \in Nat : a <= b => (a - 0) + 4 < b + 5
      OBVIOUS
    <3> QED
      BY <1>1, <2>2, <2>3, <3>1, Zenon
  <2>5. IndexInList'
    BY <1>1, <2>1 DEF IndexInList
  <2> QED
    BY <2>4, <2>5
<1>9. CASE Walk
  <2>1. pc = "walk" /\ pc' = "reply"
    BY <1>9 DEF Walk
  <2> QED
    BY <2>1, Turns, TurnsPrimed DEF IndexInList
<1>10. CASE Reply
  <2>1. pc = "reply" /\ pc' = "idle"
    BY <1>10 DEF Reply
  <2> QED
    BY <2>1, Turns, TurnsPrimed DEF IndexInList
<1> QED
  BY <1>2, <1>3, <1>4, <1>5, <1>6, <1>7, <1>8, <1>9, <1>10 DEF Handler

LEMMA EnvironmentWaits ==
    ASSUME UNCHANGED <<list, pc, i>>
    PROVE  HandlerTurns' = HandlerTurns /\ (IndexInList => IndexInList')
BY DEF HandlerTurns, IndexInList, list

LEMMA IndexStep ==
    ASSUME IInv, IndexInList, TypeOK', [Next]_vars
    PROVE  IndexInList'
<1>1. CASE Environment \/ UNCHANGED vars
  <2>1. UNCHANGED <<list, pc, i>>
    BY <1>1 DEF Environment, Start, Exit, Reap, vars
  <2> QED
    BY <2>1, EnvironmentWaits
<1>2. ASSUME NEW r \in Request, Receive(r) PROVE IndexInList'
  <2>1. i' = 0 /\ n_pids' \in Nat
    BY <1>2, CapacityAssumption DEF Receive, IInv, HandlerState, TypeOK
  <2> QED
    BY <2>1 DEF IndexInList
<1>3. CASE Handler
  BY <1>3, HandlerTurnsFall
<1> QED
  BY <1>1, <1>2, <1>3 DEF Next

(* A request costs the handler at most BIND_LIMIT + 5 steps: every step it
   takes lowers what is left, and no start, exit or reap of a process in
   between adds to it.  With a handler that keeps running (the fairness of
   FairSpec) this is why RequestAnswered holds.                            *)
THEOREM RequestIsFinite ==
    Spec => /\ [](HandlerTurns \in 0 .. BIND_LIMIT + 5)
            /\ [][ /\ Handler => HandlerTurns' < HandlerTurns
                   /\ Environment => HandlerTurns' = HandlerTurns ]_vars
<1>1. Init => IndexInList
  BY DEF Init, IndexInList
<1>2. IInv /\ IndexInList /\ [Next]_vars => IndexInList'
  BY IInvStep, IndexStep DEF IInv
<1>3. Spec => []IndexInList
  BY <1>1, <1>2, Inductive, PTL DEF Spec
<1>4. IInv /\ IndexInList => HandlerTurns \in 0 .. BIND_LIMIT + 5
  BY TurnsBounded DEF IInv
<1>5. IInv /\ IndexInList /\ [Next]_vars =>
        [ /\ Handler => HandlerTurns' < HandlerTurns
          /\ Environment => HandlerTurns' = HandlerTurns ]_vars
  <2> SUFFICES ASSUME IInv, IndexInList, Next
               PROVE  /\ Handler => HandlerTurns' < HandlerTurns
                      /\ Environment => HandlerTurns' = HandlerTurns
    OBVIOUS
  <2>1. TypeOK'
    BY IInvStep DEF IInv
  <2>2. ASSUME Handler PROVE HandlerTurns' < HandlerTurns
    BY <2>1, <2>2, HandlerTurnsFall
  <2>3. ASSUME Environment PROVE HandlerTurns' = HandlerTurns
    <3>1. UNCHANGED <<list, pc, i>>
      BY <2>3 DEF Environment, Start, Exit, Reap
    <3> QED
      BY <3>1, EnvironmentWaits
  <2> QED
    BY <2>2, <2>3
<1> QED
  BY <1>3, <1>4, <1>5, Inductive, PTL DEF Spec
=============================================================================
