------------------------------ MODULE PidList ------------------------------
(***************************************************************************)
(* The list of managed processes of the kernel module, and the two walk    *)
(* cursors that point into it (src/src/ambix_hyb-mod.c).                   *)
(*                                                                         *)
(* The control daemon has one request in flight (send_req holds comm_lock  *)
(* from sendmsg to recvmsg) and the netlink callback runs it to the end in *)
(* the daemon's context, so there is one handler.  What runs beside it is  *)
(* the rest of the machine: processes start, exit and are reaped between   *)
(* any two of its steps, and a reaped process's number may be given to a   *)
(* new one.                                                                *)
(*                                                                         *)
(* A step of the handler is one iteration of refresh_pids, one of the two  *)
(* lookups of find_target_process, the removal of unbind_pid, a walk, or   *)
(* the reply.  The walk is abstracted to what it does to the cursors;      *)
(* PageWalk models it callback by callback.                                *)
(***************************************************************************)
EXTENDS Integers

CONSTANTS
    Task,        \* the task_structs that ever exist
    NoTask,      \* an entry of task_items that was never written
    Early,       \* the tasks that run already when the module is loaded
    PidOf,       \* the number of each task; two tasks may share one, in turn
    MAX_PIDS,    \* entries allocated for task_items
    BIND_LIMIT,  \* find_target_process refuses from this many tasks on
    Addr,        \* addresses a cursor can hold
    Mode         \* the modes FIND is asked for

ASSUME TaskAssumption ==
    /\ NoTask \notin Task
    /\ PidOf \in [Task -> Nat \ {0}]
    /\ Early \subseteq Task
    /\ \A t, u \in Early : PidOf[t] = PidOf[u] => t = u

\* ambix_hyb refuses at n_pids >= MAX_PIDS, ambix_MixM at n_pids > MAX_PIDS.
ASSUME CapacityAssumption ==
    /\ MAX_PIDS \in Nat \ {0}
    /\ BIND_LIMIT \in {MAX_PIDS, MAX_PIDS + 1}

ASSUME AddrAssumption ==
    /\ Addr \subseteq Nat
    /\ 0 \in Addr

VARIABLES
    life,        \* the state of each task in the process table
    task_items, n_pids,
    last_pid, last_addr,  \* the cursors, one for each tier
    pc,          \* the step the handler is at
    req,         \* the request being processed
    i,           \* the index of the loop of refresh_pids
    pid_s,       \* the task find_get_pid's answer stands for
    ret,         \* the value the reply carries
    absent       \* history: numbers that named no process at any time since
                 \* the request arrived

list == <<task_items, n_pids, last_pid, last_addr>>
vars == <<life, list, pc, req, i, pid_s, ret, absent>>

-----------------------------------------------------------------------------
Tier == {"DRAM", "NVRAM"}
Slot == 0 .. BIND_LIMIT - 1     \* memory the list can reach, MAX_PIDS of it allocated

Pid == {PidOf[t] : t \in Task}

\* The tiers whose cursor a FIND of each mode may move; the CLEAR walk has none.
CursorsOf ==
    [DRAM_MODE |-> {"DRAM"}, NVRAM_MODE |-> {"NVRAM"},
     NVRAM_INTENSIVE_MODE |-> {"NVRAM"}, NVRAM_WRITE_MODE |-> {"NVRAM"},
     SWITCH_MODE |-> {"DRAM", "NVRAM"}, NVRAM_CLEAR |-> {}]

ASSUME ModeAssumption == Mode \subseteq DOMAIN CursorsOf

\* The pid of a client's request is not checked by process_socket: 0 stands for
\* every value bind_pid and unbind_pid call invalid.
Request == [op : {"BIND_OP", "UNBIND_OP"}, arg : Pid \cup {0}]
             \cup [op : {"FIND_OP"}, arg : Mode]
NoRequest == [op |-> "none", arg |-> 0]

Exists(pid) == \E t \in Task : PidOf[t] = pid /\ life[t] \in {"running", "zombie"}

Managed == {task_items[j] : j \in 0 .. n_pids - 1}
ManagedPids == {PidOf[task_items[j]] : j \in 0 .. n_pids - 1}

-----------------------------------------------------------------------------
Init ==
    /\ life = [t \in Task |-> IF t \in Early THEN "running" ELSE "unborn"]
    /\ task_items = [j \in Slot |-> NoTask]
    /\ n_pids = 0
    /\ last_pid = [t \in Tier |-> 0]
    /\ last_addr = [t \in Tier |-> 0]
    /\ pc = "idle"
    /\ req = NoRequest
    /\ i = 0
    /\ pid_s = NoTask
    /\ ret = -1
    /\ absent = {}

-----------------------------------------------------------------------------
(* The process table, which the module reads through find_get_pid and
   get_pid_task.                                                           *)

\* fork: the number is free, or free again.
Start(t) ==
    /\ life[t] = "unborn"
    /\ ~Exists(PidOf[t])
    /\ life' = [life EXCEPT ![t] = "running"]
    /\ absent' = absent \ {PidOf[t]}
    /\ UNCHANGED <<list, pc, req, i, pid_s, ret>>

\* exit: the number stays in use until the parent waits.
Exit(t) ==
    /\ life[t] = "running"
    /\ life' = [life EXCEPT ![t] = "zombie"]
    /\ UNCHANGED <<list, pc, req, i, pid_s, ret, absent>>

\* wait: the number is released; the module's reference keeps the task_struct.
Reap(t) ==
    /\ life[t] = "zombie"
    /\ life' = [life EXCEPT ![t] = "reaped"]
    /\ UNCHANGED <<list, pc, req, i, pid_s, ret, absent>>

Environment == \E t \in Task : Start(t) \/ Exit(t) \/ Reap(t)

-----------------------------------------------------------------------------
(* The request handler.                                                    *)

\* process_req: BIND and FIND refresh the list first, UNBIND refreshes it last.
Receive(r) ==
    /\ pc = "idle"
    /\ pc' = IF r.op = "UNBIND_OP" THEN "unbind" ELSE "refresh"
    /\ req' = r
    /\ absent' = {p \in Pid : ~Exists(p)}
    /\ UNCHANGED <<life, list, i, pid_s, ret>>

\* Names with an underscore are the definition they begin with, with one plausible
\* slip.  No specification uses them: they show that the properties can fail.
CursorAfter_BelowZero(c, k) ==
    IF c >= k THEN c - 1 ELSE c

CursorAfter_NoWrap(c, k) ==
    IF c > k THEN c - 1 ELSE c

\* A cursor at index c when entry k goes; the old length is still in n_pids.
CursorAfter(c, k) ==
    IF c > k THEN c - 1 ELSE IF c = k /\ c = n_pids - 1 THEN 0 ELSE c

AddrAfter_Kept(t, k) == last_addr[t]

AddrAfter(t, k) == IF last_pid[t] = k THEN 0 ELSE last_addr[t]

EntryAfter_ShiftsLate(j, k) ==
    IF j \in k + 1 .. n_pids - 2 THEN task_items[j + 1] ELSE task_items[j]

EntryAfter(j, k) ==
    IF j \in k .. n_pids - 2 THEN task_items[j + 1] ELSE task_items[j]

UpdatePidList(k) ==
    /\ last_pid' = [t \in Tier |-> CursorAfter(last_pid[t], k)]
    /\ last_addr' = [t \in Tier |-> AddrAfter(t, k)]
    /\ task_items' = [j \in Slot |-> EntryAfter(j, k)]
    /\ n_pids' = n_pids - 1

RefreshDrop_SkipsNext ==
    /\ pc = "refresh" /\ i < n_pids
    /\ ~Exists(PidOf[task_items[i]])
    /\ UpdatePidList(i)
    /\ i' = i + 1
    /\ UNCHANGED <<life, pc, req, pid_s, ret, absent>>

\* The number of entry i names no process: drop the entry and look at index i
\* again (i-- and the loop's i++).
RefreshDrop ==
    /\ pc = "refresh" /\ i < n_pids
    /\ ~Exists(PidOf[task_items[i]])
    /\ UpdatePidList(i)
    /\ UNCHANGED <<life, pc, req, i, pid_s, ret, absent>>

RefreshKeep_NoAdvance ==
    /\ pc = "refresh" /\ i < n_pids
    /\ Exists(PidOf[task_items[i]])
    /\ UNCHANGED <<life, list, pc, req, i, pid_s, ret, absent>>

RefreshKeep ==
    /\ pc = "refresh" /\ i < n_pids
    /\ Exists(PidOf[task_items[i]])
    /\ i' = i + 1
    /\ UNCHANGED <<life, list, pc, req, pid_s, ret, absent>>

RefreshEnd_OneShort ==
    /\ pc = "refresh" /\ i >= n_pids - 1
    /\ pc' = CASE req.op = "BIND_OP" -> "bind"
               [] req.op = "FIND_OP" /\ n_pids > 0 -> "walk"
               [] OTHER -> "reply"
    /\ i' = 0
    /\ UNCHANGED <<life, list, req, pid_s, ret, absent>>

RefreshEnd ==
    /\ pc = "refresh" /\ i >= n_pids
    /\ pc' = CASE req.op = "BIND_OP" -> "bind"
               [] req.op = "FIND_OP" /\ n_pids > 0 -> "walk"
               [] OTHER -> "reply"
    /\ i' = 0
    /\ UNCHANGED <<life, list, req, pid_s, ret, absent>>

\* Why bind_pid turns a request down before it has a task.
AlreadyManaged == req.arg \in ManagedPids

Refused_NoScan ==
    \/ req.arg = 0
    \/ n_pids >= BIND_LIMIT
    \/ ~Exists(req.arg)

Refused ==
    \/ req.arg = 0
    \/ n_pids >= BIND_LIMIT
    \/ AlreadyManaged
    \/ ~Exists(req.arg)

BindRefuse ==
    /\ pc = "bind" /\ Refused
    /\ pc' = "reply" /\ ret' = -1
    /\ UNCHANGED <<life, list, req, i, pid_s, absent>>

\* find_get_pid finds the number in use.
BindLookup ==
    /\ pc = "bind" /\ ~Refused
    /\ pid_s' = CHOOSE t \in Task : PidOf[t] = req.arg /\ life[t] \in {"running", "zombie"}
    /\ pc' = "attach"
    /\ UNCHANGED <<life, list, req, i, ret, absent>>

BindAttach_Unchecked ==
    /\ pc = "attach"
    /\ task_items' = [task_items EXCEPT ![n_pids] = pid_s]
    /\ n_pids' = n_pids + 1
    /\ ret' = 0
    /\ pid_s' = NoTask
    /\ pc' = "reply"
    /\ UNCHANGED <<life, last_pid, last_addr, req, i, absent>>

\* get_pid_task: NULL when the process was reaped since the lookup.
BindAttach ==
    /\ pc = "attach"
    /\ IF life[pid_s] = "reaped"
         THEN ret' = -1 /\ UNCHANGED <<task_items, n_pids>>
         ELSE /\ task_items' = [task_items EXCEPT ![n_pids] = pid_s]
              /\ n_pids' = n_pids + 1
              /\ ret' = 0
    /\ pid_s' = NoTask
    /\ pc' = "reply"
    /\ UNCHANGED <<life, last_pid, last_addr, req, i, absent>>

\* unbind_pid: the first entry with the number is removed.
Unbind ==
    /\ pc = "unbind"
    /\ IF req.arg \in ManagedPids
         THEN /\ \E k \in 0 .. n_pids - 1 :
                   /\ PidOf[task_items[k]] = req.arg
                   /\ \A j \in 0 .. k - 1 : PidOf[task_items[j]] # req.arg
                   /\ UpdatePidList(k)
              /\ ret' = 0
         ELSE ret' = -1 /\ UNCHANGED list
    /\ pc' = "refresh"
    /\ UNCHANGED <<life, req, i, pid_s, absent>>

\* mem_walk, clear_walk and switch_walk as far as the list is concerned: the
\* cursors of the mode's tiers end at some entry and some address.
Walk ==
    /\ pc = "walk"
    /\ \E p \in [Tier -> 0 .. n_pids - 1], a \in [Tier -> Addr] :
         /\ last_pid' = [t \in Tier |-> IF t \in CursorsOf[req.arg] THEN p[t] ELSE last_pid[t]]
         /\ last_addr' = [t \in Tier |-> IF t \in CursorsOf[req.arg] THEN a[t] ELSE last_addr[t]]
    /\ ret' \in IF req.arg = "NVRAM_CLEAR" THEN {-1} ELSE {0, -1}
    /\ pc' = "reply"
    /\ UNCHANGED <<life, task_items, n_pids, req, i, pid_s, absent>>

\* The end of placement_nl_process_msg; ret starts at -1 for the next request.
Reply ==
    /\ pc = "reply"
    /\ pc' = "idle" /\ req' = NoRequest /\ ret' = -1 /\ absent' = {}
    /\ UNCHANGED <<life, list, i, pid_s>>

Handler ==
    \/ RefreshDrop \/ RefreshKeep \/ RefreshEnd
    \/ BindRefuse \/ BindLookup \/ BindAttach
    \/ Unbind \/ Walk \/ Reply

Next == Environment \/ (\E r \in Request : Receive(r)) \/ Handler

Spec == Init /\ [][Next]_vars

\* The callback runs to its end in the daemon's system call.
FairSpec == Spec /\ WF_vars(Handler)

-----------------------------------------------------------------------------
(* Types of all the variables above.                                       *)
TypeOK ==
    /\ life \in [Task -> {"unborn", "running", "zombie", "reaped"}]
    /\ task_items \in [Slot -> Task \cup {NoTask}]
    /\ n_pids \in 0 .. BIND_LIMIT
    /\ \A j \in 0 .. n_pids - 1 : task_items[j] \in Task
    /\ last_pid \in [Tier -> Nat]
    /\ last_addr \in [Tier -> Addr]
    /\ pc \in {"idle", "refresh", "bind", "attach", "unbind", "walk", "reply"}
    /\ req \in Request \cup {NoRequest}
    /\ i \in Nat
    /\ pid_s \in Task \cup {NoTask}
    /\ ret \in {0, -1}
    /\ absent \subseteq Pid

(* The list never outgrows the memory _on_module_init allocated for it,
   whatever sequence of binds, unbinds and exits led here.                 *)
WithinArray == n_pids <= MAX_PIDS

(* Each cursor is at an entry of the list, or at 0 with the list empty:
   do_page_walk dereferences task_items[last_pid] without a check, and the
   list shrinks under the cursors whenever a process goes away.            *)
CursorInRange ==
    \A t \in Tier : last_pid[t] = 0 \/ last_pid[t] < n_pids

(* No process number occurs twice, so that the first match of unbind_pid is
   the only one and no process is walked twice in a cycle.                 *)
DistinctPids ==
    \A j, k \in 0 .. n_pids - 1 :
        PidOf[task_items[j]] = PidOf[task_items[k]] => j = k

(* When refresh_pids is done, no entry is left whose number was out of use
   for the whole request, although the list shifts under the loop index.   *)
RefreshDropsDead ==
    pc \in {"bind", "attach", "walk", "reply"} =>
        \A j \in 0 .. n_pids - 1 : PidOf[task_items[j]] \notin absent

(* Once an UNBIND has removed an entry, none with that number is left: the
   first match was the only one.                                           *)
UnbindForgets ==
    req.op = "UNBIND_OP" /\ pc \in {"refresh", "reply"} => req.arg \notin ManagedPids

(* A cursor belongs to a process.  Except for the walk itself, a step keeps
   every cursor at the same process and address while that process stays in
   the list, and puts it at address 0 when it does not: a cycle never starts
   in one process at an address that was reached in another.               *)
CursorFollowsTask ==
    [][ ~Walk =>
        \A t \in Tier :
            LET at == task_items[last_pid[t]] IN
            IF n_pids > 0 /\ at \in Managed'
              THEN task_items'[last_pid'[t]] = at /\ last_addr'[t] = last_addr[t]
              ELSE last_addr'[t] = 0 ]_vars

(* Every request is answered: the loop of refresh_pids ends although its
   index does not advance when it removes an entry.                        *)
RequestAnswered == []<>(pc = "idle")

(* If requests keep coming, processes that were reaped leave the list: in
   the end, as every process runs once, it holds only numbers in use.      *)
DeadDropped == []<>(pc = "reply") => <>[](\A pid \in ManagedPids : Exists(pid))

(* "Already managing given PID." is said when the process that has this
   number is managed, not when the number is left from one that is gone.   *)
RefusalIsHonest ==
    pc = "bind" /\ n_pids < BIND_LIMIT /\ AlreadyManaged =>
        \A t \in Task :
            PidOf[t] = req.arg /\ life[t] \in {"running", "zombie"} => t \in Managed

-----------------------------------------------------------------------------
(* What the list promises to a client: a set of managed processes.         *)
Phase ==
    CASE pc = "idle" -> "idle"
      [] pc = "reply" \/ (pc = "refresh" /\ req.op = "UNBIND_OP") -> "served"
      [] OTHER -> "pending"

Abstract == INSTANCE ManagedSet
              WITH managed <- Managed, phase <- Phase, LIMIT <- BIND_LIMIT

(* Every behaviour of the list is one of the set: binds and unbinds answer
   for what they did, and a process is lost only when its number is.       *)
ImplementsManagedSet == Abstract!Spec
=============================================================================
