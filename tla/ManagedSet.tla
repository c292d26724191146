----------------------------- MODULE ManagedSet -----------------------------
(***************************************************************************)
(* What the kernel module promises about the processes it manages, with    *)
(* no list, no index and no cursor: a set of tasks, one for each number,   *)
(* that a BIND extends, an UNBIND shrinks, and that loses a task only when *)
(* its number has gone out of use.  PidList implements it.                 *)
(***************************************************************************)
EXTENDS Integers, FiniteSets

CONSTANTS Task, Early, PidOf, LIMIT, Request, NoRequest

VARIABLES life, managed, phase, req, ret

vars == <<life, managed, phase, req, ret>>

Exists(pid) == \E t \in Task : PidOf[t] = pid /\ life[t] \in {"running", "zombie"}
Holders(pid) == {t \in managed : PidOf[t] = pid}

Init ==
    /\ life = [t \in Task |-> IF t \in Early THEN "running" ELSE "unborn"]
    /\ managed = {}
    /\ phase = "idle" /\ req = NoRequest /\ ret = -1

\* A task starts, exits, and is reaped; a number in use is not given out again.
Live(t) ==
    /\ \/ life[t] = "unborn" /\ ~Exists(PidOf[t]) /\ life' = [life EXCEPT ![t] = "running"]
       \/ life[t] = "running" /\ life' = [life EXCEPT ![t] = "zombie"]
       \/ life[t] = "zombie" /\ life' = [life EXCEPT ![t] = "reaped"]
    /\ UNCHANGED <<managed, phase, req, ret>>

Receive(r) ==
    /\ phase = "idle"
    /\ phase' = "pending" /\ req' = r
    /\ UNCHANGED <<life, managed, ret>>

\* Dead processes are dropped while a request is in progress, at no other time.
Drop(t) ==
    /\ phase # "idle"
    /\ t \in managed /\ ~Exists(PidOf[t])
    /\ managed' = managed \ {t}
    /\ UNCHANGED <<life, phase, req, ret>>

Serve(op, answer) ==
    /\ phase = "pending" /\ req.op = op
    /\ phase' = "served" /\ ret' = answer
    /\ UNCHANGED <<life, req>>

Bind(t) ==
    /\ Serve("BIND_OP", 0)
    /\ PidOf[t] = req.arg /\ life[t] \in {"running", "zombie"}
    /\ Holders(req.arg) = {}
    /\ Cardinality(managed) < LIMIT
    /\ managed' = managed \cup {t}

\* A refused BIND has one of four reasons: no such number, no room, a managed
\* task with that number, or a process that went away while it was looked up.
Refuse ==
    /\ Serve("BIND_OP", -1)
    /\ \/ ~Exists(req.arg)
       \/ Cardinality(managed) >= LIMIT
       \/ Holders(req.arg) # {}
       \/ \E t \in Task : PidOf[t] = req.arg /\ life[t] = "reaped"
    /\ UNCHANGED managed

\* The answer to an UNBIND says whether there was such a process.
Unbind ==
    /\ Serve("UNBIND_OP", IF Holders(req.arg) = {} THEN -1 ELSE 0)
    /\ managed' = managed \ Holders(req.arg)

\* A FIND leaves the set alone, and finds nothing for sure when it is empty.
Find ==
    /\ \E answer \in {0, -1} :
          Serve("FIND_OP", answer) /\ (managed = {} => answer = -1)
    /\ UNCHANGED managed

Answer ==
    /\ phase = "served"
    /\ phase' = "idle" /\ req' = NoRequest /\ ret' = -1
    /\ UNCHANGED <<life, managed>>

Next ==
    \/ \E t \in Task : Live(t) \/ Drop(t) \/ Bind(t)
    \/ \E r \in Request : Receive(r)
    \/ Refuse \/ Unbind \/ Find \/ Answer

Spec == Init /\ [][Next]_vars
=============================================================================
