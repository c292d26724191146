-------------------------------- MODULE Ctl --------------------------------
(***************************************************************************)
(* The control daemon (src/src/ambix_hyb-ctl.c): the threads process_stdin,*)
(* process_socket and memcheck_placement, the locks comm_lock and          *)
(* placement_lock, the netlink socket they share, and the client programs  *)
(* on the Unix socket (src/src/ambix-client.c).                            *)
(*                                                                         *)
(* A step is what a thread does between two points where another thread    *)
(* can tell: a lock, a system call, a read or write of a shared variable.  *)
(* The kernel module runs inside sendmsg and its reply is queued when      *)
(* sendmsg returns; PidList and PageWalk model what it does.               *)
(***************************************************************************)
EXTENDS Naturals, Sequences

CONSTANTS
    Client,      \* programs that bind and unbind themselves
    Command,     \* what is typed on stdin
    Typed,       \* the numbers that are typed with bind and unbind
    CONNS,       \* bound: connections that exist at a time
    Usage,       \* the usages of the tiers that memcheck may read
    Drops        \* the module may fail to allocate a reply

\* Usage of a tier: below its target, up to its limit, above it.
Level == {"low", "target", "limit"}

ASSUME CtlAssumption ==
    /\ Command \subseteq {"bind", "unbind", "send", "switch",
                          "toggle switch", "toggle thresh", "toggle all"}
    /\ Typed \subseteq Client \cup {"other"}
    /\ CONNS \in Nat \ {0} /\ Drops \in BOOLEAN
    /\ Usage \subseteq Level \X Level /\ Usage # {}
    /\ "other" \notin Client      \* a process that is not one of them

Thread == {"stdin", "socket", "memcheck"}
None == "none"

VARIABLES
    exit_sig, switch_act, thresh_act,
    comm_lock, placement_lock,      \* the thread that holds it
    pc,          \* where each thread is
    call,        \* where each thread is in send_find, send_bind or send_unbind
    req,         \* its request
    result,      \* a page was migrated by its last FIND
    queue,       \* replies on the netlink socket
    candidates,  \* the reply copied there last
    conns,       \* connections to the Unix socket, oldest first
    accepted,    \* process_socket is reading from the oldest
    client,      \* what each client does, and the request it makes next
    dram_usage, nvram_usage,        \* of memcheck
    bound,       \* clients in the module's list
    overruled,   \* history: clients the module or stdin put in or out last, not their request
    last_find,   \* history: the FIND the module walked last, and for whom
    fresh,       \* history: the usages were read in this round
    toggled      \* history: a toggle in this round of memcheck

acts == <<switch_act, thresh_act>>
locks == <<comm_lock, placement_lock>>
sock == <<conns, accepted, client>>
usage == <<dram_usage, nvram_usage>>
calls == <<call, req, result>>
list == <<bound, overruled>>
kernel == <<queue, list, last_find>>
round == <<fresh, toggled>>
vars == <<exit_sig, acts, locks, pc, calls, kernel, candidates, sock, usage, round>>

-----------------------------------------------------------------------------
Find(m) == [op |-> "FIND_OP", arg |-> m]
NoRequest == [op |-> None, arg |-> None]

Goto(t, l) == pc' = [pc EXCEPT ![t] = l]

Init ==
    /\ exit_sig = FALSE /\ switch_act = TRUE /\ thresh_act = TRUE
    /\ comm_lock = None /\ placement_lock = None
    /\ pc = [stdin |-> "prompt", socket |-> "start", memcheck |-> "top"]
    /\ call = [t \in Thread |-> None]
    /\ req = [t \in Thread |-> NoRequest]
    /\ result = [t \in Thread |-> FALSE]
    /\ queue = << >> /\ candidates = [to |-> None, req |-> NoRequest]
    /\ conns = << >> /\ accepted = FALSE
    /\ client = [c \in Client |-> [at |-> "away", next |-> "BIND_OP"]]
    /\ dram_usage = "unset" /\ nvram_usage = "unset"
    /\ bound = {} /\ overruled = {} /\ last_find = [to |-> None, mode |-> None]
    /\ fresh = FALSE /\ toggled = FALSE

-----------------------------------------------------------------------------
(* send_req and the functions that call it.                                *)

\* The thread enters send_find, send_bind or send_unbind.
Begin(t, r) ==
    /\ call' = [call EXCEPT ![t] = "lock"]
    /\ req' = [req EXCEPT ![t] = r]
    /\ result' = [result EXCEPT ![t] = FALSE]

\* It is back, and what it asked for is forgotten.
Returned(t) == call[t] = None

Forget(t) ==
    /\ req' = [req EXCEPT ![t] = NoRequest]
    /\ result' = [result EXCEPT ![t] = FALSE]

LockComm(t) ==
    /\ call[t] = "lock" /\ comm_lock = None
    /\ comm_lock' = t
    /\ call' = [call EXCEPT ![t] = "sendmsg"]
    /\ UNCHANGED <<exit_sig, acts, placement_lock, pc, req, result, kernel, candidates, sock, usage, round>>

\* The module's list.  refresh_pids drops processes that ended, once they are reaped;
\* a BIND is refused at capacity, for a number that is listed and for one without a
\* process; an UNBIND is not.
Carry(t, r) ==
    \E reaped \in SUBSET {c \in bound : client[c].at = "gone"} :
        LET listed == bound \ reaped
            asked == IF r.op = "FIND_OP" THEN {} ELSE Client \cap {r.arg}
        IN /\ bound' \in CASE r.op = "BIND_OP" -> {listed, listed \cup asked}
                           [] r.op = "UNBIND_OP" -> {listed \ asked}
                           [] OTHER -> {listed}
           /\ overruled' =
                IF t = "socket" /\ (r.op = "BIND_OP" => asked \subseteq bound')
                  THEN (overruled \cup reaped) \ asked
                  ELSE overruled \cup reaped \cup asked

\* The module carries the request out and queues its reply.
Reply(t, r) ==
    /\ \/ queue' = Append(queue, [to |-> t, req |-> r])
       \/ Drops /\ UNCHANGED queue
    /\ Carry(t, r)
    /\ last_find' = IF r.op = "FIND_OP" THEN [to |-> t, mode |-> r.arg] ELSE last_find

Sendmsg_Unlocks(t) ==
    /\ call[t] = "sendmsg"
    /\ Reply(t, req[t])
    /\ call' = [call EXCEPT ![t] = "recvmsg"]
    /\ comm_lock' = None
    /\ UNCHANGED <<exit_sig, acts, placement_lock, pc, req, result, candidates, sock, usage, round>>

Sendmsg(t) ==
    /\ call[t] = "sendmsg"
    /\ Reply(t, req[t])
    /\ call' = [call EXCEPT ![t] = "recvmsg"]
    /\ UNCHANGED <<exit_sig, acts, locks, pc, req, result, candidates, sock, usage, round>>

\* recvmsg blocks for a reply; it is copied out before comm_lock is released.
Recvmsg(t) ==
    /\ call[t] = "recvmsg" /\ queue # << >>
    /\ queue' = Tail(queue)
    /\ IF req[t].op = "FIND_OP"
         THEN candidates' = Head(queue) /\ call' = [call EXCEPT ![t] = "migrate"]
         ELSE call' = [call EXCEPT ![t] = None] /\ UNCHANGED candidates
    /\ comm_lock' = None
    /\ UNCHANGED <<exit_sig, acts, placement_lock, pc, req, result, list, last_find, sock, usage, round>>

\* send_find reads candidates without comm_lock and migrates what it finds there.
Migrate(t) ==
    /\ call[t] = "migrate"
    /\ call' = [call EXCEPT ![t] = None]
    /\ \E moved \in IF req[t].arg = "NVRAM_CLEAR" THEN {FALSE} ELSE BOOLEAN :
         result' = [result EXCEPT ![t] = moved]
    /\ UNCHANGED <<exit_sig, acts, locks, pc, req, kernel, candidates, sock, usage, round>>

Request(t) == LockComm(t) \/ Sendmsg(t) \/ Recvmsg(t) \/ Migrate(t)

\* The thread takes placement_lock and goes to its FIND.
LockPlacement(t, from, to) ==
    /\ pc[t] = from /\ placement_lock = None
    /\ placement_lock' = t /\ Goto(t, to)
    /\ UNCHANGED <<exit_sig, acts, comm_lock, calls, kernel, candidates, sock, usage, round>>

-----------------------------------------------------------------------------
(* process_stdin.                                                          *)

\* send dram, nvram or dramwr, and switch.
CommandFind(cmd) == IF cmd = "send" THEN {"NVRAM_MODE", "DRAM_MODE", "NVRAM_WRITE_MODE"}
                                    ELSE {"SWITCH_MODE"}

CommandOp == [bind |-> "BIND_OP", unbind |-> "UNBIND_OP"]

StdinBind ==
    /\ pc["stdin"] = "prompt"
    /\ \E cmd \in Command \cap DOMAIN CommandOp, n \in Typed :
         Begin("stdin", [op |-> CommandOp[cmd], arg |-> n])
    /\ Goto("stdin", "sent")
    /\ UNCHANGED <<exit_sig, acts, locks, kernel, candidates, sock, usage, round>>

StdinFind ==
    /\ pc["stdin"] = "prompt" /\ Command \cap {"send", "switch"} # {}
    /\ Goto("stdin", "place")
    /\ UNCHANGED <<exit_sig, acts, locks, calls, kernel, candidates, sock, usage, round>>

StdinLock == LockPlacement("stdin", "place", "find")

StdinSend_Unlocked ==
    /\ pc["stdin"] = "place"
    /\ \E cmd \in Command \cap {"send", "switch"} : \E m \in CommandFind(cmd) : Begin("stdin", Find(m))
    /\ Goto("stdin", "sent")
    /\ UNCHANGED <<exit_sig, acts, locks, kernel, candidates, sock, usage, round>>

StdinSend ==
    /\ pc["stdin"] = "find"
    /\ \E cmd \in Command \cap {"send", "switch"} : \E m \in CommandFind(cmd) : Begin("stdin", Find(m))
    /\ Goto("stdin", "sent")
    /\ UNCHANGED <<exit_sig, acts, locks, kernel, candidates, sock, usage, round>>

StdinDone_KeepsLock ==
    /\ pc["stdin"] = "sent" /\ Returned("stdin")
    /\ Goto("stdin", "prompt")
    /\ Forget("stdin")
    /\ UNCHANGED <<exit_sig, acts, locks, call, kernel, candidates, sock, usage, round>>

\* The call returned; a FIND releases placement_lock.
StdinDone ==
    /\ pc["stdin"] = "sent" /\ Returned("stdin")
    /\ placement_lock' = IF placement_lock = "stdin" THEN None ELSE placement_lock
    /\ Goto("stdin", "prompt")
    /\ Forget("stdin")
    /\ UNCHANGED <<exit_sig, acts, comm_lock, call, kernel, candidates, sock, usage, round>>

\* A toggle of both is two writes.
StdinToggle ==
    /\ pc["stdin"] = "prompt"
    /\ \E cmd \in Command \cap {"toggle switch", "toggle thresh", "toggle all"} :
         /\ switch_act' = IF cmd = "toggle thresh" THEN switch_act ELSE ~switch_act
         /\ thresh_act' = IF cmd = "toggle thresh" THEN ~thresh_act ELSE thresh_act
         /\ Goto("stdin", IF cmd = "toggle all" THEN "both" ELSE "prompt")
    /\ toggled' = TRUE
    /\ UNCHANGED <<exit_sig, locks, calls, kernel, candidates, sock, usage, fresh>>

StdinToggleBoth ==
    /\ pc["stdin"] = "both"
    /\ thresh_act' = ~thresh_act /\ toggled' = TRUE
    /\ Goto("stdin", "prompt")
    /\ UNCHANGED <<exit_sig, switch_act, locks, calls, kernel, candidates, sock, usage, fresh>>

\* exit, or the end of the input.
StdinExit ==
    /\ pc["stdin"] = "prompt"
    /\ exit_sig' = TRUE /\ Goto("stdin", "done")
    /\ UNCHANGED <<acts, locks, calls, kernel, candidates, sock, usage, round>>

Stdin == StdinLock \/ StdinSend \/ StdinDone \/ StdinToggleBoth
StdinInput == StdinBind \/ StdinFind \/ StdinToggle \/ StdinExit

-----------------------------------------------------------------------------
(* Clients: bind_uds and unbind_uds in turn, each on a connection of its own. *)

Mine(c, k) == conns[k].client = c /\ conns[k].open

Connect(c) ==
    /\ client[c].at = "away" /\ pc["socket"] # "done" /\ Len(conns) < CONNS
    /\ conns' = Append(conns, [client |-> c, op |-> client[c].next, data |-> FALSE, open |-> TRUE])
    /\ client' = [client EXCEPT ![c].at = "connected"]
    /\ UNCHANGED <<exit_sig, acts, locks, pc, calls, kernel, candidates, accepted, usage, round>>

WriteRequest(c) ==
    /\ client[c].at = "connected"
    /\ \E k \in 1 .. Len(conns) : Mine(c, k) /\ conns' = [conns EXCEPT ![k].data = TRUE]
    /\ client' = [client EXCEPT ![c].at = "written"]
    /\ UNCHANGED <<exit_sig, acts, locks, pc, calls, kernel, candidates, accepted, usage, round>>

\* A client that ends before it has written closes as well, and has asked nothing.
Close(c) ==
    /\ client[c].at \in {"connected", "written"}
    /\ \E k \in 1 .. Len(conns) : Mine(c, k) /\ conns' = [conns EXCEPT ![k].open = FALSE]
    /\ client' = [client EXCEPT ![c] =
                    [at |-> "away",
                     next |-> IF @.at = "connected" THEN @.next
                              ELSE IF @.next = "BIND_OP" THEN "UNBIND_OP" ELSE "BIND_OP"]]
    /\ UNCHANGED <<exit_sig, acts, locks, pc, calls, kernel, candidates, accepted, usage, round>>

\* The program ends, bound or not; its connections are closed before.
Exit(c) ==
    /\ client[c].at = "away"
    /\ client' = [client EXCEPT ![c].at = "gone"]
    /\ UNCHANGED <<exit_sig, acts, locks, pc, calls, kernel, candidates, conns, accepted, usage, round>>

-----------------------------------------------------------------------------
(* process_socket.                                                         *)

\* while (!exit_sig): select times out often enough to come here.
SocketExit ==
    /\ pc["socket"] = "select" /\ exit_sig
    /\ Goto("socket", "done")
    /\ UNCHANGED <<exit_sig, acts, locks, calls, kernel, candidates, sock, usage, round>>

\* The first select: sel_timeout.tv_usec has no value yet, and select may refuse it.
SocketStart ==
    /\ pc["socket"] = "start"
    /\ \E l \in {"select", "done"} : Goto("socket", l)
    /\ UNCHANGED <<exit_sig, acts, locks, calls, kernel, candidates, sock, usage, round>>

\* Another select, which finds a connection.
Accept ==
    /\ pc["socket"] = "select" /\ ~exit_sig /\ conns # << >>
    /\ accepted' = TRUE /\ Goto("socket", "read")
    /\ UNCHANGED <<exit_sig, acts, locks, calls, kernel, candidates, conns, client, usage, round>>

\* read blocks until the client has written or closed.
ReadRequest ==
    /\ pc["socket"] = "read" /\ conns[1].data
    /\ conns' = [conns EXCEPT ![1].data = FALSE]
    /\ Begin("socket", [op |-> conns[1].op, arg |-> conns[1].client])
    /\ Goto("socket", "sent")
    /\ UNCHANGED <<exit_sig, acts, locks, kernel, candidates, accepted, client, usage, round>>

ReadEnd_Hangup ==
    /\ pc["socket"] = "read" /\ ~conns[1].open
    /\ conns' = Tail(conns) /\ accepted' = FALSE /\ Goto("socket", "select")
    /\ UNCHANGED <<exit_sig, acts, locks, calls, kernel, candidates, client, usage, round>>

ReadEnd ==
    /\ pc["socket"] = "read" /\ ~conns[1].data /\ ~conns[1].open
    /\ conns' = Tail(conns) /\ accepted' = FALSE /\ Goto("socket", "select")
    /\ UNCHANGED <<exit_sig, acts, locks, calls, kernel, candidates, client, usage, round>>

SocketDone ==
    /\ pc["socket"] = "sent" /\ Returned("socket")
    /\ Goto("socket", "read")
    /\ Forget("socket")
    /\ UNCHANGED <<exit_sig, acts, locks, call, kernel, candidates, sock, usage, round>>

Socket == SocketStart \/ SocketExit \/ Accept \/ ReadRequest \/ ReadEnd \/ SocketDone

-----------------------------------------------------------------------------
(* memcheck_placement.                                                     *)

ReadUsage ==
    /\ \E u \in Usage : dram_usage' = u[1] /\ nvram_usage' = u[2]
    /\ fresh' = TRUE

\* The head of the loop, with the usage if either component is on.
MemTop_SwitchOnly ==
    /\ pc["memcheck"] = "top"
    /\ IF exit_sig
         THEN Goto("memcheck", "done") /\ UNCHANGED <<usage, round>>
         ELSE /\ Goto("memcheck", "switch")
              /\ toggled' = FALSE
              /\ IF switch_act
                   THEN ReadUsage
                   ELSE fresh' = FALSE /\ UNCHANGED usage
    /\ UNCHANGED <<exit_sig, acts, locks, calls, kernel, candidates, sock>>

MemTop ==
    /\ pc["memcheck"] = "top"
    /\ IF exit_sig
         THEN Goto("memcheck", "done") /\ UNCHANGED <<usage, round>>
         ELSE /\ Goto("memcheck", "switch")
              /\ toggled' = FALSE
              /\ IF thresh_act \/ switch_act
                   THEN ReadUsage
                   ELSE fresh' = FALSE /\ UNCHANGED usage
    /\ UNCHANGED <<exit_sig, acts, locks, calls, kernel, candidates, sock>>

\* PCM's file has new, valid values above NVRAM_BW_THRESH, or not.
MemSwitch ==
    /\ pc["memcheck"] = "switch"
    /\ \E busy \in BOOLEAN :
         Goto("memcheck", IF switch_act /\ busy THEN "busy" ELSE "thresh")
    /\ UNCHANGED <<exit_sig, acts, locks, calls, kernel, candidates, sock, usage, round>>

MemSwitchLock == LockPlacement("memcheck", "busy", "clear")

MemClear ==
    /\ pc["memcheck"] = "clear"
    /\ Begin("memcheck", Find("NVRAM_CLEAR")) /\ Goto("memcheck", "window")
    /\ UNCHANGED <<exit_sig, acts, locks, kernel, candidates, sock, usage, round>>

\* After clear_interval.  A usage that was never read can be any number.
MemFind ==
    /\ pc["memcheck"] = "window" /\ Returned("memcheck")
    /\ \E m \in CASE dram_usage = "low" -> {"NVRAM_INTENSIVE_MODE"}
                  [] dram_usage \in {"target", "limit"} -> {"SWITCH_MODE"}
                  [] OTHER -> {"NVRAM_INTENSIVE_MODE", "SWITCH_MODE"} :
         Begin("memcheck", Find(m))
    /\ Goto("memcheck", "found")
    /\ UNCHANGED <<exit_sig, acts, locks, kernel, candidates, sock, usage, round>>

\* The usage is read again when pages came to DRAM.
MemFound ==
    /\ pc["memcheck"] = "found" /\ Returned("memcheck")
    /\ IF req["memcheck"].arg = "NVRAM_INTENSIVE_MODE" /\ result["memcheck"]
         THEN ReadUsage
         ELSE UNCHANGED <<usage, fresh>>
    /\ placement_lock' = None /\ Goto("memcheck", "thresh")
    /\ Forget("memcheck")
    /\ UNCHANGED <<exit_sig, acts, comm_lock, call, kernel, candidates, sock, toggled>>

Levels(u) == IF u = "unset" THEN Level ELSE {u}

\* What thresh_act makes of the usages; a switch component that is on keeps it from
\* bringing pages to DRAM.
ThreshMode(d, n) ==
    CASE d = "limit" /\ n = "low" -> "DRAM_MODE"
      [] d = "low" /\ n = "limit" /\ ~switch_act -> "NVRAM_MODE"
      [] OTHER -> None

MemThresh ==
    /\ pc["memcheck"] = "thresh"
    /\ \E d \in Levels(dram_usage), n \in Levels(nvram_usage) :
         LET m == ThreshMode(d, n) IN
         IF thresh_act /\ m # None
           THEN Goto("memcheck", "over") /\ req' = [req EXCEPT !["memcheck"] = Find(m)]
           ELSE Goto("memcheck", "sleep") /\ UNCHANGED req
    /\ UNCHANGED <<exit_sig, acts, locks, call, result, kernel, candidates, sock, usage, round>>

MemThreshLock == LockPlacement("memcheck", "over", "move")

MemMove ==
    /\ pc["memcheck"] = "move"
    /\ Begin("memcheck", req["memcheck"]) /\ Goto("memcheck", "moved")
    /\ UNCHANGED <<exit_sig, acts, locks, kernel, candidates, sock, usage, round>>

MemMoved ==
    /\ pc["memcheck"] = "moved" /\ Returned("memcheck")
    /\ placement_lock' = None /\ Goto("memcheck", "sleep")
    /\ Forget("memcheck")
    /\ UNCHANGED <<exit_sig, acts, comm_lock, call, kernel, candidates, sock, usage, round>>

MemSleep ==
    /\ pc["memcheck"] = "sleep"
    /\ Goto("memcheck", "top")
    /\ UNCHANGED <<exit_sig, acts, locks, calls, kernel, candidates, sock, usage, round>>

Memcheck ==
    \/ MemTop \/ MemSwitch \/ MemSwitchLock \/ MemClear \/ MemFind \/ MemFound
    \/ MemThresh \/ MemThreshLock \/ MemMove \/ MemMoved \/ MemSleep

-----------------------------------------------------------------------------
\* main has joined every thread; nothing is left to run.
Ended == (\A t \in Thread : pc[t] = "done") /\ UNCHANGED vars

Next ==
    \/ \E t \in Thread : Request(t)
    \/ Stdin \/ StdinInput \/ Socket \/ Memcheck
    \/ \E c \in Client : Connect(c) \/ WriteRequest(c) \/ Close(c) \/ Exit(c)
    \/ Ended

Spec == Init /\ [][Next]_vars

\* A thread that can run does, and a lock that is free again and again is handed over:
\* memcheck sleeps for a second between two rounds.  A client that connected goes on
\* to write and close.  Nobody has to type.
Fairness ==
    /\ \A t \in Thread :
         WF_vars(Sendmsg(t) \/ Recvmsg(t) \/ Migrate(t)) /\ SF_vars(LockComm(t))
    /\ WF_vars(StdinSend \/ StdinDone \/ StdinToggleBoth) /\ SF_vars(StdinLock)
    /\ WF_vars(Socket)
    /\ WF_vars(Memcheck) /\ SF_vars(MemSwitchLock) /\ SF_vars(MemThreshLock)
    /\ \A c \in Client : WF_vars(WriteRequest(c) \/ Close(c))

FairSpec == Spec /\ Fairness

-----------------------------------------------------------------------------
TypeOK ==
    /\ exit_sig \in BOOLEAN /\ switch_act \in BOOLEAN /\ thresh_act \in BOOLEAN
    /\ comm_lock \in Thread \cup {None} /\ placement_lock \in Thread \cup {None}
    /\ call \in [Thread -> {None, "lock", "sendmsg", "recvmsg", "migrate"}]
    /\ result \in [Thread -> BOOLEAN]
    /\ Len(queue) <= 1 /\ Len(conns) <= CONNS
    /\ dram_usage \in Level \cup {"unset"} /\ nvram_usage \in Level \cup {"unset"}
    /\ bound \subseteq Client /\ overruled \subseteq Client

(* The reply a thread is going to receive is the one to its own request, and
   there is never another on the socket: nothing in a reply says which
   request it answers.                                                     *)
ReplyIsOwn ==
    \A t \in Thread :
        call[t] = "recvmsg" => queue \in {<< >>, << [to |-> t, req |-> req[t]] >>}

(* The pages send_find migrates are those its own FIND found, in the mode it
   asked for, although comm_lock was released before it reads them.        *)
CandidatesAreOwn ==
    \A t \in Thread :
        call[t] = "migrate" => candidates = [to |-> t, req |-> req[t]]

(* The module walks for no other FIND between memcheck's CLEAR and the FIND
   the CLEAR prepares, however long clear_interval is.                     *)
ClearPrecedesFind ==
    [][ \A m \in {"NVRAM_INTENSIVE_MODE", "SWITCH_MODE"} :
          Sendmsg("memcheck") /\ req["memcheck"] = Find(m) =>
              last_find = [to |-> "memcheck", mode |-> "NVRAM_CLEAR"] ]_vars

(* A round that migrates decided on usages it read itself, unless a component
   was toggled in the middle of the round.                                 *)
UsageOfThisRound ==
    pc["memcheck"] \in {"busy", "clear", "window", "over"} => fresh \/ toggled

(* A client never learns what became of its requests; this is what it can rely
   on.  Once it has no connection left, its requests were carried out in the
   order it made them, each one, so that it is in the module's list if the last
   was a BIND and not if it was an UNBIND.  Three things overrule that, until
   its next request: the module refused the BIND, dropped it from the list as
   ended, or was asked by stdin to bind or unbind the same number.         *)
ListFollowsClient ==
    \A c \in Client \ overruled :
        (\A k \in 1 .. Len(conns) : conns[k].client # c) =>
            (c \in bound <=> client[c].next = "UNBIND_OP")

(* After exit every thread ends, and main can join it.                     *)
ExitEndsAll == exit_sig ~> \A t \in Thread : pc[t] = "done"

(* Every request a client has written, BIND or UNBIND, reaches the module,
   although the client closed the connection at once, unless process_socket
   ended before it got there.                                              *)
RequestReachesModule ==
    \A c \in Client, o \in {"BIND_OP", "UNBIND_OP"} :
        (\E k \in 1 .. Len(conns) : conns[k] = [client |-> c, op |-> o, data |-> TRUE, open |-> FALSE])
            ~> \/ call["socket"] = "recvmsg" /\ req["socket"] = [op |-> o, arg |-> c]
               \/ pc["socket"] = "done"
=============================================================================
