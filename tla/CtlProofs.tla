----------------------------- MODULE CtlProofs -----------------------------
(***************************************************************************)
(* Proofs about Ctl, for any set of clients, any repertoire of commands,   *)
(* any number of connections, and whether or not replies are dropped.      *)
(***************************************************************************)
EXTENDS Ctl, SequenceTheorems, TLAPS

-----------------------------------------------------------------------------
(* The inductive invariant.                                                *)

StdinPlace == {"prompt", "place", "find", "sent", "both", "done"}
SocketPlace == {"start", "select", "read", "sent", "done"}
MemcheckPlace == {"top", "switch", "busy", "clear", "window", "found", "thresh", "over",
                  "move", "moved", "sleep", "done"}
ClientOp == {"BIND_OP", "UNBIND_OP"}
Connection == [client : Client, op : ClientOp, data : BOOLEAN, open : BOOLEAN]

(* What TypeOK leaves out: where the threads are, and what they ask.       *)
Shape ==
    /\ pc \in [Thread -> StdinPlace \cup SocketPlace \cup MemcheckPlace]
    /\ pc["stdin"] \in StdinPlace /\ pc["socket"] \in SocketPlace
    /\ pc["memcheck"] \in MemcheckPlace
    /\ DOMAIN req = Thread
    /\ conns \in Seq(Connection)
    /\ client \in [Client -> [at : {"away", "connected", "written", "gone"}, next : ClientOp]]
    /\ pc["socket"] \in {"read", "sent"} => conns # << >>

(* A thread with a request under way waits for it to return.               *)
CallersWait ==
    /\ call["stdin"] # None => pc["stdin"] = "sent"
    /\ call["socket"] # None => pc["socket"] = "sent"
    /\ call["memcheck"] # None => pc["memcheck"] \in {"window", "found", "moved"}

(* comm_lock is held from before sendmsg until after recvmsg, and the
   socket is empty unless somebody is about to receive.                    *)
CommExclusive ==
    /\ \A t \in Thread : call[t] \in {"sendmsg", "recvmsg"} => comm_lock = t
    /\ (\A t \in Thread : call[t] # "recvmsg") => queue = << >>

(* Whoever asks for pages or migrates them holds placement_lock; the socket
   thread, which does not, never asks for pages.                           *)
PlacementExclusive ==
    /\ pc["stdin"] = "find" => placement_lock = "stdin"
    /\ pc["stdin"] = "sent" /\ req["stdin"].op = "FIND_OP" => placement_lock = "stdin"
    /\ req["socket"].op # "FIND_OP"
    /\ pc["memcheck"] \in {"clear", "window", "found", "move", "moved"} =>
          placement_lock = "memcheck"
    /\ \A t \in Thread : call[t] = "migrate" => req[t].op = "FIND_OP"

Cleared == last_find = [to |-> "memcheck", mode |-> "NVRAM_CLEAR"]

(* Between memcheck's two requests the last walk is that of the CLEAR.     *)
WindowOpen ==
    /\ pc["memcheck"] = "window" /\ call["memcheck"] # None =>
          req["memcheck"] = Find("NVRAM_CLEAR")
    /\ pc["memcheck"] = "window" /\ call["memcheck"] \notin {"lock", "sendmsg"} => Cleared
    /\ pc["memcheck"] = "found" /\ call["memcheck"] \in {"lock", "sendmsg"} => Cleared
    /\ pc["memcheck"] \in {"over", "move", "moved"} =>
          req["memcheck"] \in {Find("DRAM_MODE"), Find("NVRAM_MODE")}

(* Usages that are not of this round decide nothing unless a toggle came in. *)
UsageKnown ==
    /\ pc["memcheck"] \in {"busy", "clear", "window", "found", "over"} => fresh \/ toggled
    /\ pc["memcheck"] \in {"switch", "thresh"} =>
          fresh \/ toggled \/ (~switch_act /\ ~thresh_act)

IInv ==
    /\ TypeOK /\ Shape
    /\ CallersWait
    /\ CommExclusive /\ ReplyIsOwn
    /\ PlacementExclusive /\ CandidatesAreOwn
    /\ WindowOpen
    /\ UsageKnown

-----------------------------------------------------------------------------
(* The thread a step is a step of.                                         *)
Clients == \E c \in Client : Connect(c) \/ WriteRequest(c) \/ Close(c) \/ Exit(c)

(* What a step of a front end leaves alone: everything of memcheck.        *)
MemcheckState == <<pc["memcheck"], call["memcheck"], req["memcheck"], usage, fresh>>

LEMMA StdinFrame ==
    ASSUME TypeOK, Shape, Stdin \/ StdinInput
    PROVE  /\ UNCHANGED <<MemcheckState, pc["socket"], call["socket"], req["socket"],
                          comm_lock, kernel, candidates, conns>>
           /\ placement_lock' # placement_lock => placement_lock \in {"stdin", None}
<1> USE DEF Shape, TypeOK, Thread, MemcheckState, Goto, Begin, Forget,
            acts, locks, sock, usage, calls, kernel, list, round
<1>1. CASE StdinBind
  BY <1>1 DEF StdinBind
<1>2. CASE StdinFind
  BY <1>2 DEF StdinFind
<1>3. CASE StdinLock
  BY <1>3 DEF StdinLock, LockPlacement
<1>4. CASE StdinSend
  BY <1>4 DEF StdinSend
<1>5. CASE StdinDone
  BY <1>5 DEF StdinDone
<1>6. CASE StdinToggle
  BY <1>6 DEF StdinToggle
<1>7. CASE StdinToggleBoth
  BY <1>7 DEF StdinToggleBoth
<1>8. CASE StdinExit
  BY <1>8 DEF StdinExit
<1>9. QED
  BY <1>1, <1>2, <1>3, <1>4, <1>5, <1>6, <1>7, <1>8 DEF Stdin, StdinInput

LEMMA SocketFrame ==
    ASSUME TypeOK, Shape, Socket
    PROVE  UNCHANGED <<MemcheckState, pc["stdin"], call["stdin"], req["stdin"], toggled,
                       acts, locks, kernel, candidates>>
<1> USE DEF Shape, TypeOK, Thread, MemcheckState, Goto, Begin, Forget,
            acts, locks, sock, usage, calls, kernel, list, round
<1>1. CASE SocketStart
  BY <1>1 DEF SocketStart
<1>2. CASE SocketExit
  BY <1>2 DEF SocketExit
<1>3. CASE Accept
  BY <1>3 DEF Accept
<1>4. CASE ReadRequest
  BY <1>4 DEF ReadRequest
<1>5. CASE ReadEnd
  BY <1>5 DEF ReadEnd
<1>6. CASE SocketDone
  BY <1>6 DEF SocketDone
<1>7. QED
  BY <1>1, <1>2, <1>3, <1>4, <1>5, <1>6 DEF Socket

LEMMA MemcheckFrame ==
    ASSUME TypeOK, Shape, Memcheck
    PROVE  /\ UNCHANGED <<pc["stdin"], call["stdin"], req["stdin"], pc["socket"], call["socket"],
                          req["socket"], comm_lock, kernel, candidates, acts, sock>>
           /\ placement_lock' # placement_lock =>
                  placement_lock = None \/ pc["memcheck"] \in {"found", "moved"}
<1> USE DEF Shape, TypeOK, Thread, MemcheckState, Goto, Begin, Forget,
            acts, locks, sock, usage, calls, kernel, list, round
<1>1. CASE MemTop
  BY <1>1 DEF MemTop
<1>2. CASE MemSwitch
  BY <1>2 DEF MemSwitch
<1>3. CASE MemSwitchLock
  BY <1>3 DEF MemSwitchLock, LockPlacement
<1>4. CASE MemClear
  BY <1>4 DEF MemClear
<1>5. CASE MemFind
  BY <1>5 DEF MemFind
<1>6. CASE MemFound
  BY <1>6 DEF MemFound
<1>7. CASE MemThresh
  BY <1>7 DEF MemThresh
<1>8. CASE MemThreshLock
  BY <1>8 DEF MemThreshLock, LockPlacement
<1>9. CASE MemMove
  BY <1>9 DEF MemMove
<1>10. CASE MemMoved
  BY <1>10 DEF MemMoved
<1>11. CASE MemSleep
  BY <1>11 DEF MemSleep
<1>12. QED
  BY <1>1, <1>2, <1>3, <1>4, <1>5, <1>6, <1>7, <1>8, <1>9, <1>10, <1>11 DEF Memcheck

LEMMA ClientFrame ==
    ASSUME Clients
    PROVE  UNCHANGED <<exit_sig, acts, locks, pc, calls, kernel, candidates, accepted, usage, round>>
  BY DEF Clients, Connect, WriteRequest, Close, Exit

LEMMA RequestFrame ==
    ASSUME NEW t \in Thread, Request(t)
    PROVE  UNCHANGED <<exit_sig, acts, placement_lock, pc, req, sock, usage, round>>
  BY DEF Request, LockComm, Sendmsg, Recvmsg, Migrate, locks, kernel

-----------------------------------------------------------------------------
(* The waiting of the callers is preserved.                                *)
LEMMA CallersStep ==
    ASSUME TypeOK, Shape, CallersWait, [Next]_vars
    PROVE  CallersWait'
<1> USE DEF CallersWait, TypeOK, Shape, Thread, None, Goto, Begin, Forget,
            acts, locks, sock, usage, calls, kernel, list, round
<1>1. ASSUME NEW t \in Thread, Request(t) PROVE CallersWait'
  <2>1. pc' = pc /\ call[t] # None
    BY <1>1, RequestFrame DEF Request, LockComm, Sendmsg, Recvmsg, Migrate
  <2>2. \A u \in Thread : u # t => call'[u] = call[u]
    BY <1>1 DEF Request, LockComm, Sendmsg, Recvmsg, Migrate
  <2>3. QED
    BY <2>1, <2>2
<1>2. CASE Stdin \/ StdinInput
  <2>1. call["stdin"]' # None => pc["stdin"]' = "sent"
    <3>1. CASE StdinBind
      BY <3>1 DEF StdinBind
    <3>2. CASE StdinSend
      BY <3>2 DEF StdinSend
    <3>3. CASE StdinDone
      BY <3>3 DEF StdinDone, Returned
    <3>4. CASE StdinFind \/ StdinLock \/ StdinToggle \/ StdinToggleBoth \/ StdinExit
      BY <3>4 DEF StdinFind, StdinLock, LockPlacement, StdinToggle, StdinToggleBoth, StdinExit
    <3>5. QED
      BY <1>2, <3>1, <3>2, <3>3, <3>4 DEF Stdin, StdinInput
  <2>2. QED
    BY <1>2, <2>1, StdinFrame DEF MemcheckState
<1>3. CASE Socket
  <2>1. call["socket"]' # None => pc["socket"]' = "sent"
    <3>1. CASE ReadRequest
      BY <3>1 DEF ReadRequest
    <3>2. CASE SocketDone
      BY <3>2 DEF SocketDone, Returned
    <3>3. CASE SocketStart \/ SocketExit \/ Accept \/ ReadEnd
      BY <3>3 DEF SocketStart, SocketExit, Accept, ReadEnd
    <3>4. QED
      BY <1>3, <3>1, <3>2, <3>3 DEF Socket
  <2>2. QED
    BY <1>3, <2>1, SocketFrame DEF MemcheckState
<1>4. CASE Memcheck
  <2>1. call["memcheck"]' # None => pc["memcheck"]' \in {"window", "found", "moved"}
    <3>1. CASE MemClear
      BY <3>1 DEF MemClear
    <3>2. CASE MemFind
      <4>1. /\ call' = [call EXCEPT !["memcheck"] = "lock"]
            /\ pc' = [pc EXCEPT !["memcheck"] = "found"]
        BY <3>2 DEF MemFind
      <4>2. QED
        BY <4>1
    <3>3. CASE MemMove
      BY <3>3 DEF MemMove
    <3>4. CASE MemFound \/ MemMoved
      BY <3>4 DEF MemFound, MemMoved, Returned
    <3>5. CASE MemTop \/ MemSwitch \/ MemSwitchLock
      BY <3>5 DEF MemTop, MemSwitch, MemSwitchLock, LockPlacement
    <3>6. CASE MemThresh
      BY <3>6 DEF MemThresh
    <3>7. CASE MemThreshLock \/ MemSleep
      BY <3>7 DEF MemThreshLock, LockPlacement, MemSleep
    <3>8. QED
      BY <1>4, <3>1, <3>2, <3>3, <3>4, <3>5, <3>6, <3>7 DEF Memcheck
  <2>2. QED
    BY <1>4, <2>1, MemcheckFrame
<1>5. CASE Clients
  BY <1>5, ClientFrame
<1>6. CASE UNCHANGED vars
  BY <1>6 DEF vars
<1>7. QED
  BY <1>1, <1>2, <1>3, <1>4, <1>5, <1>6 DEF Next, Ended, Clients

(* Outside a request, a thread at most begins one, and what it asked for
   stands until it returns.                                                *)
LEMMA Handoff ==
    ASSUME TypeOK, Shape, CallersWait, [Next]_vars, \A t \in Thread : ~Request(t)
    PROVE  /\ UNCHANGED <<comm_lock, kernel, candidates>>
           /\ \A t \in Thread :
                 /\ call'[t] = call[t] \/ (call[t] = None /\ call'[t] = "lock")
                 /\ call[t] # None => req'[t] = req[t]
<1> USE DEF CallersWait, TypeOK, Shape, Thread, None, Goto, Begin, Forget,
            acts, locks, sock, usage, calls, kernel, list, round
<1>1. CASE Stdin \/ StdinInput
  <2>1. /\ call'["stdin"] = call["stdin"] \/ (call["stdin"] = None /\ call'["stdin"] = "lock")
        /\ call["stdin"] # None => req'["stdin"] = req["stdin"]
    <3>1. CASE StdinBind
      BY <3>1 DEF StdinBind
    <3>2. CASE StdinSend
      BY <3>2 DEF StdinSend
    <3>3. CASE StdinDone
      BY <3>3 DEF StdinDone, Returned
    <3>4. CASE StdinFind \/ StdinLock \/ StdinToggle \/ StdinToggleBoth \/ StdinExit
      BY <3>4 DEF StdinFind, StdinLock, LockPlacement, StdinToggle, StdinToggleBoth, StdinExit
    <3>5. QED
      BY <1>1, <3>1, <3>2, <3>3, <3>4 DEF Stdin, StdinInput
  <2>2. QED
    BY <1>1, <2>1, StdinFrame DEF MemcheckState
<1>2. CASE Socket
  <2>1. /\ call'["socket"] = call["socket"] \/ (call["socket"] = None /\ call'["socket"] = "lock")
        /\ call["socket"] # None => req'["socket"] = req["socket"]
    <3>1. CASE ReadRequest
      BY <3>1 DEF ReadRequest
    <3>2. CASE SocketDone
      BY <3>2 DEF SocketDone, Returned
    <3>3. CASE SocketStart \/ SocketExit \/ Accept \/ ReadEnd
      BY <3>3 DEF SocketStart, SocketExit, Accept, ReadEnd
    <3>4. QED
      BY <1>2, <3>1, <3>2, <3>3 DEF Socket
  <2>2. QED
    BY <1>2, <2>1, SocketFrame DEF MemcheckState
<1>3. CASE Memcheck
  <2>1. /\ call'["memcheck"] = call["memcheck"]
              \/ (call["memcheck"] = None /\ call'["memcheck"] = "lock")
        /\ call["memcheck"] # None => req'["memcheck"] = req["memcheck"]
    <3>1. CASE MemClear
      BY <3>1 DEF MemClear
    <3>2. CASE MemFind
      <4>1. /\ call["memcheck"] = None
            /\ call' = [call EXCEPT !["memcheck"] = "lock"]
        BY <3>2 DEF MemFind, Returned
      <4>2. QED
        BY <4>1
    <3>3. CASE MemMove
      BY <3>3 DEF MemMove
    <3>4. CASE MemFound \/ MemMoved
      BY <3>4 DEF MemFound, MemMoved, Returned
    <3>5. CASE MemTop \/ MemSwitch \/ MemSwitchLock
      BY <3>5 DEF MemTop, MemSwitch, MemSwitchLock, LockPlacement
    <3>6. CASE MemThresh
      BY <3>6 DEF MemThresh
    <3>7. CASE MemThreshLock \/ MemSleep
      BY <3>7 DEF MemThreshLock, LockPlacement, MemSleep
    <3>8. QED
      BY <1>3, <3>1, <3>2, <3>3, <3>4, <3>5, <3>6, <3>7 DEF Memcheck
  <2>2. QED
    BY <1>3, <2>1, MemcheckFrame
<1>4. CASE Clients
  BY <1>4, ClientFrame
<1>5. CASE UNCHANGED vars
  BY <1>5 DEF vars
<1>6. QED
  BY <1>1, <1>2, <1>3, <1>4, <1>5 DEF Next, Ended, Clients

-----------------------------------------------------------------------------
(* The thread that has the module search for pages holds placement_lock.   *)
LEMMA FindersHoldPlacement ==
    ASSUME CallersWait, PlacementExclusive
    PROVE  \A t \in Thread :
              call[t] # None /\ req[t].op = "FIND_OP" => placement_lock = t
  BY DEF CallersWait, PlacementExclusive, Thread

(* comm_lock and the socket it protects.                                   *)
LEMMA CommStep ==
    ASSUME TypeOK, Shape, CallersWait, CommExclusive, ReplyIsOwn, [Next]_vars
    PROVE  CommExclusive' /\ ReplyIsOwn'
<1> USE DEF CommExclusive, ReplyIsOwn, TypeOK, None
<1>1. ASSUME NEW t \in Thread, LockComm(t) PROVE CommExclusive' /\ ReplyIsOwn'
  <2>1. /\ comm_lock' = t /\ queue' = queue /\ req' = req
        /\ call' = [call EXCEPT ![t] = "sendmsg"]
    BY <1>1 DEF LockComm, kernel
  <2>2. \A u \in Thread : call[u] \notin {"sendmsg", "recvmsg"}
    BY <1>1 DEF LockComm, Thread
  <2>3. QED
    BY <2>1, <2>2
<1>2. ASSUME NEW t \in Thread, Sendmsg(t) PROVE CommExclusive' /\ ReplyIsOwn'
  <2>1. /\ comm_lock' = comm_lock /\ req' = req /\ call[t] = "sendmsg"
        /\ call' = [call EXCEPT ![t] = "recvmsg"]
        /\ queue' \in {queue, Append(queue, [to |-> t, req |-> req[t]])}
    BY <1>2 DEF Sendmsg, Reply, locks
  <2>2. \A u \in Thread : u # t => call[u] \notin {"sendmsg", "recvmsg"}
    BY <2>1
  <2>3. queue = << >>
    BY <2>1, <2>2
  <2>4. queue' \in {<< >>, << [to |-> t, req |-> req[t]] >>}
    BY <2>1, <2>3
  <2>5. QED
    BY <2>1, <2>2, <2>4
<1>3. ASSUME NEW t \in Thread, Recvmsg(t) PROVE CommExclusive' /\ ReplyIsOwn'
  <2>1. /\ queue' = Tail(queue) /\ queue # << >> /\ req' = req /\ call[t] = "recvmsg"
        /\ call' \in {[call EXCEPT ![t] = None], [call EXCEPT ![t] = "migrate"]}
    BY <1>3 DEF Recvmsg
  <2>2. \A u \in Thread : u # t => call[u] \notin {"sendmsg", "recvmsg"}
    BY <2>1
  <2>3. queue' = << >>
    BY <2>1
  <2>4. QED
    BY <2>1, <2>2, <2>3
<1>4. ASSUME NEW t \in Thread, Migrate(t) PROVE CommExclusive' /\ ReplyIsOwn'
  <2>1. /\ queue' = queue /\ req' = req /\ comm_lock' = comm_lock /\ call[t] = "migrate"
        /\ call' = [call EXCEPT ![t] = None]
    BY <1>4 DEF Migrate, locks, kernel
  <2>2. QED
    BY <2>1
<1>5. ASSUME \A t \in Thread : ~Request(t) PROVE CommExclusive' /\ ReplyIsOwn'
  <2>1. /\ queue' = queue /\ comm_lock' = comm_lock
        /\ \A t \in Thread :
              /\ call'[t] = call[t] \/ (call[t] = None /\ call'[t] = "lock")
              /\ call[t] # None => req'[t] = req[t]
    BY <1>5, Handoff DEF kernel
  <2>2. QED
    BY <2>1
<1>6. QED
  BY <1>1, <1>2, <1>3, <1>4, <1>5 DEF Request

(* The reply that candidates holds.                                        *)
LEMMA CandidatesStep ==
    ASSUME TypeOK, Shape, CallersWait, CommExclusive, ReplyIsOwn,
           PlacementExclusive, CandidatesAreOwn, [Next]_vars
    PROVE  CandidatesAreOwn'
<1> USE DEF CandidatesAreOwn, TypeOK, None
<1>1. ASSUME NEW t \in Thread, LockComm(t) \/ Sendmsg(t) \/ Migrate(t)
      PROVE  CandidatesAreOwn'
  <2>1. /\ candidates' = candidates /\ req' = req
        /\ \A u \in Thread : call'[u] = "migrate" => call[u] = "migrate"
    BY <1>1 DEF LockComm, Sendmsg, Migrate
  <2>2. QED
    BY <2>1
<1>2. ASSUME NEW t \in Thread, Recvmsg(t) PROVE CandidatesAreOwn'
  <2>1. call[t] = "recvmsg" /\ queue # << >> /\ req' = req
    BY <1>2 DEF Recvmsg
  <2>2. CASE req[t].op = "FIND_OP"
    <3>1. candidates' = Head(queue) /\ call' = [call EXCEPT ![t] = "migrate"]
      BY <1>2, <2>2 DEF Recvmsg
    <3>2. candidates' = [to |-> t, req |-> req[t]]
      BY <2>1, <3>1 DEF ReplyIsOwn
    <3>3. \A u \in Thread : u # t => call[u] # "migrate"
      BY <2>1, <2>2, FindersHoldPlacement DEF PlacementExclusive
    <3>4. QED
      BY <2>1, <3>1, <3>2, <3>3
  <2>3. CASE req[t].op # "FIND_OP"
    <3>1. candidates' = candidates /\ call' = [call EXCEPT ![t] = None]
      BY <1>2, <2>3 DEF Recvmsg
    <3>2. QED
      BY <2>1, <3>1
  <2>4. QED
    BY <2>2, <2>3
<1>3. ASSUME \A t \in Thread : ~Request(t) PROVE CandidatesAreOwn'
  <2>1. /\ candidates' = candidates
        /\ \A t \in Thread :
              /\ call'[t] = call[t] \/ (call[t] = None /\ call'[t] = "lock")
              /\ call[t] # None => req'[t] = req[t]
    BY <1>3, Handoff
  <2>2. QED
    BY <2>1
<1>4. QED
  BY <1>1, <1>2, <1>3 DEF Request

LEMMA FirstElement ==
    ASSUME NEW S, NEW s \in Seq(S), s # << >>
    PROVE  s[1] \in S
<1>1. Len(s) \in Nat /\ Len(s) # 0
  OBVIOUS
<1>2. QED
  BY <1>1

(* placement_lock.                                                         *)
LEMMA PlacementStep ==
    ASSUME TypeOK, Shape, CallersWait, PlacementExclusive, [Next]_vars
    PROVE  PlacementExclusive'
<1> USE DEF PlacementExclusive, TypeOK, Shape, Thread, None, Goto, Begin, Forget, Find,
            NoRequest, acts, locks, sock, usage, calls, kernel, list, round
<1>1. ASSUME NEW t \in Thread, Request(t) PROVE PlacementExclusive'
  <2>1. UNCHANGED <<placement_lock, pc, req>>
    BY <1>1, RequestFrame
  <2>2. \A u \in Thread : call'[u] = "migrate" => call[u] = "migrate" \/ req[u].op = "FIND_OP"
    BY <1>1 DEF Request, LockComm, Sendmsg, Recvmsg, Migrate
  <2>3. QED
    BY <2>1, <2>2
<1>2. ASSUME \A t \in Thread : ~Request(t)
      PROVE  \A t \in Thread : call'[t] = "migrate" => req'[t].op = "FIND_OP"
  <2>1. \A t \in Thread :
              /\ call'[t] = call[t] \/ (call[t] = None /\ call'[t] = "lock")
              /\ call[t] # None => req'[t] = req[t]
    BY <1>2, Handoff
  <2>2. QED
    BY <2>1
<1>3. ASSUME \A t \in Thread : ~Request(t), Stdin \/ StdinInput PROVE PlacementExclusive'
  <2>1. /\ pc["stdin"]' = "find" => placement_lock' = "stdin"
        /\ pc["stdin"]' = "sent" /\ req["stdin"]'.op = "FIND_OP" => placement_lock' = "stdin"
    <3>1. CASE StdinBind
      <4>1. PICK cmd \in {"bind", "unbind"}, n \in Typed :
               req' = [req EXCEPT !["stdin"] = [op |-> CommandOp[cmd], arg |-> n]]
        BY <3>1 DEF StdinBind, CommandOp
      <4>2. CommandOp[cmd] # "FIND_OP"
        BY DEF CommandOp
      <4>3. pc["stdin"]' = "sent" /\ req["stdin"]'.op # "FIND_OP"
        BY <3>1, <4>1, <4>2 DEF StdinBind
      <4> QED
        BY <4>3
    <3>2. CASE StdinLock
      BY <3>2 DEF StdinLock, LockPlacement
    <3>3. CASE StdinSend
      BY <3>3 DEF StdinSend
    <3>4. CASE StdinDone
      BY <3>4 DEF StdinDone
    <3>5. CASE StdinFind \/ StdinToggle \/ StdinToggleBoth \/ StdinExit
      BY <3>5 DEF StdinFind, StdinToggle, StdinToggleBoth, StdinExit
    <3>6. QED
      BY <1>3, <3>1, <3>2, <3>3, <3>4, <3>5 DEF Stdin, StdinInput
  <2>2. /\ UNCHANGED <<pc["memcheck"], req["socket"]>>
        /\ placement_lock = "memcheck" => placement_lock' = "memcheck"
    BY <1>3, StdinFrame DEF MemcheckState
  <2>3. QED
    BY <1>2, <1>3, <2>1, <2>2
<1>4. ASSUME \A t \in Thread : ~Request(t), Socket PROVE PlacementExclusive'
  <2>1. req["socket"]'.op # "FIND_OP"
    <3>1. CASE ReadRequest
      <4>1. conns[1].op \in ClientOp
        <5>1. conns # << >> /\ conns \in Seq(Connection)
          BY <3>1 DEF ReadRequest
        <5>2. conns[1] \in Connection
          BY <5>1, FirstElement
        <5>3. QED
          BY <5>2 DEF Connection
      <4>2. req' = [req EXCEPT !["socket"] = [op |-> conns[1].op, arg |-> conns[1].client]]
        BY <3>1 DEF ReadRequest
      <4>3. QED
        BY <4>1, <4>2 DEF ClientOp
    <3>2. CASE SocketDone
      BY <3>2 DEF SocketDone
    <3>3. CASE SocketStart \/ SocketExit \/ Accept \/ ReadEnd
      BY <3>3 DEF SocketStart, SocketExit, Accept, ReadEnd
    <3>4. QED
      BY <1>4, <3>1, <3>2, <3>3 DEF Socket
  <2>2. UNCHANGED <<pc["memcheck"], pc["stdin"], req["stdin"], placement_lock>>
    BY <1>4, SocketFrame DEF MemcheckState
  <2>3. QED
    BY <1>2, <1>4, <2>1, <2>2
<1>5. ASSUME \A t \in Thread : ~Request(t), Memcheck PROVE PlacementExclusive'
  <2>1. pc["memcheck"]' \in {"clear", "window", "found", "move", "moved"} =>
           placement_lock' = "memcheck"
    <3>1. CASE MemTop \/ MemSwitch \/ MemSwitchLock
      BY <3>1 DEF MemTop, MemSwitch, MemSwitchLock, LockPlacement
    <3>2. CASE MemClear
      BY <3>2 DEF MemClear
    <3>3. CASE MemFind
      <4>1. /\ pc["memcheck"] = "window" /\ placement_lock' = placement_lock
        BY <3>3 DEF MemFind
      <4>2. QED
        BY <4>1
    <3>4. CASE MemFound \/ MemThresh \/ MemSleep
      BY <3>4 DEF MemFound, MemThresh, MemSleep
    <3>5. CASE MemThreshLock \/ MemMove \/ MemMoved
      BY <3>5 DEF MemThreshLock, LockPlacement, MemMove, MemMoved
    <3>6. QED
      BY <1>5, <3>1, <3>2, <3>3, <3>4, <3>5 DEF Memcheck
  <2>2. /\ UNCHANGED <<pc["stdin"], req["stdin"], req["socket"]>>
        /\ placement_lock = "stdin" => placement_lock' = "stdin"
    BY <1>5, MemcheckFrame
  <2>3. QED
    BY <1>2, <1>5, <2>1, <2>2
<1>6. CASE Clients
  BY <1>6, ClientFrame
<1>7. CASE UNCHANGED vars
  BY <1>7 DEF vars
<1>8. QED
  BY <1>1, <1>3, <1>4, <1>5, <1>6, <1>7 DEF Next, Ended, Clients

-----------------------------------------------------------------------------
(* Types.                                                                  *)
LEMMA SetField ==
    ASSUME NEW r \in Connection, NEW b \in BOOLEAN
    PROVE  [r EXCEPT !.data = b] \in Connection /\ [r EXCEPT !.open = b] \in Connection
<1>1. /\ r = [client |-> r.client, op |-> r.op, data |-> r.data, open |-> r.open]
      /\ r.client \in Client /\ r.op \in ClientOp /\ r.data \in BOOLEAN /\ r.open \in BOOLEAN
  BY DEF Connection
<1>2. [r EXCEPT !.data = b] = [client |-> r.client, op |-> r.op, data |-> b, open |-> r.open]
  BY <1>1
<1>3. [r EXCEPT !.open = b] = [client |-> r.client, op |-> r.op, data |-> r.data, open |-> b]
  BY <1>1
<1>4. QED
  BY <1>1, <1>2, <1>3 DEF Connection

LEMMA SocketTypes ==
    ASSUME TypeOK, Shape, [Next]_vars
    PROVE  /\ conns' \in Seq(Connection) /\ Len(conns') <= CONNS
           /\ client' \in [Client -> [at : {"away", "connected", "written", "gone"}, next : ClientOp]]
           /\ pc'["socket"] \in {"read", "sent"} => conns' # << >>
<1> DEFINE Goal == /\ conns' \in Seq(Connection) /\ Len(conns') <= CONNS
                   /\ client' \in [Client -> [at : {"away", "connected", "written", "gone"}, next : ClientOp]]
                   /\ pc'["socket"] \in {"read", "sent"} => conns' # << >>
<1> SUFFICES Goal
  OBVIOUS
<1> HIDE DEF Goal
<1>0. /\ conns \in Seq(Connection) /\ Len(conns) \in Nat /\ Len(conns) <= CONNS /\ CONNS \in Nat
      /\ client \in [Client -> [at : {"away", "connected", "written", "gone"}, next : ClientOp]]
      /\ pc["socket"] \in {"read", "sent"} => conns # << >>
      /\ \A k \in 1 .. Len(conns) : conns[k] \in Connection
  <2>1. /\ conns \in Seq(Connection) /\ Len(conns) <= CONNS
        /\ client \in [Client -> [at : {"away", "connected", "written", "gone"}, next : ClientOp]]
        /\ pc["socket"] \in {"read", "sent"} => conns # << >>
    BY DEF TypeOK, Shape
  <2>2. Len(conns) \in Nat /\ \A k \in 1 .. Len(conns) : conns[k] \in Connection
    BY <2>1, ElementOfSeq
  <2>3. QED
    BY <2>1, <2>2, CtlAssumption
<1>1. ASSUME NEW c \in Client, Connect(c) PROVE Goal
  <2> DEFINE new == [client |-> c, op |-> client[c].next, data |-> FALSE, open |-> TRUE]
  <2>1. new \in Connection
    BY <1>0 DEF Connection
  <2>2. conns' = Append(conns, new) /\ Len(conns) < CONNS /\ pc' = pc
    BY <1>1 DEF Connect
  <2> HIDE DEF new
  <2>3. conns' \in Seq(Connection) /\ Len(conns') = Len(conns) + 1
    BY <1>0, <2>1, <2>2
  <2>4. client' \in [Client -> [at : {"away", "connected", "written", "gone"}, next : ClientOp]]
    <3>1. client' = [client EXCEPT ![c] = [client[c] EXCEPT !.at = "connected"]]
      BY <1>1 DEF Connect
    <3>2. [client[c] EXCEPT !.at = "connected"] \in
              [at : {"away", "connected", "written", "gone"}, next : ClientOp]
      BY <1>0, Zenon
    <3>3. QED
      BY <1>0, <3>1, <3>2
  <2>5. QED
    BY <1>0, <2>2, <2>3, <2>4 DEF Goal
<1>2. ASSUME NEW c \in Client, WriteRequest(c) PROVE Goal
  <2>1. PICK k \in 1 .. Len(conns) : conns' = [conns EXCEPT ![k] = [conns[k] EXCEPT !.data = TRUE]]
    BY <1>2 DEF WriteRequest
  <2>2. [conns[k] EXCEPT !.data = TRUE] \in Connection
    BY <1>0, SetField
  <2>3. conns' \in Seq(Connection) /\ Len(conns') = Len(conns)
    BY <1>0, <2>1, <2>2, ExceptSeq
  <2>4. client' \in [Client -> [at : {"away", "connected", "written", "gone"}, next : ClientOp]]
    <3>1. client' = [client EXCEPT ![c] = [client[c] EXCEPT !.at = "written"]]
      BY <1>2 DEF WriteRequest
    <3>2. [client[c] EXCEPT !.at = "written"] \in
              [at : {"away", "connected", "written", "gone"}, next : ClientOp]
      BY <1>0, Zenon
    <3>3. QED
      BY <1>0, <3>1, <3>2
  <2>5. conns # << >> /\ pc' = pc
    BY <1>0, <1>2, <2>1 DEF WriteRequest
  <2>6. QED
    BY <1>0, <2>3, <2>4, <2>5 DEF Goal
<1>3. ASSUME NEW c \in Client, Close(c) PROVE Goal
  <2>1. PICK k \in 1 .. Len(conns) : conns' = [conns EXCEPT ![k] = [conns[k] EXCEPT !.open = FALSE]]
    BY <1>3 DEF Close
  <2>2. [conns[k] EXCEPT !.open = FALSE] \in Connection
    BY <1>0, SetField
  <2>3. conns' \in Seq(Connection) /\ Len(conns') = Len(conns)
    BY <1>0, <2>1, <2>2, ExceptSeq
  <2>4. client' \in [Client -> [at : {"away", "connected", "written", "gone"}, next : ClientOp]]
    <3> DEFINE after == [at |-> "away",
                         next |-> IF client[c].at = "connected" THEN client[c].next
                                  ELSE IF client[c].next = "BIND_OP" THEN "UNBIND_OP"
                                       ELSE "BIND_OP"]
    <3>1. client' = [client EXCEPT ![c] = after]
      BY <1>3 DEF Close
    <3>2. after \in [at : {"away", "connected", "written", "gone"}, next : ClientOp]
      BY <1>0 DEF ClientOp
    <3> HIDE DEF after
    <3>3. QED
      BY <1>0, <3>1, <3>2
  <2>5. conns # << >> /\ pc' = pc
    BY <1>0, <1>3, <2>1 DEF Close
  <2>6. QED
    BY <1>0, <2>3, <2>4, <2>5 DEF Goal
<1>4. CASE ReadRequest
  <2>1. /\ pc["socket"] = "read" /\ client' = client
        /\ conns' = [conns EXCEPT ![1] = [conns[1] EXCEPT !.data = FALSE]]
        /\ pc' = [pc EXCEPT !["socket"] = "sent"]
    BY <1>4 DEF ReadRequest, Goto
  <2>2. 1 \in 1 .. Len(conns)
    BY <1>0, <2>1
  <2>3. [conns[1] EXCEPT !.data = FALSE] \in Connection
    BY <1>0, <2>2, SetField
  <2>4. conns' \in Seq(Connection) /\ Len(conns') = Len(conns)
    BY <1>0, <2>1, <2>2, <2>3, ExceptSeq
  <2>5. pc'["socket"] = "sent"
    BY <2>1 DEF Shape, Thread
  <2>6. QED
    BY <1>0, <2>1, <2>4, <2>5 DEF Goal
<1>5. CASE ReadEnd
  <2>1. conns' = Tail(conns) /\ pc["socket"] = "read" /\ client' = client
    BY <1>5 DEF ReadEnd, sock
  <2>2. conns' \in Seq(Connection) /\ Len(conns') = Len(conns) - 1
    BY <1>0, <2>1
  <2>3. pc'["socket"] = "select"
    BY <1>5 DEF ReadEnd, Goto, Shape, Thread
  <2>4. QED
    BY <1>0, <2>1, <2>2, <2>3 DEF Goal
<1>6. CASE SocketStart \/ SocketExit \/ Accept \/ SocketDone
  <2>1. conns' = conns /\ client' = client
    BY <1>6 DEF SocketStart, SocketExit, Accept, SocketDone, sock
  <2>2. pc'["socket"] \in {"read", "sent"} => conns # << >>
    <3>1. CASE SocketStart \/ SocketExit
      BY <3>1 DEF SocketStart, SocketExit, Goto, Shape, Thread
    <3>2. CASE Accept
      BY <3>2 DEF Accept
    <3>3. CASE SocketDone
      <4>1. pc["socket"] = "sent"
        BY <3>3 DEF SocketDone
      <4>2. QED
        BY <1>0, <4>1
    <3>4. QED
      BY <1>6, <3>1, <3>2, <3>3
  <2>3. QED
    BY <1>0, <2>1, <2>2 DEF Goal
<1>7. ASSUME NEW t \in Thread, Request(t) PROVE Goal
  BY <1>0, <1>7, RequestFrame DEF Goal, sock
<1>8. CASE Stdin \/ StdinInput
  <2>1. conns' = conns /\ client' = client
    BY <1>8 DEF Stdin, StdinInput, StdinBind, StdinFind, StdinLock, LockPlacement, StdinSend,
                StdinDone, StdinToggle, StdinToggleBoth, StdinExit, sock
  <2>2. QED
    BY <1>0, <1>8, <2>1, StdinFrame DEF Goal
<1>9. CASE Memcheck
  BY <1>0, <1>9, MemcheckFrame DEF Goal, sock
<1>10. CASE UNCHANGED vars
  BY <1>0, <1>10 DEF Goal, vars, sock
<1>11. ASSUME NEW c \in Client, Exit(c) PROVE Goal
  <2>1. pc' = pc /\ conns' = conns
    BY <1>11 DEF Exit
  <2>2. client' \in [Client -> [at : {"away", "connected", "written", "gone"}, next : ClientOp]]
    <3>1. client' = [client EXCEPT ![c] = [client[c] EXCEPT !.at = "gone"]]
      BY <1>11 DEF Exit
    <3>2. [client[c] EXCEPT !.at = "gone"] \in
              [at : {"away", "connected", "written", "gone"}, next : ClientOp]
      BY <1>0, Zenon
    <3>3. QED
      BY <1>0, <3>1, <3>2
  <2>3. QED
    BY <1>0, <2>1, <2>2 DEF Goal
<1>12. QED
  BY <1>1, <1>2, <1>3, <1>4, <1>5, <1>6, <1>7, <1>8, <1>9, <1>10, <1>11 DEF Next, Socket, Ended

(* The places of the threads.                                              *)
LEMMA ShapeStep ==
    ASSUME TypeOK, Shape, [Next]_vars
    PROVE  Shape'
<1> DEFINE Places == /\ pc' \in [Thread -> StdinPlace \cup SocketPlace \cup MemcheckPlace]
                     /\ pc'["stdin"] \in StdinPlace /\ pc'["socket"] \in SocketPlace
                     /\ pc'["memcheck"] \in MemcheckPlace
                     /\ DOMAIN req' = Thread
<1> SUFFICES Places
  BY SocketTypes DEF Shape
<1> USE DEF TypeOK, Shape, Thread, StdinPlace, SocketPlace, MemcheckPlace, Goto, Begin, Forget,
            acts, locks, sock, usage, calls, kernel, list, round
<1>1. ASSUME NEW t \in Thread, Request(t) PROVE Places
  BY <1>1, RequestFrame
<1>2. CASE Stdin \/ StdinInput
  <2>1. CASE StdinBind \/ StdinFind
    BY <2>1 DEF StdinBind, StdinFind
  <2>2. CASE StdinLock \/ StdinSend
    BY <2>2 DEF StdinLock, LockPlacement, StdinSend
  <2>3. CASE StdinDone \/ StdinExit
    BY <2>3 DEF StdinDone, StdinExit
  <2>4. CASE StdinToggle
    <3>1. /\ \E l \in {"both", "prompt"} : pc' = [pc EXCEPT !["stdin"] = l]
          /\ req' = req
      BY <2>4 DEF StdinToggle
    <3>2. QED
      BY <3>1
  <2>5. CASE StdinToggleBoth
    BY <2>5 DEF StdinToggleBoth
  <2>6. QED
    BY <1>2, <2>1, <2>2, <2>3, <2>4, <2>5 DEF Stdin, StdinInput
<1>3. CASE Socket
  <2>1. CASE SocketStart
    BY <2>1 DEF SocketStart
  <2>2. CASE SocketExit \/ Accept \/ ReadEnd
    BY <2>2 DEF SocketExit, Accept, ReadEnd
  <2>3. CASE ReadRequest
    BY <2>3 DEF ReadRequest
  <2>4. CASE SocketDone
    BY <2>4 DEF SocketDone
  <2>5. QED
    BY <1>3, <2>1, <2>2, <2>3, <2>4 DEF Socket
<1>4. CASE Memcheck
  <2>1. CASE MemTop
    BY <2>1 DEF MemTop
  <2>2. CASE MemSwitch
    BY <2>2 DEF MemSwitch
  <2>3. CASE MemSwitchLock \/ MemThreshLock
    BY <2>3 DEF MemSwitchLock, MemThreshLock, LockPlacement
  <2>4. CASE MemClear \/ MemMove
    BY <2>4 DEF MemClear, MemMove
  <2>5. CASE MemFind
    <3>1. /\ pc' = [pc EXCEPT !["memcheck"] = "found"]
          /\ \E r : req' = [req EXCEPT !["memcheck"] = r]
      BY <2>5 DEF MemFind
    <3>2. QED
      BY <3>1
  <2>6. CASE MemFound \/ MemMoved
    BY <2>6 DEF MemFound, MemMoved
  <2>7. CASE MemThresh
    BY <2>7 DEF MemThresh
  <2>8. CASE MemSleep
    BY <2>8 DEF MemSleep
  <2>9. QED
    BY <1>4, <2>1, <2>2, <2>3, <2>4, <2>5, <2>6, <2>7, <2>8 DEF Memcheck
<1>5. CASE Clients
  BY <1>5, ClientFrame
<1>6. CASE UNCHANGED vars
  BY <1>6 DEF vars
<1>7. QED
  BY <1>1, <1>2, <1>3, <1>4, <1>5, <1>6 DEF Next, Ended, Clients

(* What a request makes of the module's list.  A client that is not overruled
   afterwards is as it was, if it is not its own request; if it is, it is in
   after a BIND and out after an UNBIND.                                   *)
LEMMA CarryTypes ==
    ASSUME NEW t, NEW r, Carry(t, r), bound \subseteq Client, overruled \subseteq Client
    PROVE  bound' \subseteq Client /\ overruled' \subseteq Client
<1>1. PICK reaped \in SUBSET {c \in bound : client[c].at = "gone"}, asked \in SUBSET Client :
         /\ bound' \in {bound \ reaped, (bound \ reaped) \cup asked, (bound \ reaped) \ asked}
         /\ overruled' \in {(overruled \cup reaped) \ asked, overruled \cup reaped \cup asked}
  BY DEF Carry
<1>2. QED
  BY <1>1

LEMMA CarryOut ==
    ASSUME NEW t, NEW r, Carry(t, r), NEW c \in Client, c \notin overruled'
    PROVE  /\ t # "socket" \/ r.arg # c => c \notin overruled /\ (c \in bound' <=> c \in bound)
           /\ r.arg = c /\ r.op = "BIND_OP" => c \in bound'
           /\ r.arg = c /\ r.op = "UNBIND_OP" => c \notin bound'
<1> DEFINE asked == IF r.op = "FIND_OP" THEN {} ELSE Client \cap {r.arg}
<1>1. PICK reaped \in SUBSET {d \in bound : client[d].at = "gone"} :
         /\ bound' \in CASE r.op = "BIND_OP" -> {bound \ reaped, (bound \ reaped) \cup asked}
                          [] r.op = "UNBIND_OP" -> {(bound \ reaped) \ asked}
                          [] OTHER -> {bound \ reaped}
         /\ overruled' = IF t = "socket" /\ (r.op = "BIND_OP" => asked \subseteq bound')
                            THEN (overruled \cup reaped) \ asked
                            ELSE overruled \cup reaped \cup asked
  BY DEF Carry
<1>2. /\ r.op = "BIND_OP" => bound' \in {bound \ reaped, (bound \ reaped) \cup asked}
      /\ r.op = "UNBIND_OP" => bound' = (bound \ reaped) \ asked
      /\ bound' \in {bound \ reaped, (bound \ reaped) \cup asked, (bound \ reaped) \ asked}
  BY <1>1
<1>3. r.arg = c /\ r.op # "FIND_OP" => c \in asked
  OBVIOUS
<1>4. r.arg # c \/ r.op = "FIND_OP" => c \notin asked
  OBVIOUS
<1> HIDE DEF asked
<1>5. ASSUME t # "socket" \/ r.arg # c
      PROVE  c \notin asked /\ c \notin reaped /\ c \notin overruled
  <2>1. CASE r.arg # c \/ r.op = "FIND_OP"
    BY <1>1, <1>4, <2>1
  <2>2. CASE r.arg = c /\ r.op # "FIND_OP"
    BY <1>1, <1>3, <1>5, <2>2
  <2>3. QED
    BY <2>1, <2>2
<1>6. ASSUME r.arg = c, r.op = "BIND_OP" PROVE c \in bound'
  BY <1>1, <1>3, <1>6
<1>7. ASSUME r.arg = c, r.op = "UNBIND_OP" PROVE c \notin bound'
  BY <1>2, <1>3, <1>7
<1>8. QED
  BY <1>2, <1>5, <1>6, <1>7

(* The types of the rest.                                                  *)
LEMMA TypeStep ==
    ASSUME TypeOK, Shape, CallersWait, CommExclusive, ReplyIsOwn, [Next]_vars
    PROVE  TypeOK'
<1>1. Len(queue') <= 1 /\ Len(conns') <= CONNS
  <2>1. queue' = << >> \/ \E x : queue' = <<x>>
    BY CommStep DEF CommExclusive, ReplyIsOwn
  <2>2. QED
    <3>1. Len(queue') <= 1
      <4>1. CASE queue' = << >>
        BY <4>1
      <4>2. ASSUME NEW x, queue' = <<x>> PROVE Len(queue') <= 1
        BY <4>2
      <4>3. QED
        BY <2>1, <4>1, <4>2
    <3>2. QED
      BY <3>1, SocketTypes
<1> DEFINE Rest ==
      /\ exit_sig' \in BOOLEAN /\ switch_act' \in BOOLEAN /\ thresh_act' \in BOOLEAN
      /\ comm_lock' \in Thread \cup {None} /\ placement_lock' \in Thread \cup {None}
      /\ call' \in [Thread -> {None, "lock", "sendmsg", "recvmsg", "migrate"}]
      /\ result' \in [Thread -> BOOLEAN]
      /\ dram_usage' \in Level \cup {"unset"} /\ nvram_usage' \in Level \cup {"unset"}
      /\ bound' \subseteq Client /\ overruled' \subseteq Client
<1> SUFFICES Rest
  BY <1>1 DEF TypeOK
<1> USE DEF TypeOK, Goto, Begin, Forget, acts, locks, sock, usage, calls, kernel, list, round
<1>2. ASSUME NEW t \in Thread, Request(t) PROVE Rest
  <2>1. CASE LockComm(t)
    BY <2>1 DEF LockComm
  <2>2. CASE Sendmsg(t)
    <3>1. bound' \subseteq Client /\ overruled' \subseteq Client
      BY <2>2, CarryTypes DEF Sendmsg, Reply
    <3>2. QED
      BY <2>2, <3>1 DEF Sendmsg
  <2>3. CASE Recvmsg(t)
    BY <2>3 DEF Recvmsg
  <2>4. CASE Migrate(t)
    BY <2>4 DEF Migrate
  <2>5. QED
    BY <1>2, <2>1, <2>2, <2>3, <2>4 DEF Request
<1>3. CASE Stdin \/ StdinInput
  <2>1. CASE StdinBind
    BY <2>1 DEF StdinBind, Thread
  <2>2. CASE StdinLock
    BY <2>2 DEF StdinLock, LockPlacement, Thread
  <2>3. CASE StdinSend
    BY <2>3 DEF StdinSend, Thread
  <2>4. CASE StdinDone
    BY <2>4 DEF StdinDone
  <2>5. CASE StdinFind \/ StdinExit
    BY <2>5 DEF StdinFind, StdinExit
  <2>6. CASE StdinToggle \/ StdinToggleBoth
    BY <2>6 DEF StdinToggle, StdinToggleBoth
  <2>7. QED
    BY <1>3, <2>1, <2>2, <2>3, <2>4, <2>5, <2>6 DEF Stdin, StdinInput
<1>4. CASE Socket
  <2>1. CASE SocketStart \/ SocketExit \/ Accept \/ ReadEnd
    BY <2>1 DEF SocketStart, SocketExit, Accept, ReadEnd
  <2>2. CASE ReadRequest
    BY <2>2 DEF ReadRequest
  <2>3. CASE SocketDone
    BY <2>3 DEF SocketDone
  <2>4. QED
    BY <1>4, <2>1, <2>2, <2>3 DEF Socket
<1>5. CASE Memcheck
  <2>0. \A u \in Usage : u[1] \in Level /\ u[2] \in Level
    BY CtlAssumption
  <2>1. CASE MemTop
    BY <2>0, <2>1 DEF MemTop, ReadUsage
  <2>2. CASE MemSwitch \/ MemSleep
    BY <2>2 DEF MemSwitch, MemSleep
  <2>3. CASE MemSwitchLock \/ MemThreshLock
    BY <2>3 DEF MemSwitchLock, MemThreshLock, LockPlacement, Thread
  <2>4. CASE MemClear \/ MemMove
    BY <2>4 DEF MemClear, MemMove
  <2>5. CASE MemFind
    <3>1. /\ call' = [call EXCEPT !["memcheck"] = "lock"]
          /\ result' = [result EXCEPT !["memcheck"] = FALSE]
          /\ UNCHANGED <<exit_sig, acts, locks, list, usage>>
      BY <2>5 DEF MemFind
    <3>2. QED
      BY <3>1
  <2>6. CASE MemFound
    BY <2>0, <2>6 DEF MemFound, ReadUsage
  <2>7. CASE MemThresh
    BY <2>7 DEF MemThresh
  <2>8. CASE MemMoved
    BY <2>8 DEF MemMoved
  <2>9. QED
    BY <1>5, <2>1, <2>2, <2>3, <2>4, <2>5, <2>6, <2>7, <2>8 DEF Memcheck
<1>6. CASE Clients
  BY <1>6, ClientFrame
<1>7. CASE UNCHANGED vars
  BY <1>7 DEF vars
<1>8. QED
  BY <1>2, <1>3, <1>4, <1>5, <1>6, <1>7 DEF Next, Ended, Clients

-----------------------------------------------------------------------------
(* Memcheck's CLEAR stays the last walk until its FIND.                    *)
LEMMA WindowStep ==
    ASSUME TypeOK, Shape, CallersWait, CommExclusive, PlacementExclusive, WindowOpen, [Next]_vars
    PROVE  WindowOpen'
<1> USE DEF WindowOpen, Cleared, TypeOK, Shape, Thread, None, Goto, Begin, Forget, Find,
            acts, locks, sock, usage, calls, kernel, list, round
<1>1. ASSUME NEW t \in Thread, LockComm(t) PROVE WindowOpen'
  BY <1>1 DEF LockComm
<1>2. ASSUME NEW t \in Thread, Sendmsg(t) PROVE WindowOpen'
  <2>1. /\ call[t] = "sendmsg" /\ call' = [call EXCEPT ![t] = "recvmsg"]
        /\ pc' = pc /\ req' = req
        /\ last_find' = IF req[t].op = "FIND_OP" THEN [to |-> t, mode |-> req[t].arg] ELSE last_find
    BY <1>2 DEF Sendmsg, Reply
  <2>2. CASE t = "memcheck"
    BY <2>1, <2>2
  <2>3. CASE t # "memcheck"
    <3>1. call'["memcheck"] = call["memcheck"]
      BY <2>1, <2>3
    <3>2. pc["memcheck"] \in {"window", "found"} => last_find' = last_find
      BY <2>1, <2>3, FindersHoldPlacement DEF PlacementExclusive
    <3>3. QED
      BY <2>1, <3>1, <3>2
  <2>4. QED
    BY <2>2, <2>3
<1>3. ASSUME NEW t \in Thread, Recvmsg(t) \/ Migrate(t) PROVE WindowOpen'
  <2>1. /\ call[t] \in {"recvmsg", "migrate"}
        /\ call' \in {[call EXCEPT ![t] = None], [call EXCEPT ![t] = "migrate"]}
        /\ pc' = pc /\ req' = req /\ last_find' = last_find
    BY <1>3 DEF Recvmsg, Migrate
  <2>2. QED
    BY <2>1
<1>4. CASE Stdin \/ StdinInput
  BY <1>4, StdinFrame DEF MemcheckState
<1>5. CASE Socket
  BY <1>5, SocketFrame DEF MemcheckState
<1>6. CASE Memcheck
  <2>0. last_find' = last_find
    BY <1>6, MemcheckFrame
  <2>1. CASE MemTop \/ MemSwitch \/ MemSwitchLock
    BY <2>1 DEF MemTop, MemSwitch, MemSwitchLock, LockPlacement
  <2>2. CASE MemClear
    BY <2>2 DEF MemClear
  <2>3. CASE MemFind
    <3>1. /\ pc["memcheck"] = "window" /\ call["memcheck"] = None
          /\ pc' = [pc EXCEPT !["memcheck"] = "found"]
      BY <2>3 DEF MemFind, Returned
    <3>2. QED
      BY <2>0, <3>1
  <2>4. CASE MemFound \/ MemMoved
    BY <2>4 DEF MemFound, MemMoved
  <2>5. CASE MemThresh
    <3>1. \A d, n : ThreshMode(d, n) \in {"DRAM_MODE", "NVRAM_MODE", None}
      BY Zenon DEF ThreshMode
    <3>2. \/ pc'["memcheck"] = "over" /\ req'["memcheck"] \in {Find("DRAM_MODE"), Find("NVRAM_MODE")}
          \/ pc'["memcheck"] = "sleep"
      BY <2>5, <3>1 DEF MemThresh
    <3>3. QED
      BY <3>2
  <2>6. CASE MemThreshLock
    BY <2>6 DEF MemThreshLock, LockPlacement
  <2>7. CASE MemMove
    BY <2>7 DEF MemMove
  <2>8. CASE MemSleep
    BY <2>8 DEF MemSleep
  <2>9. QED
    BY <1>6, <2>1, <2>2, <2>3, <2>4, <2>5, <2>6, <2>7, <2>8 DEF Memcheck
<1>7. CASE Clients
  BY <1>7, ClientFrame
<1>8. CASE UNCHANGED vars
  BY <1>8 DEF vars
<1>9. QED
  BY <1>1, <1>2, <1>3, <1>4, <1>5, <1>6, <1>7, <1>8 DEF Next, Ended, Clients, Request

(* Memcheck knows the usages it decides on, or a toggle came in.           *)
LEMMA UsageStep ==
    ASSUME TypeOK, Shape, UsageKnown, [Next]_vars
    PROVE  UsageKnown'
<1> USE DEF UsageKnown, TypeOK, Shape, Thread, Goto, acts, locks, sock, usage, calls, kernel, list, round
<1>1. ASSUME NEW t \in Thread, Request(t) PROVE UsageKnown'
  BY <1>1, RequestFrame
<1>2. CASE Stdin \/ StdinInput
  <2>1. \/ toggled' = TRUE
        \/ UNCHANGED <<toggled, acts>>
    BY <1>2 DEF Stdin, StdinInput, StdinBind, StdinFind, StdinLock, LockPlacement, StdinSend,
                StdinDone, StdinToggle, StdinToggleBoth, StdinExit
  <2>2. UNCHANGED <<pc["memcheck"], fresh>>
    BY <1>2, StdinFrame DEF MemcheckState
  <2>3. QED
    BY <2>1, <2>2
<1>3. CASE Socket
  BY <1>3, SocketFrame DEF MemcheckState
<1>4. CASE Memcheck
  <2>0. UNCHANGED acts
    BY <1>4, MemcheckFrame
  <2>1. CASE MemTop
    BY <2>1 DEF MemTop, ReadUsage
  <2>2. CASE MemSwitch
    BY <2>2 DEF MemSwitch
  <2>3. CASE MemSwitchLock \/ MemThreshLock
    BY <2>3 DEF MemSwitchLock, MemThreshLock, LockPlacement
  <2>4. CASE MemClear \/ MemMove
    BY <2>4 DEF MemClear, MemMove
  <2>5. CASE MemFind
    <3>1. /\ pc["memcheck"] = "window" /\ UNCHANGED round
          /\ pc' = [pc EXCEPT !["memcheck"] = "found"]
      BY <2>5 DEF MemFind
    <3>2. QED
      BY <3>1
  <2>6. CASE MemFound
    <3>1. /\ pc["memcheck"] = "found" /\ pc' = [pc EXCEPT !["memcheck"] = "thresh"]
          /\ toggled' = toggled /\ fresh' \in {fresh, TRUE}
      BY <2>6 DEF MemFound, ReadUsage
    <3>2. QED
      BY <3>1
  <2>7. CASE MemThresh
    <3>1. /\ pc["memcheck"] = "thresh" /\ UNCHANGED <<round, acts>>
          /\ (pc'["memcheck"] = "over" /\ thresh_act) \/ pc'["memcheck"] = "sleep"
      BY <2>7 DEF MemThresh
    <3>2. QED
      BY <3>1
  <2>8. CASE MemMoved \/ MemSleep
    BY <2>8 DEF MemMoved, MemSleep
  <2>9. QED
    BY <1>4, <2>1, <2>2, <2>3, <2>4, <2>5, <2>6, <2>7, <2>8 DEF Memcheck
<1>5. CASE Clients
  BY <1>5, ClientFrame
<1>6. CASE UNCHANGED vars
  BY <1>6 DEF vars
<1>7. QED
  BY <1>1, <1>2, <1>3, <1>4, <1>5, <1>6 DEF Next, Ended, Clients

-----------------------------------------------------------------------------
(* A request a client has written and process_socket has not read yet; the
   one process_socket has read and the module not yet seen.                *)
Waiting(c, k) == conns[k].client = c /\ conns[k].data
InFlight(c) == call["socket"] \in {"lock", "sendmsg"} /\ req["socket"].arg = c

(* What c asked for last.                                                  *)
Flip(op) == IF op = "BIND_OP" THEN "UNBIND_OP" ELSE "BIND_OP"
LastAsked(c) == IF client[c].at = "written" THEN client[c].next ELSE Flip(client[c].next)

Connected == {"connected", "written"}

(* A client that is connected has one connection open, and no younger one. *)
OneOpen(c) ==
    /\ client[c].at \in Connected => \E k \in 1 .. Len(conns) : Mine(c, k)
    /\ \A k \in 1 .. Len(conns) :
          Mine(c, k) => /\ client[c].at \in Connected /\ conns[k].op = client[c].next
                        /\ \A j \in k + 1 .. Len(conns) : conns[j].client # c

(* What c asked for last is done, or it is overruled.                      *)
CarriedOut(c) == c \notin overruled => (c \in bound <=> LastAsked(c) = "BIND_OP")

(* What c asked for last is on its youngest connection with a request on it,
   or being served, or done.                                               *)
InOrder(c) ==
    /\ \A k \in 1 .. Len(conns) :
          Waiting(c, k) /\ (\A j \in k + 1 .. Len(conns) : ~Waiting(c, j)) =>
              conns[k].op = LastAsked(c)
    /\ (\A k \in 1 .. Len(conns) : ~Waiting(c, k)) =>
          IF InFlight(c) THEN req["socket"].op = LastAsked(c)
                         ELSE CarriedOut(c)

(* The request being served came from the oldest connection.               *)
FromOldest == pc["socket"] = "sent" => req["socket"].arg = conns[1].client

CInv == FromOldest /\ \A c \in Client : OneOpen(c) /\ InOrder(c)

(* A step that leaves a client's connections and its request alone keeps
   both in order.                                                          *)
LEMMA Untouched ==
    ASSUME NEW c \in Client, OneOpen(c), InOrder(c), UNCHANGED <<conns, client>>,
           c \notin overruled' => c \notin overruled /\ (c \in bound' <=> c \in bound),
           InFlight(c)' <=> InFlight(c),
           InFlight(c) => req'["socket"] = req["socket"]
    PROVE  OneOpen(c)' /\ InOrder(c)'
<1>1. OneOpen(c)'
  BY DEF OneOpen, Mine
<1>2. LastAsked(c)' = LastAsked(c) /\ \A k \in 1 .. Len(conns) : Waiting(c, k)' <=> Waiting(c, k)
  BY DEF LastAsked, Waiting
<1>3. CarriedOut(c) => CarriedOut(c)'
  BY <1>2 DEF CarriedOut
<1>4. InOrder(c)'
  BY <1>2, <1>3 DEF InOrder, Waiting
<1>5. QED
  BY <1>1, <1>4

(* What setting a field of a connection leaves alone.                      *)
LEMMA OtherFields ==
    ASSUME NEW r \in Connection, NEW b \in BOOLEAN
    PROVE  /\ [r EXCEPT !.data = b].client = r.client /\ [r EXCEPT !.data = b].op = r.op
           /\ [r EXCEPT !.data = b].open = r.open /\ [r EXCEPT !.data = b].data = b
           /\ [r EXCEPT !.open = b].client = r.client /\ [r EXCEPT !.open = b].op = r.op
           /\ [r EXCEPT !.open = b].data = r.data /\ [r EXCEPT !.open = b].open = b
  BY DEF Connection

LEMMA OldestStep ==
    ASSUME TypeOK, Shape, CallersWait, FromOldest, [Next]_vars
    PROVE  FromOldest'
<1> USE DEF FromOldest, Thread, TypeOK, Shape, CallersWait
<1>1. ASSUME NEW t \in Thread, Request(t) PROVE FromOldest'
  BY <1>1, RequestFrame DEF sock
<1>2. CASE Stdin \/ StdinInput
  BY <1>2, StdinFrame DEF MemcheckState
<1>3. CASE Socket
  <2>1. pc'["socket"] = "sent" => req'["socket"].arg = conns'[1].client
    <3>1. CASE ReadRequest
      <4>1. /\ conns \in Seq(Connection) /\ conns # << >>
            /\ conns' = [conns EXCEPT ![1] = [conns[1] EXCEPT !.data = FALSE]]
            /\ req' = [req EXCEPT !["socket"] = [op |-> conns[1].op, arg |-> conns[1].client]]
        BY <3>1 DEF ReadRequest, Begin
      <4>2. 1 \in DOMAIN conns /\ conns[1] \in Connection
        BY <4>1, FirstElement
      <4>3. conns'[1].client = conns[1].client
        BY <4>1, <4>2 DEF Connection
      <4>4. QED
        BY <4>1, <4>3
    <3>2. CASE SocketStart \/ SocketExit \/ Accept \/ ReadEnd \/ SocketDone
      BY <3>2 DEF SocketStart, SocketExit, Accept, ReadEnd, SocketDone, Goto
    <3>3. QED
      BY <1>3, <3>1, <3>2 DEF Socket
  <2>2. QED
    BY <2>1
<1>4. CASE Memcheck
  BY <1>4, MemcheckFrame DEF sock
<1>5. CASE Clients
  <2>1. pc' = pc /\ req' = req
    BY <1>5, ClientFrame DEF calls
  <2>2. pc["socket"] = "sent" => conns'[1].client = conns[1].client
    <3>1. SUFFICES ASSUME pc["socket"] = "sent" PROVE conns'[1].client = conns[1].client
      OBVIOUS
    <3>2. conns \in Seq(Connection) /\ Len(conns) \in Nat /\ 1 \in 1 .. Len(conns)
      BY <3>1, FirstElement
    <3>3. ASSUME NEW c \in Client, Connect(c) PROVE conns'[1].client = conns[1].client
      BY <3>2, <3>3 DEF Connect
    <3>4. ASSUME NEW c \in Client, WriteRequest(c) \/ Close(c) PROVE conns'[1].client = conns[1].client
      <4>1. PICK k \in 1 .. Len(conns) : \/ conns' = [conns EXCEPT ![k] = [conns[k] EXCEPT !.data = TRUE]]
                                         \/ conns' = [conns EXCEPT ![k] = [conns[k] EXCEPT !.open = FALSE]]
        BY <3>4 DEF WriteRequest, Close
      <4>2. conns[1] \in Connection /\ 1 \in DOMAIN conns
        BY <3>2, ElementOfSeq
      <4>3. /\ [conns[1] EXCEPT !.data = TRUE].client = conns[1].client
            /\ [conns[1] EXCEPT !.open = FALSE].client = conns[1].client
        BY <4>2, OtherFields
      <4>4. \/ conns'[1] = conns[1]
            \/ conns'[1] = [conns[1] EXCEPT !.data = TRUE]
            \/ conns'[1] = [conns[1] EXCEPT !.open = FALSE]
        BY <4>1, <4>2
      <4>5. QED
        BY <4>3, <4>4
    <3>5. ASSUME NEW c \in Client, Exit(c) PROVE conns'[1].client = conns[1].client
      BY <3>5 DEF Exit
    <3>6. QED
      BY <1>5, <3>3, <3>4, <3>5 DEF Clients
  <2>3. QED
    BY <2>1, <2>2
<1>6. CASE UNCHANGED vars
  BY <1>6 DEF vars, calls, sock
<1>7. QED
  BY <1>1, <1>2, <1>3, <1>4, <1>5, <1>6 DEF Next, Ended, Clients

(* Each request of a client is carried out in its turn.                    *)
LEMMA OrderStep ==
    ASSUME TypeOK, Shape, CallersWait, FromOldest, [Next]_vars,
           NEW c \in Client, OneOpen(c), InOrder(c)
    PROVE  OneOpen(c)' /\ InOrder(c)'
<1> USE DEF Connected
<1> DEFINE Goal == OneOpen(c)' /\ InOrder(c)'
<1> SUFFICES Goal
  OBVIOUS
<1>0. /\ conns \in Seq(Connection) /\ Len(conns) \in Nat
      /\ pc["socket"] \in {"read", "sent"} => conns # << >>
      /\ client[c].at \in {"away", "connected", "written", "gone"} /\ client[c].next \in ClientOp
      /\ client \in [Client -> [at : {"away", "connected", "written", "gone"}, next : ClientOp]]
      /\ call \in [Thread -> {None, "lock", "sendmsg", "recvmsg", "migrate"}] /\ DOMAIN req = Thread
  BY DEF Shape, TypeOK
<1> HIDE DEF Goal
<1>1. ASSUME NEW t \in Thread, Request(t), t # "socket" PROVE Goal
  <2>1. UNCHANGED <<pc, req, conns, client>>
    BY <1>1, RequestFrame DEF sock
  <2>2. call'["socket"] = call["socket"]
    BY <1>0, <1>1 DEF Request, LockComm, Sendmsg, Recvmsg, Migrate, Thread
  <2>3. c \notin overruled' => c \notin overruled /\ (c \in bound' <=> c \in bound)
    <3>1. CASE Sendmsg(t)
      <4>1. Carry(t, req[t])
        BY <3>1 DEF Sendmsg, Reply
      <4>2. QED
        BY <1>1, <4>1, CarryOut
    <3>2. CASE LockComm(t) \/ Recvmsg(t) \/ Migrate(t)
      BY <3>2 DEF LockComm, Recvmsg, Migrate, kernel, list
    <3>3. QED
      BY <1>1, <3>1, <3>2 DEF Request
  <2>4. QED
    BY <2>1, <2>2, <2>3, Untouched DEF Goal, InFlight, list
<1>2. CASE LockComm("socket") \/ Recvmsg("socket") \/ Migrate("socket")
  <2>1. UNCHANGED <<req, conns, client, list>>
    BY <1>2 DEF LockComm, Recvmsg, Migrate, sock, kernel
  <2>2. call["socket"] \in {"lock", "sendmsg"} <=> call'["socket"] \in {"lock", "sendmsg"}
    BY <1>0, <1>2 DEF LockComm, Recvmsg, Migrate, None, Thread
  <2>3. QED
    BY <2>1, <2>2, Untouched DEF Goal, InFlight, list
<1>3. CASE Sendmsg("socket")
  <2> DEFINE r == req["socket"]
  <2>1. /\ UNCHANGED <<req, conns, client>> /\ call["socket"] = "sendmsg"
        /\ call'["socket"] = "recvmsg"
    BY <1>0, <1>3 DEF Sendmsg, sock, Thread
  <2>2. ~InFlight(c)' /\ (InFlight(c) <=> r.arg = c)
    BY <2>1 DEF InFlight
  <2>3. c \notin overruled' =>
           /\ r.arg # c => c \notin overruled /\ (c \in bound' <=> c \in bound)
           /\ r.arg = c /\ r.op = "BIND_OP" => c \in bound'
           /\ r.arg = c /\ r.op = "UNBIND_OP" => c \notin bound'
    <3>1. Carry("socket", r)
      BY <1>3 DEF Sendmsg, Reply
    <3> HIDE DEF r
    <3>2. QED
      BY <3>1, CarryOut
  <2> HIDE DEF r
  <2>4. CASE r.arg = c
    <3>1. LastAsked(c) \in ClientOp
      BY <1>0 DEF LastAsked, Flip, ClientOp
    <3>2. OneOpen(c)'
      BY <2>1 DEF OneOpen, Mine
    <3>3. (\A k \in 1 .. Len(conns) : ~Waiting(c, k)) => CarriedOut(c)'
      <4>1. (\A k \in 1 .. Len(conns) : ~Waiting(c, k)) => r.op = LastAsked(c)
        BY <2>2, <2>4 DEF InOrder, r
      <4>2. QED
        BY <2>1, <2>3, <2>4, <3>1, <4>1 DEF ClientOp, CarriedOut, LastAsked
    <3>4. InOrder(c)'
      BY <2>1, <2>2, <3>3 DEF InOrder, Waiting, LastAsked
    <3>5. QED
      BY <3>2, <3>4 DEF Goal
  <2>5. CASE r.arg # c
    BY <2>1, <2>2, <2>3, <2>5, Untouched DEF Goal
  <2>6. QED
    BY <2>4, <2>5
<1>4. CASE ReadRequest
  <2>1. /\ pc["socket"] = "read" /\ conns[1].data
        /\ conns' = [conns EXCEPT ![1] = [conns[1] EXCEPT !.data = FALSE]]
        /\ call' = [call EXCEPT !["socket"] = "lock"]
        /\ req' = [req EXCEPT !["socket"] = [op |-> conns[1].op, arg |-> conns[1].client]]
        /\ UNCHANGED <<client, list>>
    BY <1>4 DEF ReadRequest, Begin, kernel
  <2>2. 1 \in 1 .. Len(conns)
    BY <1>0, <2>1
  <2>3. Len(conns') = Len(conns)
        /\ \A j \in 1 .. Len(conns) :
              /\ conns'[j].client = conns[j].client /\ conns'[j].op = conns[j].op
              /\ conns'[j].open = conns[j].open
              /\ conns'[j].data = (IF j = 1 THEN FALSE ELSE conns[j].data)
    <3> DEFINE r == [conns[1] EXCEPT !.data = FALSE]
    <3>1. conns[1] \in Connection
      BY <1>0, <2>2, ElementOfSeq
    <3>2. r \in Connection
      BY <3>1, SetField
    <3>3. /\ r.client = conns[1].client /\ r.op = conns[1].op
          /\ r.open = conns[1].open /\ r.data = FALSE
      BY <3>1, OtherFields
    <3> HIDE DEF r
    <3>4. conns' = [conns EXCEPT ![1] = r]
      BY <2>1 DEF r
    <3>5. Len(conns') = Len(conns) /\ \A j \in 1 .. Len(conns) : conns'[j] = IF j = 1 THEN r ELSE conns[j]
      BY <1>0, <2>2, <3>2, <3>4, ExceptSeq
    <3>6. QED
      BY <3>3, <3>5
  <2>4. /\ ~InFlight(c) /\ (InFlight(c)' <=> conns[1].client = c)
        /\ req'["socket"].op = conns[1].op
    BY <1>0, <2>1 DEF InFlight, CallersWait, None, Thread
  <2>5. OneOpen(c)'
    BY <2>1, <2>3 DEF OneOpen, Mine
  <2>6. \A k \in 1 .. Len(conns) : Waiting(c, k)' <=> (k # 1 /\ Waiting(c, k))
    BY <2>3 DEF Waiting
  <2>7. LastAsked(c)' = LastAsked(c) /\ (CarriedOut(c)' <=> CarriedOut(c))
    BY <2>1 DEF LastAsked, CarriedOut, list
  <2>8. ASSUME NEW k \in 1 .. Len(conns), Waiting(c, k)',
               \A j \in k + 1 .. Len(conns) : ~Waiting(c, j)'
        PROVE  conns'[k].op = LastAsked(c)
    <3>1. Waiting(c, k) /\ k # 1
      BY <2>6, <2>8
    <3>2. \A j \in k + 1 .. Len(conns) : j \in 1 .. Len(conns) /\ j # 1
      BY <1>0
    <3>3. \A j \in k + 1 .. Len(conns) : ~Waiting(c, j)
      BY <2>6, <2>8, <3>2
    <3>4. QED
      BY <2>3, <3>1, <3>3 DEF InOrder
  <2>9. ASSUME \A k \in 1 .. Len(conns) : ~Waiting(c, k)'
        PROVE  IF InFlight(c)' THEN conns[1].op = LastAsked(c)
                               ELSE CarriedOut(c)
    <3>1. \A k \in 1 .. Len(conns) : k # 1 => ~Waiting(c, k)
      BY <2>6, <2>9
    <3>2. CASE conns[1].client = c
      <4>1. Waiting(c, 1) /\ \A j \in 1 + 1 .. Len(conns) : ~Waiting(c, j)
        BY <1>0, <2>1, <3>1, <3>2 DEF Waiting
      <4>2. QED
        BY <2>2, <2>4, <3>2, <4>1 DEF InOrder
    <3>3. CASE conns[1].client # c
      <4>1. \A k \in 1 .. Len(conns) : ~Waiting(c, k)
        BY <3>1, <3>3 DEF Waiting
      <4>2. QED
        BY <2>4, <3>3, <4>1 DEF InOrder
    <3>4. QED
      BY <3>2, <3>3
  <2>10. InOrder(c)'
    BY <2>1, <2>3, <2>4, <2>7, <2>8, <2>9 DEF InOrder
  <2>11. QED
    BY <2>5, <2>10 DEF Goal
<1>5. CASE ReadEnd
  <2>1. /\ pc["socket"] = "read" /\ ~conns[1].data /\ ~conns[1].open
        /\ conns' = Tail(conns) /\ UNCHANGED <<client, call, req, list>>
    BY <1>5 DEF ReadEnd, calls, kernel
  <2>2. /\ Len(conns') = Len(conns) - 1
        /\ \A k \in 1 .. Len(conns) - 1 : k + 1 \in 2 .. Len(conns) /\ conns'[k] = conns[k + 1]
    BY <1>0, <2>1
  <2>3. /\ Len(conns) - 1 = Len(conns') /\ ~Mine(c, 1) /\ ~Waiting(c, 1)
        /\ \A k \in 1 .. Len(conns') : /\ k + 1 \in 1 .. Len(conns)
                                       /\ Mine(c, k)' <=> Mine(c, k + 1)
                                       /\ Waiting(c, k)' <=> Waiting(c, k + 1)
    BY <1>0, <2>1, <2>2 DEF Mine, Waiting
  <2>4. ASSUME NEW l \in 1 .. Len(conns), l # 1 PROVE l - 1 \in 1 .. Len(conns') /\ l = (l - 1) + 1
    <3>1. Len(conns) \in Nat /\ Len(conns') = Len(conns) - 1
      BY <1>0, <2>2
    <3>2. QED
      BY <2>4, <3>1
  <2>5. OneOpen(c)'
    <3>1. client'[c].at \in Connected => \E k \in 1 .. Len(conns') : Mine(c, k)'
      <4>1. SUFFICES ASSUME client[c].at \in Connected PROVE \E k \in 1 .. Len(conns') : Mine(c, k)'
        BY <2>1
      <4>2. PICK l \in 1 .. Len(conns) : Mine(c, l)
        BY <4>1 DEF OneOpen
      <4>3. PICK k \in 1 .. Len(conns') : l = k + 1
        BY <2>3, <2>4, <4>2
      <4>4. QED
        BY <2>3, <4>2, <4>3
    <3>2. ASSUME NEW k \in 1 .. Len(conns'), Mine(c, k)'
          PROVE  /\ client'[c].at \in Connected /\ conns'[k].op = client'[c].next
                 /\ \A j \in k + 1 .. Len(conns') : conns'[j].client # c
      <4>1. Mine(c, k + 1) /\ k + 1 \in 1 .. Len(conns) /\ conns'[k] = conns[k + 1]
        BY <2>2, <2>3, <3>2
      <4>2. \A j \in (k + 1) + 1 .. Len(conns) : conns[j].client # c
        BY <4>1 DEF OneOpen
      <4>3. \A j \in k + 1 .. Len(conns') : j + 1 \in (k + 1) + 1 .. Len(conns) /\ conns'[j] = conns[j + 1]
        BY <1>0, <2>2
      <4>4. QED
        BY <2>1, <4>1, <4>2, <4>3 DEF OneOpen
    <3>3. QED
      BY <3>1, <3>2 DEF OneOpen
  <2>6. LastAsked(c)' = LastAsked(c) /\ (InFlight(c)' <=> InFlight(c))
        /\ (CarriedOut(c)' <=> CarriedOut(c))
    BY <2>1 DEF LastAsked, InFlight, CarriedOut, list
  <2>7. ASSUME NEW k \in 1 .. Len(conns'), Waiting(c, k)', \A j \in k + 1 .. Len(conns') : ~Waiting(c, j)'
        PROVE  conns'[k].op = LastAsked(c)
    <3>1. Waiting(c, k + 1) /\ k + 1 \in 1 .. Len(conns) /\ conns'[k] = conns[k + 1]
      BY <2>2, <2>3, <2>7
    <3>2. ASSUME NEW l \in (k + 1) + 1 .. Len(conns) PROVE ~Waiting(c, l)
      <4>1. l \in 1 .. Len(conns) /\ l # 1
        BY <1>0
      <4>2. PICK j \in 1 .. Len(conns') : l = j + 1
        BY <2>4, <4>1
      <4>3. j \in k + 1 .. Len(conns')
        BY <1>0, <2>2, <4>2
      <4>4. QED
        BY <2>3, <2>7, <4>2, <4>3
    <3>3. QED
      BY <3>1, <3>2 DEF InOrder
  <2>8. ASSUME \A k \in 1 .. Len(conns') : ~Waiting(c, k)'
        PROVE  \A l \in 1 .. Len(conns) : ~Waiting(c, l)
    <3>1. ASSUME NEW l \in 1 .. Len(conns), l # 1 PROVE ~Waiting(c, l)
      <4>1. PICK j \in 1 .. Len(conns') : l = j + 1
        BY <2>4, <3>1
      <4>2. QED
        BY <2>3, <2>8, <4>1
    <3>2. QED
      BY <2>3, <3>1
  <2>9. InOrder(c)'
    BY <2>1, <2>6, <2>7, <2>8 DEF InOrder
  <2>10. QED
    BY <2>5, <2>9 DEF Goal
<1>6. ASSUME NEW d \in Client, Connect(d) PROVE Goal
  <2> DEFINE new == [client |-> d, op |-> client[d].next, data |-> FALSE, open |-> TRUE]
  <2>1. /\ client[d].at = "away" /\ conns' = Append(conns, new)
        /\ client' = [client EXCEPT ![d] = [client[d] EXCEPT !.at = "connected"]]
        /\ UNCHANGED <<call, req, list>>
    BY <1>6 DEF Connect, calls, kernel
  <2>2. new.client = d /\ new.op = client[d].next /\ ~new.data /\ new.open
    OBVIOUS
  <2> HIDE DEF new
  <2>3. PICK n \in Nat : n = Len(conns)
    BY <1>0
  <2>4. /\ n \in Nat /\ Len(conns') = n + 1 /\ conns'[n + 1] = new
        /\ \A k \in 1 .. n : conns'[k] = conns[k]
    BY <1>0, <2>1, <2>3
  <2>5. /\ c # d => client'[c] = client[c]
        /\ c = d => client'[c].at = "connected" /\ client'[c].next = client[c].next
    BY <1>0, <2>1
  <2>6. LastAsked(c)' = LastAsked(c) /\ (InFlight(c)' <=> InFlight(c))
        /\ (CarriedOut(c)' <=> CarriedOut(c))
    BY <2>1, <2>5 DEF LastAsked, InFlight, CarriedOut, list
  <2>7. /\ n \in Nat /\ Len(conns') = n + 1 /\ Len(conns) = n
        /\ \A k \in 1 .. n + 1 : k \in 1 .. n \/ k = n + 1
    BY <2>4, <2>3
  <2>8. /\ \A k \in 1 .. n : (Mine(c, k)' <=> Mine(c, k)) /\ (Waiting(c, k)' <=> Waiting(c, k))
        /\ Mine(c, n + 1)' <=> c = d
        /\ ~Waiting(c, n + 1)'
    <3>1. \A k \in 1 .. n : (Mine(c, k)' <=> Mine(c, k)) /\ (Waiting(c, k)' <=> Waiting(c, k))
      BY <2>4 DEF Mine, Waiting
    <3>2. Mine(c, n + 1)' <=> c = d
      BY <2>2, <2>4 DEF Mine
    <3>3. ~Waiting(c, n + 1)'
      BY <2>2, <2>4 DEF Waiting
    <3>4. QED
      BY <3>1, <3>2, <3>3
  <2>9. \A k \in 1 .. n : k \in 1 .. n + 1 /\ k + 1 .. n \subseteq k + 1 .. n + 1
    BY <2>7
  <2>10. OneOpen(c)'
    <3>1. CASE c = d
      <4>1. \A k \in 1 .. n : ~Mine(c, k)'
        BY <2>1, <2>7, <2>8, <3>1 DEF OneOpen
      <4>2. n + 1 \in 1 .. n + 1 /\ (n + 1) + 1 .. n + 1 = {}
        BY <2>7
      <4>3. \A k \in 1 .. n + 1 : Mine(c, k)' => k = n + 1
        BY <2>7, <4>1
      <4>4. Mine(c, n + 1)' /\ conns'[n + 1].op = client'[c].next /\ client'[c].at \in Connected
        BY <2>2, <2>4, <2>5, <2>8, <3>1
      <4>5. \E k \in 1 .. n + 1 : Mine(c, k)'
        BY <4>2, <4>4
      <4>6. ASSUME NEW k \in 1 .. n + 1, Mine(c, k)'
            PROVE  /\ client'[c].at \in Connected /\ conns'[k].op = client'[c].next
                   /\ \A j \in k + 1 .. n + 1 : conns'[j].client # c
        <5>1. k = n + 1
          BY <4>3, <4>6
        <5>2. QED
          BY <4>2, <4>4, <5>1
      <4>7. QED
        BY <2>7, <4>5, <4>6 DEF OneOpen
    <3>2. CASE c # d
      <4>1. ASSUME NEW k \in 1 .. n + 1, Mine(c, k)' PROVE k \in 1 .. n /\ Mine(c, k)
        <5>1. k # n + 1
          BY <2>8, <3>2, <4>1
        <5>2. QED
          BY <2>7, <2>8, <4>1, <5>1
      <4>2. ASSUME NEW k \in 1 .. n, Mine(c, k), NEW j \in k + 1 .. n + 1 PROVE conns'[j].client # c
        <5>1. CASE j = n + 1
          BY <2>2, <2>4, <3>2, <5>1
        <5>2. CASE j # n + 1
          <6>1. j \in k + 1 .. n /\ j \in 1 .. n
            BY <2>7, <5>2
          <6>2. QED
            BY <2>4, <2>7, <4>2, <6>1 DEF OneOpen
        <5>3. QED
          BY <5>1, <5>2
      <4>3. client'[c].at \in Connected => \E k \in 1 .. n + 1 : Mine(c, k)'
        BY <2>5, <2>7, <2>8, <2>9, <3>2 DEF OneOpen
      <4>4. \A k \in 1 .. n + 1 : Mine(c, k)' =>
               /\ client'[c].at \in Connected /\ conns'[k].op = client'[c].next
               /\ \A j \in k + 1 .. n + 1 : conns'[j].client # c
        BY <2>4, <2>5, <2>7, <3>2, <4>1, <4>2 DEF OneOpen
      <4>5. QED
        BY <2>7, <4>3, <4>4 DEF OneOpen
    <3>3. QED
      BY <3>1, <3>2
  <2>11. InOrder(c)'
    <3>1. ASSUME NEW k \in 1 .. n + 1, Waiting(c, k)', \A j \in k + 1 .. n + 1 : ~Waiting(c, j)'
          PROVE  conns'[k].op = LastAsked(c)
      <4>1. k \in 1 .. n /\ Waiting(c, k)
        <5>1. k # n + 1
          BY <2>8, <3>1
        <5>2. QED
          BY <2>7, <2>8, <3>1, <5>1
      <4>2. \A j \in k + 1 .. n : j \in 1 .. n /\ j \in k + 1 .. n + 1
        BY <2>7
      <4>3. \A j \in k + 1 .. n : ~Waiting(c, j)
        BY <2>8, <3>1, <4>2
      <4>4. QED
        BY <2>4, <2>7, <4>1, <4>3 DEF InOrder
    <3>2. (\A k \in 1 .. n + 1 : ~Waiting(c, k)') => \A k \in 1 .. n : ~Waiting(c, k)
      BY <2>8, <2>9
    <3>3. (\A k \in 1 .. n + 1 : ~Waiting(c, k)') =>
             IF InFlight(c) THEN req["socket"].op = LastAsked(c)
                            ELSE CarriedOut(c)
      BY <2>7, <3>2 DEF InOrder
    <3>4. QED
      BY <2>1, <2>6, <2>7, <3>1, <3>3 DEF InOrder
  <2>12. QED
    BY <2>10, <2>11 DEF Goal
<1>7. ASSUME NEW d \in Client, WriteRequest(d) PROVE Goal
  <2>1. PICK i \in 1 .. Len(conns) :
           Mine(d, i) /\ conns' = [conns EXCEPT ![i] = [conns[i] EXCEPT !.data = TRUE]]
    BY <1>7 DEF WriteRequest
  <2>2. /\ client[d].at = "connected" /\ UNCHANGED <<call, req, list>>
        /\ client' = [client EXCEPT ![d] = [client[d] EXCEPT !.at = "written"]]
    BY <1>7 DEF WriteRequest, calls, kernel
  <2>3. Len(conns') = Len(conns)
        /\ \A j \in 1 .. Len(conns) :
              /\ conns'[j].client = conns[j].client /\ conns'[j].op = conns[j].op
              /\ conns'[j].open = conns[j].open
              /\ conns'[j].data = (IF j = i THEN TRUE ELSE conns[j].data)
    <3> DEFINE r == [conns[i] EXCEPT !.data = TRUE]
    <3>1. conns[i] \in Connection
      BY <1>0, ElementOfSeq
    <3>2. r \in Connection
      BY <3>1, SetField
    <3>3. /\ r.client = conns[i].client /\ r.op = conns[i].op
          /\ r.open = conns[i].open /\ r.data = TRUE
      BY <3>1, OtherFields
    <3> HIDE DEF r
    <3>4. conns' = [conns EXCEPT ![i] = r]
      BY <2>1 DEF r
    <3>5. Len(conns') = Len(conns) /\ \A j \in 1 .. Len(conns) : conns'[j] = IF j = i THEN r ELSE conns[j]
      BY <1>0, <3>2, <3>4, ExceptSeq
    <3>6. QED
      BY <3>3, <3>5
  <2>4. /\ c # d => client'[c] = client[c]
        /\ c = d => client'[c].at = "written" /\ client'[c].next = client[c].next
    BY <1>0, <2>2
  <2>5. OneOpen(c)'
    <3>1. \A k \in 1 .. Len(conns) : Mine(c, k)' <=> Mine(c, k)
      BY <2>3 DEF Mine
    <3>2. \A k \in 1 .. Len(conns) : \A j \in k + 1 .. Len(conns) : j \in 1 .. Len(conns)
      BY <1>0
    <3>3. client'[c].next = client[c].next /\ (client'[c].at \in Connected <=> client[c].at \in Connected)
      BY <2>2, <2>4
    <3>4. QED
      BY <2>3, <3>1, <3>2, <3>3 DEF OneOpen
  <2>6. InFlight(c)' <=> InFlight(c)
    BY <2>2 DEF InFlight
  <2>7. CASE c # d
    <3>1. \A k \in 1 .. Len(conns) : Waiting(c, k)' <=> Waiting(c, k)
      BY <2>1, <2>3, <2>7 DEF Waiting, Mine
    <3>2. LastAsked(c)' = LastAsked(c) /\ (CarriedOut(c)' <=> CarriedOut(c))
      BY <2>2, <2>4, <2>7 DEF LastAsked, CarriedOut, list
    <3>3. \A k \in 1 .. Len(conns) : \A j \in k + 1 .. Len(conns) : j \in 1 .. Len(conns)
      BY <1>0
    <3>4. QED
      BY <2>2, <2>3, <2>5, <2>6, <3>1, <3>2, <3>3 DEF InOrder, Goal
  <2>8. CASE c = d
    <3>1. Waiting(c, i)' /\ conns'[i].op = LastAsked(c)'
      BY <2>1, <2>3, <2>4, <2>8 DEF Waiting, Mine, LastAsked, OneOpen
    <3>2. \A j \in i + 1 .. Len(conns) : conns'[j].client # c
      <4>1. \A j \in i + 1 .. Len(conns) : conns[j].client # c /\ j \in 1 .. Len(conns)
        BY <1>0, <2>1, <2>8 DEF OneOpen
      <4>2. QED
        BY <2>3, <4>1
    <3>3. ASSUME NEW k \in 1 .. Len(conns), Waiting(c, k)', \A j \in k + 1 .. Len(conns) : ~Waiting(c, j)'
          PROVE  k = i
      <4>1. ~(k < i)
        <5>1. k < i => i \in k + 1 .. Len(conns)
          BY <1>0
        <5>2. QED
          BY <3>1, <3>3, <5>1
      <4>2. ~(i < k)
        <5>1. i < k => k \in i + 1 .. Len(conns)
          BY <1>0
        <5>2. QED
          BY <3>2, <3>3, <5>1 DEF Waiting
      <4>3. QED
        BY <1>0, <4>1, <4>2
    <3>4. QED
      BY <2>3, <2>5, <3>1, <3>3 DEF InOrder, Goal
  <2>9. QED
    BY <2>7, <2>8
<1>8. ASSUME NEW d \in Client, Close(d) PROVE Goal
  <2>1. PICK i \in 1 .. Len(conns) :
           Mine(d, i) /\ conns' = [conns EXCEPT ![i] = [conns[i] EXCEPT !.open = FALSE]]
    BY <1>8 DEF Close
  <2> DEFINE after == [at |-> "away",
                       next |-> IF client[d].at = "connected" THEN client[d].next
                                ELSE IF client[d].next = "BIND_OP" THEN "UNBIND_OP" ELSE "BIND_OP"]
  <2>2. /\ client[d].at \in Connected /\ UNCHANGED <<call, req, list>>
        /\ client' = [client EXCEPT ![d] = after]
    BY <1>8 DEF Close, calls, kernel
  <2>3. Len(conns') = Len(conns)
        /\ \A j \in 1 .. Len(conns) :
              /\ conns'[j].client = conns[j].client /\ conns'[j].op = conns[j].op
              /\ conns'[j].data = conns[j].data
              /\ conns'[j].open = (IF j = i THEN FALSE ELSE conns[j].open)
    <3> DEFINE r == [conns[i] EXCEPT !.open = FALSE]
    <3>1. conns[i] \in Connection
      BY <1>0, ElementOfSeq
    <3>2. r \in Connection
      BY <3>1, SetField
    <3>3. /\ r.client = conns[i].client /\ r.op = conns[i].op
          /\ r.data = conns[i].data /\ r.open = FALSE
      BY <3>1, OtherFields
    <3> HIDE DEF r
    <3>4. conns' = [conns EXCEPT ![i] = r]
      BY <2>1 DEF r
    <3>5. Len(conns') = Len(conns) /\ \A j \in 1 .. Len(conns) : conns'[j] = IF j = i THEN r ELSE conns[j]
      BY <1>0, <3>2, <3>4, ExceptSeq
    <3>6. QED
      BY <3>3, <3>5
  <2>4. /\ c # d => client'[c] = client[c]
        /\ c = d => /\ client'[c].at = "away"
                    /\ client'[c].next = IF client[c].at = "connected" THEN client[c].next
                                         ELSE Flip(client[c].next)
    BY <1>0, <2>2 DEF Flip
  <2> HIDE DEF after
  <2>5. LastAsked(c)' = LastAsked(c) /\ (InFlight(c)' <=> InFlight(c))
        /\ (CarriedOut(c)' <=> CarriedOut(c))
    <3>1. client[c].next \in ClientOp /\ client[c].at \in {"away", "connected", "written", "gone"}
      BY <1>0
    <3>2. c = d => client[c].at \in {"connected", "written"}
      BY <2>2, <3>1
    <3>3. LastAsked(c)' = LastAsked(c)
      BY <2>4, <3>1, <3>2 DEF LastAsked, Flip, ClientOp
    <3>4. QED
      BY <2>2, <3>3 DEF InFlight, CarriedOut, list
  <2>6. InOrder(c)'
    <3>1. \A k \in 1 .. Len(conns) : Waiting(c, k)' <=> Waiting(c, k)
      BY <2>3 DEF Waiting
    <3>2. \A k \in 1 .. Len(conns) : \A j \in k + 1 .. Len(conns) : j \in 1 .. Len(conns)
      BY <1>0
    <3>3. QED
      BY <2>2, <2>3, <2>5, <3>1, <3>2 DEF InOrder
  <2>7. OneOpen(c)'
    <3>1. \A k \in 1 .. Len(conns) : \A j \in k + 1 .. Len(conns) : j \in 1 .. Len(conns) /\ j > k
      BY <1>0
    <3>2. CASE c # d
      <4>1. \A k \in 1 .. Len(conns) : Mine(c, k)' <=> Mine(c, k)
        BY <2>1, <2>3, <3>2 DEF Mine
      <4>2. QED
        BY <2>3, <2>4, <3>1, <3>2, <4>1 DEF OneOpen
    <3>3. CASE c = d
      <4>1. ASSUME NEW k \in 1 .. Len(conns), Mine(c, k) PROVE k = i
        <5>1. \A l \in 1 .. Len(conns) : \A j \in l + 1 .. Len(conns) : Mine(c, l) => conns[j].client # c
          BY DEF OneOpen
        <5>2. ~(k < i) /\ ~(i < k)
          <6>1. (k < i => i \in k + 1 .. Len(conns)) /\ (i < k => k \in i + 1 .. Len(conns))
            BY <1>0
          <6>2. QED
            BY <2>1, <3>3, <4>1, <5>1, <6>1 DEF Mine
        <5>3. QED
          BY <1>0, <5>2
      <4>2. \A k \in 1 .. Len(conns) : ~Mine(c, k)'
        BY <2>3, <4>1 DEF Mine
      <4>3. QED
        BY <2>3, <2>4, <3>3, <4>2 DEF OneOpen
    <3>4. QED
      BY <3>2, <3>3
  <2>8. QED
    BY <2>6, <2>7 DEF Goal
<1>9. CASE Stdin \/ StdinInput
  <2>1. client' = client
    BY <1>9 DEF Stdin, StdinInput, StdinBind, StdinFind, StdinLock, LockPlacement, StdinSend,
                StdinDone, StdinToggle, StdinToggleBoth, StdinExit, sock
  <2>2. UNCHANGED <<call["socket"], req["socket"], list, conns>>
    BY <1>9, StdinFrame DEF kernel
  <2>3. QED
    BY <2>1, <2>2, Untouched DEF InFlight, Goal, list
<1>10. CASE SocketStart \/ SocketExit \/ Accept
  <2>1. UNCHANGED <<call, req, list, conns, client>>
    BY <1>10 DEF SocketStart, SocketExit, Accept, calls, kernel, sock
  <2>2. QED
    BY <2>1, Untouched DEF InFlight, Goal, list
<1>11. CASE SocketDone
  <2>1. call["socket"] = None /\ UNCHANGED <<call, list, conns, client>>
    BY <1>11 DEF SocketDone, Returned, kernel, sock
  <2>2. ~InFlight(c) /\ ~InFlight(c)'
    BY <2>1 DEF InFlight, None
  <2>3. QED
    BY <2>1, <2>2, Untouched DEF Goal, list
<1>12. CASE Memcheck
  <2>1. UNCHANGED <<call["socket"], req["socket"], list, conns, client>>
    BY <1>12, MemcheckFrame DEF kernel, sock
  <2>2. QED
    BY <2>1, Untouched DEF InFlight, Goal, list
<1>13. CASE UNCHANGED vars
  <2>1. UNCHANGED <<call, req, list, conns, client>>
    BY <1>13 DEF vars, calls, kernel, sock
  <2>2. QED
    BY <2>1, Untouched DEF InFlight, Goal, list
<1>14. ASSUME NEW d \in Client, Exit(d) PROVE Goal
  <2>1. UNCHANGED <<call, req, list, conns>>
    BY <1>14 DEF Exit, calls, kernel
  <2>2. client[d].at = "away" /\ client' = [client EXCEPT ![d] = [client[d] EXCEPT !.at = "gone"]]
    BY <1>14 DEF Exit
  <2>3. /\ client'[c].next = client[c].next
        /\ client[c].at \in Connected <=> client'[c].at \in Connected
        /\ client[c].at = "written" <=> client'[c].at = "written"
    BY <1>0, <2>2
  <2>4. OneOpen(c)'
    BY <2>1, <2>3 DEF OneOpen, Mine
  <2>5. LastAsked(c)' = LastAsked(c)
    BY <2>3 DEF LastAsked
  <2>6. (InFlight(c)' <=> InFlight(c)) /\ (CarriedOut(c)' <=> CarriedOut(c))
    BY <2>1, <2>5 DEF InFlight, CarriedOut, list
  <2>7. InOrder(c)'
    BY <2>1, <2>5, <2>6 DEF InOrder, Waiting
  <2>8. QED
    BY <2>4, <2>7 DEF Goal
<1>15. ASSUME NEW t \in Thread, Request(t) PROVE Goal
  BY <1>1, <1>2, <1>3, <1>15 DEF Request
<1>16. QED
  BY <1>4, <1>5, <1>6, <1>7, <1>8, <1>9, <1>10, <1>11, <1>12, <1>13, <1>14, <1>15 DEF Next, Socket, Ended

-----------------------------------------------------------------------------
(* Every reachable state satisfies the inductive invariant.                *)
THEOREM Inductive == Spec => []IInv
<1>1. Init => IInv
  <2> SUFFICES ASSUME Init PROVE IInv
    OBVIOUS
  <2>0. 0 <= CONNS /\ 0 <= 1
    <3>1. CONNS \in Nat
      BY CtlAssumption
    <3>2. QED
      BY <3>1
  <2> USE DEF Init, Thread, None
  <2>1. TypeOK
    <3>1. Len(queue) = 0 /\ Len(conns) = 0
      BY EmptySeq
    <3>2. QED
      BY <2>0, <3>1 DEF TypeOK
  <2>2. Shape
    <3>1. conns \in Seq(Connection)
      BY EmptySeq
    <3>2. client \in [Client -> [at : {"away", "connected", "written", "gone"}, next : ClientOp]]
      BY DEF ClientOp
    <3>3. /\ pc \in [Thread -> StdinPlace \cup SocketPlace \cup MemcheckPlace]
          /\ pc["stdin"] \in StdinPlace /\ pc["socket"] = "start"
          /\ pc["memcheck"] \in MemcheckPlace
      <4>1. DOMAIN pc = Thread /\ pc = [t \in Thread |-> pc[t]]
        OBVIOUS
      <4>2. pc["stdin"] = "prompt" /\ pc["socket"] = "start" /\ pc["memcheck"] = "top"
        OBVIOUS
      <4>3. QED
        BY <4>1, <4>2 DEF StdinPlace, SocketPlace, MemcheckPlace
    <3>4. QED
      BY <3>1, <3>2, <3>3 DEF Shape, SocketPlace
  <2>3. CallersWait /\ CommExclusive /\ ReplyIsOwn /\ CandidatesAreOwn
    <3>1. \A t \in Thread : call[t] = None
      OBVIOUS
    <3>2. QED
      BY <3>1 DEF CallersWait, CommExclusive, ReplyIsOwn, CandidatesAreOwn
  <2>4. PlacementExclusive /\ WindowOpen /\ UsageKnown
    BY DEF PlacementExclusive, WindowOpen, UsageKnown, NoRequest
  <2>5. QED
    BY <2>1, <2>2, <2>3, <2>4 DEF IInv
<1>2. IInv /\ [Next]_vars => IInv'
  BY TypeStep, ShapeStep, CallersStep, CommStep, CandidatesStep, PlacementStep,
     WindowStep, UsageStep DEF IInv
<1>3. QED
  BY <1>1, <1>2, PTL DEF Spec

(* Types, and at most one reply on the netlink socket at a time.           *)
THEOREM TypeCorrect == Spec => []TypeOK
<1>1. IInv => TypeOK
  BY DEF IInv
<1>2. QED
  BY <1>1, Inductive, PTL

(* A thread receives the reply to its own request, whatever the other
   threads ask in the meantime: comm_lock spans the two calls.             *)
THEOREM OwnReply == Spec => []ReplyIsOwn
<1>1. IInv => ReplyIsOwn
  BY DEF IInv
<1>2. QED
  BY <1>1, Inductive, PTL

(* A thread migrates the pages its own FIND found, although candidates is
   shared and read without comm_lock: whoever asks holds placement_lock.   *)
THEOREM OwnCandidates == Spec => []CandidatesAreOwn
<1>1. IInv => CandidatesAreOwn
  BY DEF IInv
<1>2. QED
  BY <1>1, Inductive, PTL

(* A round that migrates decided on usages it read itself, unless a toggle
   came in.                                                                *)
THEOREM FreshUsage == Spec => []UsageOfThisRound
<1>1. IInv => UsageOfThisRound
  BY DEF IInv, UsageKnown, UsageOfThisRound
<1>2. QED
  BY <1>1, Inductive, PTL

(* No other FIND comes between memcheck's CLEAR and the FIND it prepares.  *)
THEOREM ClearThenFind == Spec => ClearPrecedesFind
<1>1. ASSUME IInv, NEW m \in {"NVRAM_INTENSIVE_MODE", "SWITCH_MODE"},
             Sendmsg("memcheck"), req["memcheck"] = Find(m)
      PROVE  last_find = [to |-> "memcheck", mode |-> "NVRAM_CLEAR"]
  <2>1. call["memcheck"] = "sendmsg"
    BY <1>1 DEF Sendmsg
  <2>2. pc["memcheck"] \in {"window", "found", "moved"}
    BY <1>1, <2>1 DEF IInv, CallersWait, None
  <2>3. pc["memcheck"] = "found"
    BY <1>1, <2>1, <2>2 DEF IInv, WindowOpen, Find, None
  <2>4. QED
    BY <1>1, <2>1, <2>3 DEF IInv, WindowOpen, Cleared
<1> DEFINE A == \A m \in {"NVRAM_INTENSIVE_MODE", "SWITCH_MODE"} :
                   Sendmsg("memcheck") /\ req["memcheck"] = Find(m) =>
                       last_find = [to |-> "memcheck", mode |-> "NVRAM_CLEAR"]
<1>2. IInv /\ [Next]_vars => [A]_vars
  BY <1>1
<1>3. QED
  BY <1>2, Inductive, PTL DEF Spec, ClearPrecedesFind

(* The connections of a client and its requests stay in order.             *)
LEMMA ClientsInOrder == Spec => [](IInv /\ CInv)
<1>1. Init => CInv
  <2> SUFFICES ASSUME Init PROVE CInv
    OBVIOUS
  <2>1. conns = << >> /\ Len(conns) = 0 /\ bound = {} /\ pc["socket"] # "sent"
    BY EmptySeq DEF Init
  <2>2. \A t \in Thread : req[t].op = None /\ call[t] = None
    BY DEF Init, NoRequest
  <2>3. FromOldest
    BY <2>1, <2>2 DEF FromOldest, Thread, None
  <2>4. ASSUME NEW c \in Client PROVE OneOpen(c) /\ InOrder(c)
    <3>1. client[c].at = "away" /\ client[c].next = "BIND_OP"
      BY DEF Init
    <3>2. LastAsked(c) = "UNBIND_OP"
      BY <3>1 DEF LastAsked, Flip
    <3>3. ~InFlight(c)
      BY <2>2 DEF InFlight, Thread, None
    <3>4. 1 .. Len(conns) = {}
      BY <2>1
    <3>5. QED
      BY <2>1, <3>1, <3>2, <3>3, <3>4 DEF OneOpen, Connected, InOrder, CarriedOut
  <2>5. QED
    BY <2>3, <2>4 DEF CInv
<1>2. IInv /\ CInv /\ [Next]_vars => CInv'
  <2> SUFFICES ASSUME IInv, CInv, [Next]_vars PROVE CInv'
    OBVIOUS
  <2>1. TypeOK /\ Shape /\ CallersWait /\ FromOldest
    BY DEF IInv, CInv
  <2>2. ASSUME NEW c \in Client PROVE OneOpen(c)' /\ InOrder(c)'
    BY <2>1, OrderStep DEF CInv
  <2>3. QED
    BY <2>1, <2>2, OldestStep DEF CInv
<1>3. QED
  BY <1>1, <1>2, Inductive, PTL DEF Spec

(* A client with no connection left, which neither the module nor a command
   on stdin has overruled since, is in the list if the last request it wrote
   was a BIND, and not if it was an UNBIND: process_socket serves the requests
   of a client in the order it made them, loses none, and takes nobody else's
   for one of its.                                                         *)
THEOREM ClientsFollowed == Spec => []ListFollowsClient
<1>1. IInv /\ CInv => ListFollowsClient
  <2> SUFFICES ASSUME IInv, CInv, NEW c \in Client, c \notin overruled,
                      \A k \in 1 .. Len(conns) : conns[k].client # c
               PROVE  c \in bound <=> client[c].next = "UNBIND_OP"
    BY DEF ListFollowsClient
  <2>1. client[c].at \in {"away", "gone"} /\ client[c].next \in ClientOp
    BY DEF CInv, OneOpen, Connected, Mine, IInv, Shape
  <2>2. \A k \in 1 .. Len(conns) : ~Waiting(c, k)
    BY DEF Waiting
  <2>3. ~InFlight(c)
    <3> SUFFICES ASSUME InFlight(c) PROVE FALSE
      OBVIOUS
    <3>1. pc["socket"] = "sent"
      BY DEF InFlight, IInv, CallersWait, None
    <3>2. conns \in Seq(Connection) /\ conns # << >> /\ conns[1].client = c
      BY <3>1 DEF IInv, Shape, CInv, FromOldest, InFlight
    <3>3. 1 \in 1 .. Len(conns)
      BY <3>2
    <3>4. QED
      BY <3>2, <3>3
  <2>4. QED
    BY <2>1, <2>2, <2>3 DEF CInv, InOrder, CarriedOut, LastAsked, Flip, ClientOp
<1>2. QED
  BY <1>1, ClientsInOrder, PTL

-----------------------------------------------------------------------------
(* The threads do not wait for each other in a circle.                     *)

(* A lock is held by a thread that is between its two ends: no path through
   the code leaves one behind, and process_stdin asks for placement_lock
   only when somebody typed a command that needs it.                       *)
LocksHeld ==
    /\ \A t \in Thread : comm_lock = t => call[t] \in {"sendmsg", "recvmsg"}
    /\ placement_lock = "stdin" => pc["stdin"] \in {"find", "sent"}
    /\ placement_lock = "memcheck" =>
          pc["memcheck"] \in {"clear", "window", "found", "move", "moved"}
    /\ placement_lock # "socket"
    /\ pc["stdin"] \in {"place", "find"} => Command \cap {"send", "switch"} # {}

\* The module had no memory for the reply that t receives.
LostReply(t) == call[t] = "recvmsg" /\ queue = << >>

\* t cannot go on before u releases a lock.
WaitsFor(t, u) ==
    \/ call[t] = "lock" /\ comm_lock = u
    \/ call[t] = None /\ pc[t] \in {"place", "busy", "over"} /\ placement_lock = u

\* A thread that holds a lock has its next step open to it.
GoesOn(t) ==
    \/ call[t] = None /\ pc[t] \in {"find", "sent", "clear", "window", "found", "move", "moved"}
    \/ call[t] = "lock" /\ comm_lock = None
    \/ call[t] \in {"sendmsg", "migrate"}
    \/ call[t] = "recvmsg" /\ queue # << >>

(* Whoever waits for a lock waits for a thread that can go on, or for one
   that waits for comm_lock and whose holder can; only a reply that the
   module could not allocate stops that thread.                            *)
NoCircle ==
    \A t, u \in Thread : WaitsFor(t, u) =>
        /\ u # t
        /\ \/ GoesOn(u) \/ LostReply(u)
           \/ \E v \in Thread \ {t, u} : WaitsFor(u, v) /\ (GoesOn(v) \/ LostReply(v))

(* The holders of the two locks, step by step.                             *)
LEMMA LocksHeldStep == ASSUME IInv, LocksHeld, [Next]_vars PROVE LocksHeld'
<1> USE DEF LocksHeld, IInv, TypeOK, Shape, Thread, None, Goto, Begin, Forget,
            acts, locks, sock, usage, calls, kernel, list, round
<1>1. \A t \in Thread : comm_lock' = t => call'[t] \in {"sendmsg", "recvmsg"}
  <2>1. ASSUME NEW u \in Thread, Request(u)
        PROVE  \A t \in Thread : comm_lock' = t => call'[t] \in {"sendmsg", "recvmsg"}
    <3>1. CASE LockComm(u)
      BY <3>1 DEF LockComm
    <3>2. CASE Sendmsg(u)
      <4>1. comm_lock' = comm_lock /\ call' = [call EXCEPT ![u] = "recvmsg"]
        BY <3>2 DEF Sendmsg
      <4> QED
        BY <4>1
    <3>3. CASE Recvmsg(u)
      BY <3>3 DEF Recvmsg
    <3>4. CASE Migrate(u)
      <4>1. comm_lock' = comm_lock /\ call[u] = "migrate" /\ call' = [call EXCEPT ![u] = None]
        BY <3>4 DEF Migrate
      <4> QED
        BY <4>1
    <3> QED
      BY <2>1, <3>1, <3>2, <3>3, <3>4 DEF Request
  <2>2. CASE \A u \in Thread : ~Request(u)
    <3>1. /\ comm_lock' = comm_lock
          /\ \A t \in Thread : call'[t] = call[t] \/ (call[t] = None /\ call'[t] = "lock")
      BY <2>2, Handoff
    <3> QED
      BY <3>1
  <2> QED
    BY <2>1, <2>2
<1> DEFINE Placed ==
             /\ placement_lock = "stdin" => pc["stdin"] \in {"find", "sent"}
             /\ placement_lock = "memcheck" =>
                   pc["memcheck"] \in {"clear", "window", "found", "move", "moved"}
             /\ placement_lock # "socket"
             /\ pc["stdin"] \in {"place", "find"} => Command \cap {"send", "switch"} # {}
<1>2. Placed
  OBVIOUS
<1>3. ASSUME NEW t \in Thread, Request(t) PROVE Placed'
  BY <1>2, <1>3, RequestFrame
<1>4. ASSUME Stdin \/ StdinInput PROVE Placed'
  <2>1. pc["memcheck"]' = pc["memcheck"]
    BY <1>4, StdinFrame DEF MemcheckState
  <2>2. CASE StdinBind
    <3>1. placement_lock' = placement_lock /\ pc' = [pc EXCEPT !["stdin"] = "sent"]
          /\ pc["stdin"] = "prompt"
      BY <2>2 DEF StdinBind
    <3>2. placement_lock # "stdin"
      BY <1>2, <3>1
    <3> QED
      BY <1>2, <2>1, <3>1, <3>2
  <2>3. CASE StdinFind
    BY <1>2, <2>3 DEF StdinFind
  <2>4. CASE StdinLock
    BY <1>2, <2>4 DEF StdinLock, LockPlacement
  <2>5. CASE StdinSend
    <3>1. placement_lock' = placement_lock /\ pc' = [pc EXCEPT !["stdin"] = "sent"]
      BY <2>5 DEF StdinSend
    <3> QED
      BY <1>2, <2>1, <3>1
  <2>6. CASE StdinDone
    BY <1>2, <2>6 DEF StdinDone
  <2>7. CASE StdinToggle
    BY <1>2, <2>7 DEF StdinToggle
  <2>8. CASE StdinToggleBoth
    BY <1>2, <2>8 DEF StdinToggleBoth
  <2>9. CASE StdinExit
    BY <1>2, <2>9 DEF StdinExit
  <2> QED
    BY <1>4, <2>2, <2>3, <2>4, <2>5, <2>6, <2>7, <2>8, <2>9 DEF Stdin, StdinInput
<1>5. ASSUME Socket PROVE Placed'
  <2>1. UNCHANGED <<pc["memcheck"], pc["stdin"], placement_lock>>
    BY <1>5, SocketFrame DEF MemcheckState
  <2> QED
    BY <1>2, <2>1
<1>6. ASSUME Memcheck PROVE Placed'
  <2>1. pc["stdin"]' = pc["stdin"]
    BY <1>6, MemcheckFrame
  <2>2. CASE MemTop \/ MemSwitch
    BY <1>2, <2>2 DEF MemTop, MemSwitch
  <2>3. CASE MemSwitchLock \/ MemThreshLock
    BY <1>2, <2>3 DEF MemSwitchLock, MemThreshLock, LockPlacement
  <2>4. CASE MemClear
    <3>1. placement_lock' = placement_lock /\ pc' = [pc EXCEPT !["memcheck"] = "window"]
      BY <2>4 DEF MemClear
    <3>2. pc'["memcheck"] = "window"
      BY <3>1
    <3> QED
      BY <1>2, <2>1, <3>1, <3>2
  <2>5. CASE MemFind
    <3>1. placement_lock' = placement_lock /\ pc' = [pc EXCEPT !["memcheck"] = "found"]
      BY <2>5 DEF MemFind
    <3>2. pc'["memcheck"] = "found"
      BY <3>1
    <3> QED
      BY <1>2, <2>1, <3>1, <3>2
  <2>6. CASE MemFound \/ MemMoved
    BY <1>2, <2>6 DEF MemFound, MemMoved
  <2>7. CASE MemThresh
    <3>1. placement_lock' = placement_lock /\ pc["memcheck"] = "thresh"
      BY <2>7 DEF MemThresh
    <3>2. placement_lock # "memcheck"
      BY <1>2, <3>1
    <3> QED
      BY <1>2, <2>1, <3>1, <3>2
  <2>8. CASE MemMove
    <3>1. placement_lock' = placement_lock /\ pc' = [pc EXCEPT !["memcheck"] = "moved"]
      BY <2>8 DEF MemMove
    <3>2. pc'["memcheck"] = "moved"
      BY <3>1
    <3> QED
      BY <1>2, <2>1, <3>1, <3>2
  <2>9. CASE MemSleep
    BY <1>2, <2>9 DEF MemSleep
  <2> QED
    BY <1>6, <2>2, <2>3, <2>4, <2>5, <2>6, <2>7, <2>8, <2>9 DEF Memcheck
<1>7. ASSUME Clients PROVE Placed'
  BY <1>2, <1>7, ClientFrame
<1>8. ASSUME UNCHANGED vars PROVE Placed'
  BY <1>2, <1>8 DEF vars
<1>9. Placed'
  BY <1>3, <1>4, <1>5, <1>6, <1>7, <1>8 DEF Next, Ended, Clients
<1> QED
  BY <1>1, <1>9

LEMMA LocksHeldAlways == Spec => [](IInv /\ LocksHeld)
<1>1. Init => LocksHeld
  BY DEF Init, LocksHeld, Thread, None
<1>2. IInv /\ LocksHeld /\ [Next]_vars => LocksHeld'
  BY LocksHeldStep
<1> QED
  BY <1>1, <1>2, Inductive, PTL DEF Spec

(* comm_lock and placement_lock do not deadlock the daemon: who waits for
   placement_lock holds nothing, who waits for comm_lock holds at most
   placement_lock, and who holds comm_lock waits for the module alone.     *)
THEOREM NoDeadlock == Spec => []NoCircle
<1>1. ASSUME IInv, LocksHeld, NEW t \in Thread, NEW u \in Thread, WaitsFor(t, u)
      PROVE  /\ u # t
             /\ \/ GoesOn(u) \/ LostReply(u)
                \/ \E v \in Thread \ {t, u} : WaitsFor(u, v) /\ (GoesOn(v) \/ LostReply(v))
  <2>1. ASSUME NEW v \in Thread, comm_lock = v
        PROVE  call[v] \in {"sendmsg", "recvmsg"} /\ (GoesOn(v) \/ LostReply(v))
    BY <1>1, <2>1 DEF LocksHeld, GoesOn, LostReply
  <2>2. CASE call[t] = "lock" /\ comm_lock = u
    BY <2>1, <2>2
  <2>3. CASE call[t] = None /\ pc[t] \in {"place", "busy", "over"} /\ placement_lock = u
    <3>1. /\ u # t
          /\ pc[u] \in {"find", "sent", "clear", "window", "found", "move", "moved"}
      BY <1>1, <2>3 DEF LocksHeld, Thread
    <3>2. CASE call[u] = "lock" /\ comm_lock # None
      <4>1. comm_lock \in Thread
        BY <1>1, <3>2 DEF IInv, TypeOK
      <4>2. PICK v \in Thread : comm_lock = v
        BY <4>1
      <4>3. call[v] \in {"sendmsg", "recvmsg"} /\ (GoesOn(v) \/ LostReply(v))
        BY <2>1, <4>2
      <4>4. v # t /\ v # u
        BY <2>3, <3>2, <4>3 DEF None
      <4>5. WaitsFor(u, v)
        BY <3>2, <4>2 DEF WaitsFor
      <4> QED
        BY <3>1, <4>3, <4>4, <4>5
    <3>3. CASE ~(call[u] = "lock" /\ comm_lock # None)
      <4>1. call[u] \in {None, "lock", "sendmsg", "recvmsg", "migrate"}
        BY <1>1 DEF IInv, TypeOK
      <4> QED
        BY <3>1, <3>3, <4>1 DEF GoesOn, LostReply
    <3> QED
      BY <3>2, <3>3
  <2> QED
    BY <1>1, <2>2, <2>3 DEF WaitsFor
<1>2. IInv /\ LocksHeld => NoCircle
  BY <1>1 DEF NoCircle
<1> QED
  BY <1>2, LocksHeldAlways, PTL

(* A reply that is lost is lost for ever: no later reply comes in its place,
   because its receiver keeps comm_lock, and with it every later request.  *)
THEOREM LostForEver ==
    Spec => [][\A t \in Thread : LostReply(t) => LostReply(t)' /\ comm_lock' = t]_vars
<1> DEFINE A == \A t \in Thread : LostReply(t) => LostReply(t)' /\ comm_lock' = t
<1>1. ASSUME IInv, [Next]_vars PROVE A
  <2> SUFFICES ASSUME NEW t \in Thread, LostReply(t) PROVE LostReply(t)' /\ comm_lock' = t
    OBVIOUS
  <2>1. call[t] = "recvmsg" /\ queue = << >> /\ comm_lock = t
    BY <1>1 DEF LostReply, IInv, CommExclusive
  <2>2. ASSUME NEW u \in Thread, Request(u) PROVE LostReply(t)' /\ comm_lock' = t
    <3>1. ~LockComm(u) /\ ~Recvmsg(u)
      BY <2>1 DEF LockComm, Recvmsg, None, Thread
    <3>2. ~Sendmsg(u)
      <4> SUFFICES ASSUME Sendmsg(u) PROVE FALSE
        OBVIOUS
      <4>1. call[u] = "sendmsg" /\ comm_lock = u
        BY <1>1 DEF Sendmsg, IInv, CommExclusive
      <4> QED
        BY <2>1, <4>1
    <3>3. CASE Migrate(u)
      <4>1. /\ call[u] = "migrate" /\ call' = [call EXCEPT ![u] = None]
            /\ UNCHANGED <<queue, comm_lock>>
        BY <3>3 DEF Migrate, locks, kernel
      <4>2. call'[t] = "recvmsg"
        BY <1>1, <2>1, <4>1 DEF IInv, TypeOK
      <4> QED
        BY <2>1, <4>1, <4>2 DEF LostReply
    <3> QED
      BY <2>2, <3>1, <3>2, <3>3 DEF Request
  <2>3. CASE \A u \in Thread : ~Request(u)
    <3>1. UNCHANGED <<comm_lock, kernel>> /\ call'[t] = call[t]
      BY <1>1, <2>1, <2>3, Handoff DEF IInv, None
    <3> QED
      BY <2>1, <3>1 DEF LostReply, kernel
  <2> QED
    BY <2>2, <2>3
<1>2. IInv /\ [Next]_vars => [A]_vars
  BY <1>1
<1> QED
  BY <1>2, Inductive, PTL DEF Spec

(* Where the module always has memory for its reply, no reply is lost.     *)
THEOREM NoneLost == ~Drops => (Spec => [](\A t \in Thread : ~LostReply(t)))
<1> DEFINE N == \A t \in Thread : ~LostReply(t)
<1> SUFFICES ASSUME ~Drops PROVE Spec => []N
  OBVIOUS
<1>1. Init => N
  BY DEF Init, LostReply, Thread, None
<1>2. ASSUME IInv, N, [Next]_vars PROVE N'
  <2> SUFFICES ASSUME NEW t \in Thread, call'[t] = "recvmsg" PROVE queue' # << >>
    BY DEF LostReply
  <2> USE DEF IInv, TypeOK, None
  <2>1. ASSUME NEW u \in Thread, Request(u) PROVE queue' # << >>
    <3>1. CASE LockComm(u)
      <4>1. call' = [call EXCEPT ![u] = "sendmsg"] /\ UNCHANGED queue
        BY <3>1 DEF LockComm, kernel
      <4> QED
        BY <1>2, <4>1 DEF LostReply
    <3>2. CASE Sendmsg(u)
      <4>1. queue' = Append(queue, [to |-> u, req |-> req[u]]) /\ call[u] = "sendmsg"
        BY <3>2 DEF Sendmsg, Reply
      <4>2. queue = << >>
        BY <1>2, <4>1 DEF CommExclusive
      <4> QED
        BY <4>1, <4>2
    <3>3. CASE Recvmsg(u)
      <4>1. call[u] = "recvmsg" /\ call' \in {[call EXCEPT ![u] = None], [call EXCEPT ![u] = "migrate"]}
        BY <3>3 DEF Recvmsg
      <4>2. call[t] = "recvmsg" /\ t # u
        BY <1>2, <4>1
      <4>3. comm_lock = t /\ comm_lock = u
        BY <1>2, <4>1, <4>2 DEF CommExclusive
      <4> QED
        BY <4>2, <4>3
    <3>4. CASE Migrate(u)
      <4>1. call' = [call EXCEPT ![u] = None] /\ UNCHANGED queue
        BY <3>4 DEF Migrate, kernel
      <4> QED
        BY <1>2, <4>1 DEF LostReply
    <3> QED
      BY <2>1, <3>1, <3>2, <3>3, <3>4 DEF Request
  <2>2. CASE \A u \in Thread : ~Request(u)
    <3>1. UNCHANGED kernel /\ call[t] = "recvmsg"
      BY <1>2, <2>2, Handoff
    <3> QED
      BY <1>2, <3>1 DEF LostReply, kernel
  <2> QED
    BY <2>1, <2>2
<1>3. IInv /\ N /\ [Next]_vars => N'
  BY <1>2
<1> HIDE DEF N
<1> QED
  BY <1>1, <1>3, Inductive, PTL DEF Spec

-----------------------------------------------------------------------------
(* Once exit_sig is set the threads have a bounded number of steps left.   *)

\* The request that k has not handed over yet, or can still bring.
Pending(k) ==
    conns[k].data \/ (conns[k].open /\ client[conns[k].client].at = "connected")

\* A client writes once on a connection.
WroteOnce(k) ==
    conns[k].data /\ conns[k].open => client[conns[k].client].at # "connected"

\* After exit process_stdin is gone.
StdinOff == exit_sig => pc["stdin"] = "done"

WInv == StdinOff /\ \A k \in 1 .. Len(conns) : WroteOnce(k)

CallTurns(t) ==
    IF call[t] = "lock" THEN 4
    ELSE IF call[t] = "sendmsg" THEN 3
    ELSE IF call[t] = "recvmsg" THEN 2
    ELSE IF call[t] = "migrate" THEN 1 ELSE 0

\* The rest of the connection that is being read.
SocketTurns ==
    IF pc["socket"] = "start" THEN 2
    ELSE IF pc["socket"] = "select" THEN 1
    ELSE IF pc["socket"] = "read" THEN (IF Pending(1) THEN 9 ELSE 2)
    ELSE IF pc["socket"] = "sent" THEN (IF Pending(1) THEN 10 ELSE 3)
    ELSE 0

\* The rest of the round: five for each place, which may have a call before it.
RoundTurns ==
    IF pc["memcheck"] = "switch" THEN 55
    ELSE IF pc["memcheck"] = "busy" THEN 50
    ELSE IF pc["memcheck"] = "clear" THEN 45
    ELSE IF pc["memcheck"] = "window" THEN 40
    ELSE IF pc["memcheck"] = "found" THEN 35
    ELSE IF pc["memcheck"] = "thresh" THEN 30
    ELSE IF pc["memcheck"] = "over" THEN 25
    ELSE IF pc["memcheck"] = "move" THEN 20
    ELSE IF pc["memcheck"] = "moved" THEN 15
    ELSE IF pc["memcheck"] = "sleep" THEN 10
    ELSE IF pc["memcheck"] = "top" THEN 5
    ELSE 0

TurnsLeft == SocketTurns + CallTurns("socket") + RoundTurns + CallTurns("memcheck")

\* What a thread of the daemon does, and not a client.
DaemonStep == (\E t \in Thread : Request(t)) \/ Stdin \/ StdinInput \/ Socket \/ Memcheck

(* The clients bring no further request on a connection that is there.     *)
LEMMA ClientStep ==
    ASSUME IInv, CInv, WInv, Clients
    PROVE  /\ \A k \in 1 .. Len(conns) : Pending(k)' => Pending(k)
           /\ \A k \in 1 .. Len(conns') : WroteOnce(k)'
<1> DEFINE Goal == /\ \A k \in 1 .. Len(conns) : Pending(k)' => Pending(k)
                   /\ \A k \in 1 .. Len(conns') : WroteOnce(k)'
<1> SUFFICES Goal
  OBVIOUS
<1>0. /\ conns \in Seq(Connection) /\ Len(conns) \in Nat
      /\ client \in [Client -> [at : {"away", "connected", "written", "gone"}, next : ClientOp]]
      /\ \A k \in 1 .. Len(conns) : conns[k] \in Connection /\ conns[k].client \in Client
  <2>1. /\ conns \in Seq(Connection)
        /\ client \in [Client -> [at : {"away", "connected", "written", "gone"}, next : ClientOp]]
    BY DEF IInv, Shape
  <2>2. Len(conns) \in Nat /\ \A k \in 1 .. Len(conns) : conns[k] \in Connection
    BY <2>1, ElementOfSeq
  <2> QED
    BY <2>1, <2>2 DEF Connection
<1>1. ASSUME NEW c \in Client, Connect(c) PROVE Goal
  <2> DEFINE new == [client |-> c, op |-> client[c].next, data |-> FALSE, open |-> TRUE]
  <2>1. /\ client[c].at = "away" /\ conns' = Append(conns, new)
        /\ client' = [client EXCEPT ![c] = [client[c] EXCEPT !.at = "connected"]]
    BY <1>1 DEF Connect
  <2>2. ~new.data
    OBVIOUS
  <2> HIDE DEF new
  <2>3. /\ Len(conns') = Len(conns) + 1 /\ conns'[Len(conns) + 1] = new
        /\ \A k \in 1 .. Len(conns) : conns'[k] = conns[k]
    BY <1>0, <2>1
  <2>4. \A d \in Client : d # c => client'[d] = client[d]
    BY <1>0, <2>1
  <2>5. \A k \in 1 .. Len(conns) : conns[k].open => conns[k].client # c
    BY <2>1 DEF CInv, OneOpen, Connected, Mine
  <2>6. \A k \in 1 .. Len(conns) : (Pending(k)' => Pending(k)) /\ WroteOnce(k)'
    BY <1>0, <2>3, <2>4, <2>5 DEF WInv, Pending, WroteOnce
  <2>8. \A k \in 1 .. Len(conns') : k \in 1 .. Len(conns) \/ k = Len(conns) + 1
    BY <1>0, <2>3
  <2>9. \A k \in 1 .. Len(conns') : k = Len(conns) + 1 => WroteOnce(k)'
    BY <2>2, <2>3 DEF WroteOnce
  <2> QED
    BY <2>6, <2>8, <2>9
<1>2. ASSUME NEW c \in Client, WriteRequest(c) PROVE Goal
  <2>1. PICK n \in 1 .. Len(conns) :
           Mine(c, n) /\ conns' = [conns EXCEPT ![n] = [conns[n] EXCEPT !.data = TRUE]]
    BY <1>2 DEF WriteRequest
  <2>2. client[c].at = "connected" /\ client' = [client EXCEPT ![c] = [client[c] EXCEPT !.at = "written"]]
    BY <1>2 DEF WriteRequest
  <2>3. client'[c].at = "written" /\ \A d \in Client : d # c => client'[d] = client[d]
    <3>1. [client[c] EXCEPT !.at = "written"].at = "written"
      BY <1>0, Zenon
    <3>2. client'[c] = [client[c] EXCEPT !.at = "written"]
      BY <1>0, <2>2
    <3> QED
      BY <1>0, <2>2, <3>1, <3>2
  <2> DEFINE r == [conns[n] EXCEPT !.data = TRUE]
  <2>4. /\ r \in Connection /\ r.client = conns[n].client /\ r.open = conns[n].open /\ r.data = TRUE
    BY <1>0, SetField, OtherFields
  <2> HIDE DEF r
  <2>5. Len(conns') = Len(conns) /\ \A j \in 1 .. Len(conns) : conns'[j] = IF j = n THEN r ELSE conns[j]
    BY <1>0, <2>1, <2>4, ExceptSeq DEF r
  <2>6. /\ \A j \in 1 .. Len(conns) : conns'[j].client = conns[j].client /\ conns'[j].open = conns[j].open
        /\ \A j \in 1 .. Len(conns) : j # n => conns'[j].data = conns[j].data
    BY <2>4, <2>5
  <2>7. Pending(n)
    BY <2>1, <2>2 DEF Pending, Mine
  <2>8. \A k \in 1 .. Len(conns) : Pending(k)' => Pending(k)
    BY <1>0, <2>3, <2>6, <2>7 DEF Pending
  <2>9. \A k \in 1 .. Len(conns) : WroteOnce(k)'
    BY <1>0, <2>1, <2>3, <2>6 DEF WInv, WroteOnce, Mine
  <2> QED
    BY <2>5, <2>8, <2>9
<1>3. ASSUME NEW c \in Client, Close(c) PROVE Goal
  <2>1. PICK n \in 1 .. Len(conns) :
           Mine(c, n) /\ conns' = [conns EXCEPT ![n] = [conns[n] EXCEPT !.open = FALSE]]
    BY <1>3 DEF Close
  <2>2. client'[c].at = "away" /\ \A d \in Client : d # c => client'[d] = client[d]
    <3> DEFINE after == [at |-> "away",
                         next |-> IF client[c].at = "connected" THEN client[c].next
                                  ELSE IF client[c].next = "BIND_OP" THEN "UNBIND_OP"
                                       ELSE "BIND_OP"]
    <3>1. client' = [client EXCEPT ![c] = after] /\ after.at = "away"
      BY <1>3 DEF Close
    <3> HIDE DEF after
    <3> QED
      BY <1>0, <3>1
  <2> DEFINE r == [conns[n] EXCEPT !.open = FALSE]
  <2>4. /\ r \in Connection /\ r.client = conns[n].client /\ r.data = conns[n].data /\ r.open = FALSE
    BY <1>0, SetField, OtherFields
  <2> HIDE DEF r
  <2>5. Len(conns') = Len(conns) /\ \A j \in 1 .. Len(conns) : conns'[j] = IF j = n THEN r ELSE conns[j]
    BY <1>0, <2>1, <2>4, ExceptSeq DEF r
  <2>6. /\ \A j \in 1 .. Len(conns) : conns'[j].client = conns[j].client /\ conns'[j].data = conns[j].data
        /\ \A j \in 1 .. Len(conns) : conns'[j].open => conns[j].open
    BY <2>4, <2>5
  <2>8. \A k \in 1 .. Len(conns) : (Pending(k)' => Pending(k)) /\ WroteOnce(k)'
    BY <1>0, <2>2, <2>6 DEF WInv, Pending, WroteOnce
  <2> QED
    BY <2>5, <2>8
<1>4. ASSUME NEW c \in Client, Exit(c) PROVE Goal
  <2>1. conns' = conns /\ client[c].at = "away"
        /\ client' = [client EXCEPT ![c] = [client[c] EXCEPT !.at = "gone"]]
    BY <1>4 DEF Exit
  <2>2. client'[c].at = "gone" /\ \A d \in Client : d # c => client'[d] = client[d]
    BY <1>0, <2>1
  <2>3. \A k \in 1 .. Len(conns) : (Pending(k)' => Pending(k)) /\ WroteOnce(k)'
    BY <1>0, <2>1, <2>2 DEF WInv, Pending, WroteOnce
  <2> QED
    BY <2>1, <2>3
<1> QED
  BY <1>1, <1>2, <1>3, <1>4 DEF Clients

(* Reading a connection: the request on it is its last one.                *)
LEMMA ReadStep ==
    ASSUME IInv, CInv, WInv, Socket
    PROVE  /\ \A k \in 1 .. Len(conns') : WroteOnce(k)'
           /\ ReadRequest => ~Pending(1)'
           /\ ~ReadRequest /\ ~ReadEnd => UNCHANGED <<conns, client>>
<1>0. conns \in Seq(Connection) /\ Len(conns) \in Nat
  BY DEF IInv, Shape
<1>1. CASE ReadRequest
  <2>1. /\ pc["socket"] = "read" /\ conns[1].data /\ client' = client
        /\ conns' = [conns EXCEPT ![1] = [conns[1] EXCEPT !.data = FALSE]]
    BY <1>1 DEF ReadRequest
  <2>2. 1 \in 1 .. Len(conns)
    BY <1>0, <2>1 DEF IInv, Shape
  <2> DEFINE r == [conns[1] EXCEPT !.data = FALSE]
  <2>3. conns[1] \in Connection
    BY <1>0, <2>2, ElementOfSeq
  <2>4. /\ r \in Connection /\ r.client = conns[1].client /\ r.open = conns[1].open /\ r.data = FALSE
    BY <2>3, SetField, OtherFields
  <2> HIDE DEF r
  <2>5. Len(conns') = Len(conns) /\ \A j \in 1 .. Len(conns) : conns'[j] = IF j = 1 THEN r ELSE conns[j]
    BY <1>0, <2>1, <2>2, <2>4, ExceptSeq DEF r
  <2>6. \A k \in 1 .. Len(conns) : WroteOnce(k)'
    BY <2>1, <2>4, <2>5 DEF WInv, WroteOnce
  <2>7. WroteOnce(1)
    BY <2>2 DEF WInv
  <2>8. ~Pending(1)'
    BY <2>1, <2>2, <2>4, <2>5, <2>7 DEF Pending, WroteOnce
  <2>9. ~ReadEnd
    BY <2>1 DEF ReadEnd
  <2> QED
    BY <1>1, <2>5, <2>6, <2>8
<1>2. CASE ReadEnd
  <2>1. /\ pc["socket"] = "read" /\ conns' = Tail(conns) /\ client' = client /\ ~conns[1].data
    BY <1>2 DEF ReadEnd
  <2>2. conns # << >>
    BY <2>1 DEF IInv, Shape
  <2>3. /\ Len(conns') = Len(conns) - 1
        /\ \A k \in 1 .. Len(conns) - 1 : k + 1 \in 1 .. Len(conns) /\ conns'[k] = conns[k + 1]
    BY <1>0, <2>1, <2>2
  <2>4. \A k \in 1 .. Len(conns') : WroteOnce(k)'
    BY <2>1, <2>3 DEF WInv, WroteOnce
  <2>5. ~ReadRequest
    BY <2>1 DEF ReadRequest
  <2> QED
    BY <1>2, <2>4, <2>5
<1>3. CASE SocketStart \/ SocketExit \/ Accept \/ SocketDone
  <2>1. UNCHANGED <<conns, client>>
    BY <1>3 DEF SocketStart, SocketExit, Accept, SocketDone, sock
  <2>2. \A k \in 1 .. Len(conns') : WroteOnce(k)'
    BY <2>1 DEF WInv, WroteOnce
  <2>3. ~ReadRequest
    <3>1. CASE SocketDone
      BY <3>1 DEF SocketDone, ReadRequest
    <3>2. CASE SocketStart \/ SocketExit
      BY <3>2 DEF SocketStart, SocketExit, ReadRequest
    <3>3. CASE Accept
      BY <3>3 DEF Accept, ReadRequest
    <3> QED
      BY <1>3, <3>1, <3>2, <3>3
  <2> QED
    BY <2>1, <2>2, <2>3
<1> QED
  BY <1>1, <1>2, <1>3 DEF Socket

(* What a step of another thread leaves alone.                             *)
LEMMA OthersKeepSocket ==
    ASSUME TypeOK, Shape, (\E t \in Thread : Request(t)) \/ Stdin \/ StdinInput \/ Memcheck
    PROVE  UNCHANGED <<conns, client, pc["socket"]>>
<1>1. ASSUME NEW t \in Thread, Request(t) PROVE UNCHANGED <<conns, client, pc["socket"]>>
  BY <1>1, RequestFrame DEF sock
<1>2. ASSUME Stdin \/ StdinInput PROVE UNCHANGED <<conns, client, pc["socket"]>>
  <2>1. UNCHANGED <<conns, client>>
    BY <1>2 DEF Stdin, StdinInput, StdinBind, StdinFind, StdinLock, LockPlacement, StdinSend,
                StdinDone, StdinToggle, StdinToggleBoth, StdinExit, sock
  <2> QED
    BY <1>2, <2>1, StdinFrame
<1>3. ASSUME Memcheck PROVE UNCHANGED <<conns, client, pc["socket"]>>
  BY <1>3, MemcheckFrame DEF sock
<1> QED
  BY <1>1, <1>2, <1>3

LEMMA WInvStep == ASSUME IInv, CInv, WInv, [Next]_vars PROVE WInv'
<1> USE DEF IInv
<1>1. \A k \in 1 .. Len(conns') : WroteOnce(k)'
  <2>1. ASSUME (\E t \in Thread : Request(t)) \/ Stdin \/ StdinInput \/ Memcheck
        PROVE  \A k \in 1 .. Len(conns') : WroteOnce(k)'
    BY <2>1, OthersKeepSocket DEF WInv, WroteOnce
  <2>2. ASSUME UNCHANGED vars PROVE \A k \in 1 .. Len(conns') : WroteOnce(k)'
    BY <2>2 DEF WInv, WroteOnce, vars, sock
  <2> QED
    BY <2>1, <2>2, ReadStep, ClientStep DEF Next, Ended, Clients
<1>2. StdinOff'
  <2> USE DEF WInv, StdinOff, Shape, Thread
  <2>1. ASSUME NEW t \in Thread, Request(t) PROVE StdinOff'
    BY <2>1, RequestFrame
  <2>2. ASSUME StdinExit PROVE StdinOff'
    BY <2>2 DEF StdinExit, Goto
  <2>3. ASSUME Stdin \/ StdinInput, ~StdinExit PROVE StdinOff'
    <3>1. exit_sig' = exit_sig /\ pc["stdin"] # "done"
      BY <2>3 DEF Stdin, StdinInput, StdinBind, StdinFind, StdinLock, LockPlacement, StdinSend,
                  StdinDone, StdinToggle, StdinToggleBoth
    <3> QED
      BY <3>1
  <2>4. ASSUME Socket PROVE StdinOff'
    <3>1. exit_sig' = exit_sig
      BY <2>4 DEF Socket, SocketStart, SocketExit, Accept, ReadRequest, ReadEnd, SocketDone
    <3>2. pc["stdin"]' = pc["stdin"]
      BY <2>4, SocketFrame
    <3> QED
      BY <3>1, <3>2
  <2>5. ASSUME Memcheck PROVE StdinOff'
    <3>1. exit_sig' = exit_sig
      BY <2>5, Zenon DEF Memcheck, MemTop, MemSwitch, MemSwitchLock, MemClear, MemFind, MemFound, MemThresh,
                  MemThreshLock, MemMove, MemMoved, MemSleep, LockPlacement
    <3>2. pc["stdin"]' = pc["stdin"]
      BY <2>5, MemcheckFrame
    <3> QED
      BY <3>1, <3>2
  <2>6. ASSUME Clients PROVE StdinOff'
    BY <2>6, ClientFrame
  <2>7. ASSUME UNCHANGED vars PROVE StdinOff'
    BY <2>7 DEF vars
  <2> QED
    BY <2>1, <2>2, <2>3, <2>4, <2>5, <2>6, <2>7 DEF Next, Ended, Clients
<1> QED
  BY <1>1, <1>2 DEF WInv

LEMMA WInvAlways == Spec => [](IInv /\ CInv /\ WInv)
<1>1. Init => WInv
  <2> SUFFICES ASSUME Init PROVE WInv
    OBVIOUS
  <2>1. conns = << >> /\ Len(conns) = 0 /\ exit_sig = FALSE
    BY EmptySeq DEF Init
  <2> QED
    BY <2>1 DEF WInv, StdinOff
<1>2. IInv /\ CInv /\ WInv /\ [Next]_vars => WInv'
  BY WInvStep
<1> QED
  BY <1>1, <1>2, ClientsInOrder, PTL DEF Spec

(* The turns of a call are at most four.                                   *)
LEMMA CallTypes ==
    ASSUME NEW t \in Thread
    PROVE  CallTurns(t) \in 0 .. 4
BY DEF CallTurns

(* A step of a call is one turn less, for its thread alone.                *)
LEMMA RequestTurns ==
    ASSUME IInv, NEW t \in Thread, Request(t)
    PROVE  /\ CallTurns(t)' < CallTurns(t)
           /\ \A u \in Thread : u # t => CallTurns(u)' = CallTurns(u)
<1>1. call \in [Thread -> {None, "lock", "sendmsg", "recvmsg", "migrate"}]
  BY DEF IInv, TypeOK
<1>2. \/ call[t] = "lock" /\ call' = [call EXCEPT ![t] = "sendmsg"]
      \/ call[t] = "sendmsg" /\ call' = [call EXCEPT ![t] = "recvmsg"]
      \/ call[t] = "recvmsg" /\ call' = [call EXCEPT ![t] = "migrate"]
      \/ call[t] = "recvmsg" /\ call' = [call EXCEPT ![t] = None]
      \/ call[t] = "migrate" /\ call' = [call EXCEPT ![t] = None]
  BY DEF Request, LockComm, Sendmsg, Recvmsg, Migrate
<1>3. \A u \in Thread : u # t => call'[u] = call[u]
  BY <1>1, <1>2
<1>4. CallTurns(t)' < CallTurns(t)
  BY <1>1, <1>2 DEF CallTurns, None
<1> QED
  BY <1>3, <1>4 DEF CallTurns

(* A sum of turns.                                                         *)
LEMMA LongCall == \A a, b, c, d \in Int : a + 5 = c /\ b = 4 /\ d \in 0 .. 4 => a + b < c + d
OBVIOUS

(* A step of process_socket after exit.                                    *)
LEMMA SocketTurnsStep ==
    ASSUME IInv, CInv, WInv, Socket, exit_sig
    PROVE  SocketTurns' + CallTurns("socket")' < SocketTurns + CallTurns("socket")
<1> USE DEF IInv, Shape, TypeOK, Thread
<1>1. CASE SocketStart \/ SocketExit
  <2>1. /\ call' = call
        /\ \/ pc["socket"] = "start" /\ pc'["socket"] \in {"select", "done"}
           \/ pc["socket"] = "select" /\ pc'["socket"] = "done"
    BY <1>1 DEF SocketStart, SocketExit, Goto, calls
  <2>2. CallTurns("socket")' = CallTurns("socket")
    BY <2>1 DEF CallTurns
  <2>3. SocketTurns' < SocketTurns /\ SocketTurns' \in Nat /\ SocketTurns \in Nat
    BY <2>1 DEF SocketTurns
  <2> QED
    BY <2>2, <2>3, CallTypes
<1>2. CASE ReadRequest
  <2>1. /\ pc["socket"] = "read" /\ conns[1].data /\ pc'["socket"] = "sent"
        /\ call'["socket"] = "lock"
    BY <1>2 DEF ReadRequest, Goto, Begin
  <2>2. Pending(1) /\ ~Pending(1)'
    BY <1>2, <2>1, ReadStep DEF Pending
  <2>3. SocketTurns = 9 /\ SocketTurns' = 3
    BY <2>1, <2>2 DEF SocketTurns
  <2>4. CallTurns("socket")' = 4
    BY <2>1 DEF CallTurns
  <2> QED
    BY <2>3, <2>4, CallTypes
<1>3. CASE ReadEnd
  <2>1. pc["socket"] = "read" /\ pc'["socket"] = "select" /\ call' = call
    BY <1>3 DEF ReadEnd, Goto, calls
  <2>2. CallTurns("socket")' = CallTurns("socket")
    BY <2>1 DEF CallTurns
  <2>3. SocketTurns' = 1 /\ SocketTurns \in {2, 9}
    BY <2>1 DEF SocketTurns
  <2> QED
    BY <2>2, <2>3, CallTypes
<1>4. CASE SocketDone
  <2>1. pc["socket"] = "sent" /\ pc'["socket"] = "read" /\ call' = call
    BY <1>4 DEF SocketDone, Goto
  <2>2. UNCHANGED <<conns, client>>
    BY <1>4 DEF SocketDone, sock
  <2>3. CallTurns("socket")' = CallTurns("socket") /\ (Pending(1)' <=> Pending(1))
    BY <2>1, <2>2 DEF CallTurns, Pending
  <2>4. SocketTurns' < SocketTurns /\ SocketTurns' \in Nat /\ SocketTurns \in Nat
    BY <2>1, <2>3 DEF SocketTurns
  <2> QED
    BY <2>3, <2>4, CallTypes
<1>5. ~Accept
  BY DEF Accept
<1> QED
  BY <1>1, <1>2, <1>3, <1>4, <1>5 DEF Socket

(* A step of memcheck_placement after exit.                                *)
LEMMA MemcheckTurnsStep ==
    ASSUME IInv, Memcheck, exit_sig
    PROVE  RoundTurns' + CallTurns("memcheck")' < RoundTurns + CallTurns("memcheck")
<1> USE DEF IInv, Shape, TypeOK, Thread
<1>1. CASE MemTop \/ MemSwitch \/ MemThresh \/ MemSleep \/ MemSwitchLock \/ MemThreshLock
  <2>1. /\ call' = call
        /\ \/ pc["memcheck"] = "top" /\ pc'["memcheck"] = "done"
           \/ pc["memcheck"] = "switch" /\ pc'["memcheck"] \in {"busy", "thresh"}
           \/ pc["memcheck"] = "thresh" /\ pc'["memcheck"] \in {"over", "sleep"}
           \/ pc["memcheck"] = "sleep" /\ pc'["memcheck"] = "top"
           \/ pc["memcheck"] = "busy" /\ pc'["memcheck"] = "clear"
           \/ pc["memcheck"] = "over" /\ pc'["memcheck"] = "move"
    <3>1. CASE MemTop
      BY <3>1 DEF MemTop, Goto, calls
    <3>2. CASE MemSwitch
      BY <3>2 DEF MemSwitch, Goto, calls
    <3>3. CASE MemThresh
      BY <3>3 DEF MemThresh, Goto
    <3>4. CASE MemSleep
      BY <3>4 DEF MemSleep, Goto, calls
    <3>5. CASE MemSwitchLock \/ MemThreshLock
      BY <3>5 DEF MemSwitchLock, MemThreshLock, LockPlacement, Goto, calls
    <3> QED
      BY <1>1, <3>1, <3>2, <3>3, <3>4, <3>5
  <2>2. CallTurns("memcheck")' = CallTurns("memcheck")
    BY <2>1 DEF CallTurns
  <2>3. RoundTurns' < RoundTurns /\ RoundTurns' \in Nat /\ RoundTurns \in Nat
    BY <2>1 DEF RoundTurns
  <2> QED
    BY <2>2, <2>3, CallTypes
<1>2. CASE MemClear \/ MemFind \/ MemMove
  <2>1. /\ call'["memcheck"] = "lock"
        /\ \/ pc["memcheck"] = "clear" /\ pc'["memcheck"] = "window"
           \/ pc["memcheck"] = "window" /\ pc'["memcheck"] = "found"
           \/ pc["memcheck"] = "move" /\ pc'["memcheck"] = "moved"
    <3>1. CASE MemClear
      BY <3>1 DEF MemClear, Goto, Begin
    <3>2. CASE MemFind
      <4>1. /\ pc["memcheck"] = "window" /\ pc' = [pc EXCEPT !["memcheck"] = "found"]
            /\ call' = [call EXCEPT !["memcheck"] = "lock"]
        BY <3>2 DEF MemFind, Goto, Begin
      <4> QED
        BY <4>1
    <3>3. CASE MemMove
      BY <3>3 DEF MemMove, Goto, Begin
    <3> QED
      BY <1>2, <3>1, <3>2, <3>3
  <2>2. CallTurns("memcheck")' = 4
    BY <2>1 DEF CallTurns
  <2>3. RoundTurns' + 5 = RoundTurns /\ RoundTurns' \in Nat /\ RoundTurns \in Nat
    BY <2>1 DEF RoundTurns
  <2>4. "memcheck" \in Thread
    OBVIOUS
  <2>5. CallTurns("memcheck") \in 0 .. 4
    BY <2>4, CallTypes
  <2> QED
    <3>1. CallTurns("memcheck")' \in Int /\ CallTurns("memcheck") \in Int
          /\ RoundTurns' \in Int /\ RoundTurns \in Int
      BY <2>2, <2>3, <2>5
    <3> QED
      BY <2>2, <2>3, <2>5, <3>1, LongCall, Zenon
<1>3. CASE MemFound \/ MemMoved
  <2>1. /\ call' = call
        /\ \/ pc["memcheck"] = "found" /\ pc'["memcheck"] = "thresh"
           \/ pc["memcheck"] = "moved" /\ pc'["memcheck"] = "sleep"
    BY <1>3 DEF MemFound, MemMoved, Goto
  <2>2. CallTurns("memcheck")' = CallTurns("memcheck")
    BY <2>1 DEF CallTurns
  <2>3. RoundTurns' < RoundTurns /\ RoundTurns' \in Nat /\ RoundTurns \in Nat
    BY <2>1 DEF RoundTurns
  <2> QED
    BY <2>2, <2>3, CallTypes
<1> QED
  BY <1>1, <1>2, <1>3 DEF Memcheck

(* From exit on the threads take at most 73 more steps together, in any
   interleaving and however long they wait in between: the round of memcheck
   that is under way comes to its end, process_socket serves the connection
   it has and no other, and no client can keep it there with more.         *)
THEOREM ExitIsFinite ==
    Spec => [][exit_sig => /\ TurnsLeft \in 0 .. 73
                           /\ TurnsLeft' <= TurnsLeft
                           /\ DaemonStep => TurnsLeft' < TurnsLeft]_vars
<1> DEFINE A == exit_sig => /\ TurnsLeft \in 0 .. 73
                            /\ TurnsLeft' <= TurnsLeft
                            /\ DaemonStep => TurnsLeft' < TurnsLeft
<1>1. ASSUME IInv, CInv, WInv, Next, exit_sig
      PROVE  /\ TurnsLeft \in 0 .. 73
             /\ TurnsLeft' <= TurnsLeft
             /\ DaemonStep => TurnsLeft' < TurnsLeft
  <2> DEFINE socketCall == CallTurns("socket")
             memcheckCall == CallTurns("memcheck")
  <2> USE <1>1
  <2>1. "socket" \in Thread /\ "memcheck" \in Thread /\ "stdin" \in Thread
    BY DEF Thread
  <2>2. socketCall \in 0 .. 4 /\ memcheckCall \in 0 .. 4
    BY <2>1, CallTypes
  <2>3. SocketTurns \in 0 .. 10 /\ RoundTurns \in 0 .. 55
    BY DEF SocketTurns, RoundTurns
  <2>4. socketCall' \in 0 .. 4 /\ memcheckCall' \in 0 .. 4
    BY DEF CallTurns
  <2>5. SocketTurns' \in 0 .. 10 /\ RoundTurns' \in 0 .. 55
    BY DEF SocketTurns, RoundTurns
  <2>6. TurnsLeft = SocketTurns + socketCall + RoundTurns + memcheckCall
        /\ TurnsLeft' = SocketTurns' + socketCall' + RoundTurns' + memcheckCall'
    BY DEF TurnsLeft
  <2>7. /\ SocketTurns \in Int /\ socketCall \in Int /\ RoundTurns \in Int /\ memcheckCall \in Int
         /\ SocketTurns' \in Int /\ socketCall' \in Int /\ RoundTurns' \in Int /\ memcheckCall' \in Int
    BY <2>2, <2>3, <2>4, <2>5
  <2>a. PICK a, b, c, d, p, q, r, x \in Int :
          /\ a = SocketTurns /\ b = socketCall /\ c = RoundTurns /\ d = memcheckCall
          /\ p = SocketTurns' /\ q = socketCall' /\ r = RoundTurns' /\ x = memcheckCall'
    BY <2>7, Zenon
  <2>b. TurnsLeft = a + b + c + d /\ TurnsLeft' = p + q + r + x
    BY <2>6, <2>a, Zenon
  <2>c. ASSUME SocketTurns' + socketCall' < SocketTurns + socketCall,
               RoundTurns' = RoundTurns, memcheckCall' = memcheckCall
        PROVE  TurnsLeft' < TurnsLeft
    <3>1. p + q < a + b /\ r = c /\ x = d
      BY <2>a, <2>c, Zenon
    <3>2. p + q + r + x < a + b + c + d
      BY <3>1
    <3> QED
      BY <2>b, <3>2, Zenon
  <2>d. ASSUME SocketTurns' = SocketTurns, socketCall' = socketCall,
               RoundTurns' + memcheckCall' < RoundTurns + memcheckCall
        PROVE  TurnsLeft' < TurnsLeft
    <3>1. p = a /\ q = b /\ r + x < c + d
      BY <2>a, <2>d, Zenon
    <3>2. p + q + r + x < a + b + c + d
      BY <3>1
    <3> QED
      BY <2>b, <3>2, Zenon
  <2>8. ASSUME NEW t \in Thread, Request(t) PROVE TurnsLeft' < TurnsLeft
    <3>1. UNCHANGED <<pc, conns, client>>
      BY <2>8, RequestFrame DEF sock
    <3>2. SocketTurns' = SocketTurns /\ RoundTurns' = RoundTurns
      BY <3>1 DEF SocketTurns, RoundTurns, Pending
    <3>3. t # "stdin"
      <4>1. call["stdin"] = None
        BY DEF WInv, StdinOff, IInv, CallersWait
      <4> QED
        BY <2>8, <4>1 DEF Request, LockComm, Sendmsg, Recvmsg, Migrate, None
    <3>4. t \in {"socket", "memcheck"}
      BY <3>3 DEF Thread
    <3>5. /\ CallTurns(t)' < CallTurns(t)
          /\ \A u \in Thread : u # t => CallTurns(u)' = CallTurns(u)
      BY <2>8, RequestTurns
    <3>6. \/ socketCall' < socketCall /\ memcheckCall' = memcheckCall
          \/ socketCall' = socketCall /\ memcheckCall' < memcheckCall
      BY <2>1, <3>4, <3>5
    <3>7. \/ /\ SocketTurns' + socketCall' < SocketTurns + socketCall
             /\ RoundTurns' = RoundTurns /\ memcheckCall' = memcheckCall
          \/ /\ SocketTurns' = SocketTurns /\ socketCall' = socketCall
             /\ RoundTurns' + memcheckCall' < RoundTurns + memcheckCall
      BY <2>2, <2>3, <2>4, <2>5, <3>2, <3>6
    <3>8. CASE /\ SocketTurns' + socketCall' < SocketTurns + socketCall
               /\ RoundTurns' = RoundTurns /\ memcheckCall' = memcheckCall
      <4>1. SocketTurns' + socketCall' < SocketTurns + socketCall
        BY <3>8, Zenon
      <4>2. RoundTurns' = RoundTurns /\ memcheckCall' = memcheckCall
        BY <3>8, Zenon
      <4> QED
        BY <2>c, <4>1, <4>2, Zenon
    <3>9. CASE /\ SocketTurns' = SocketTurns /\ socketCall' = socketCall
               /\ RoundTurns' + memcheckCall' < RoundTurns + memcheckCall
      BY <2>d, <3>9, Zenon
    <3> QED
      BY <3>7, <3>8, <3>9, Zenon
  <2>9. ~Stdin /\ ~StdinInput
    <3>1. pc["stdin"] = "done"
      BY DEF WInv, StdinOff
    <3> QED
      BY <3>1 DEF Stdin, StdinInput, StdinBind, StdinFind, StdinLock, LockPlacement, StdinSend,
                  StdinDone, StdinToggle, StdinToggleBoth, StdinExit
  <2>10. ASSUME Socket PROVE TurnsLeft' < TurnsLeft
    <3>1. SocketTurns' + socketCall' < SocketTurns + socketCall
      BY <2>10, SocketTurnsStep
    <3>2. UNCHANGED <<pc["memcheck"], call["memcheck"]>>
      BY <2>10, SocketFrame DEF IInv, MemcheckState
    <3>3. RoundTurns' = RoundTurns /\ memcheckCall' = memcheckCall
      BY <3>2 DEF RoundTurns, CallTurns
    <3> QED
      BY <2>c, <3>1, <3>3, Zenon
  <2>11. ASSUME Memcheck PROVE TurnsLeft' < TurnsLeft
    <3>1. RoundTurns' + memcheckCall' < RoundTurns + memcheckCall
      BY <2>11, MemcheckTurnsStep
    <3>2. UNCHANGED <<conns, client, pc["socket"], call["socket"]>>
      BY <2>11, OthersKeepSocket, MemcheckFrame DEF IInv
    <3>3. SocketTurns' = SocketTurns /\ socketCall' = socketCall
      BY <3>2 DEF SocketTurns, CallTurns, Pending
    <3> QED
      BY <2>d, <3>1, <3>3, Zenon
  <2>12. ASSUME Clients PROVE TurnsLeft' <= TurnsLeft
    <3>1. UNCHANGED <<pc, call, req>> /\ \A k \in 1 .. Len(conns) : Pending(k)' => Pending(k)
      BY <2>12, ClientFrame, ClientStep DEF calls
    <3>2. pc["socket"] \in {"read", "sent"} => 1 \in 1 .. Len(conns)
      <4>1. conns \in Seq(Connection) /\ (pc["socket"] \in {"read", "sent"} => conns # << >>)
        BY DEF IInv, Shape
      <4> QED
        BY <4>1
    <3>3. pc["socket"] \in {"read", "sent"} => (Pending(1)' => Pending(1))
      BY <3>1, <3>2
    <3>4. SocketTurns' <= SocketTurns
      BY <3>1, <3>3 DEF SocketTurns
    <3>5. RoundTurns' = RoundTurns /\ socketCall' = socketCall /\ memcheckCall' = memcheckCall
      BY <3>1 DEF RoundTurns, CallTurns
    <3> QED
      <4>1. p <= a /\ q = b /\ r = c /\ x = d
        BY <2>a, <3>4, <3>5, Zenon
      <4>2. p + q + r + x <= a + b + c + d
        BY <4>1
      <4> QED
        BY <2>b, <4>2, Zenon
  <2>13. TurnsLeft \in 0 .. 73 /\ TurnsLeft' \in Int
    BY <2>2, <2>3, <2>6, <2>7
  <2>14. ASSUME DaemonStep PROVE TurnsLeft' < TurnsLeft
    BY <2>8, <2>9, <2>10, <2>11, <2>14 DEF DaemonStep
  <2>15. CASE Ended
    <3>1. UNCHANGED <<pc, call, conns, client>>
      BY <2>15 DEF Ended, vars, calls, sock
    <3>2. SocketTurns' = SocketTurns /\ RoundTurns' = RoundTurns
          /\ socketCall' = socketCall /\ memcheckCall' = memcheckCall
      BY <3>1 DEF SocketTurns, RoundTurns, CallTurns, Pending
    <3>3. TurnsLeft' = TurnsLeft
      BY <2>6, <3>2, Zenon
    <3> QED
      BY <2>13, <2>14, <3>3
  <2>16. CASE DaemonStep
    BY <2>13, <2>14, <2>16
  <2>17. CASE Clients
    BY <2>12, <2>13, <2>14, <2>17
  <2> QED
    BY <2>15, <2>16, <2>17 DEF Next, DaemonStep, Clients
<1>2. IInv /\ CInv /\ WInv /\ [Next]_vars => [A]_vars
  BY <1>1
<1> QED
  BY <1>2, WInvAlways, PTL DEF Spec
=============================================================================
