---------------------------- MODULE NetlinkReply ----------------------------
(***************************************************************************)
(* How a reply gets from found_addrs in the kernel module to candidates in *)
(* the daemon: process_req appends its return value to what the walk left  *)
(* in found_addrs, placement_nl_process_msg (src/src/ambix_hyb-mod.c) cuts *)
(* the array into netlink messages, and send_req (src/src/ambix_hyb-ctl.c) *)
(* puts them together again.                                               *)
(*                                                                         *)
(* Both arrays live as long as their program, so a reply overwrites the    *)
(* beginning of what earlier ones left there: nothing but the return value *)
(* at its end tells the daemon where it stops.                             *)
(***************************************************************************)
EXTENDS Integers, Sequences

CONSTANTS
    MAX_N_PER_PACKET, MAX_PACKETS,
    ENTRY, USED,     \* sizeof(addr_info_t), and the bytes before its tail padding
    Entry            \* contents of an array element

ASSUME PacketAssumption ==
    /\ MAX_N_PER_PACKET \in Nat \ {0} /\ MAX_PACKETS \in Nat \ {0}
    /\ MAX_N_PER_PACKET * MAX_PACKETS >= 2
    /\ ENTRY \in Nat /\ USED \in Nat /\ USED < ENTRY

MAX_N_FIND == MAX_N_PER_PACKET * MAX_PACKETS - 1
MAX_N_SWITCH == (MAX_N_FIND - 1) \div 2

AllocBytes_Parenthesised == ENTRY * (MAX_N_PER_PACKET * MAX_PACKETS - 1)

\* sizeof(addr_info_t) * MAX_N_FIND, where MAX_N_FIND is a macro without parentheses.
AllocBytes == ENTRY * MAX_N_PER_PACKET * MAX_PACKETS - 1

\* Elements of found_addrs and candidates a reply can touch.
Slot == 0 .. MAX_N_PER_PACKET * MAX_PACKETS - 1

VARIABLES
    at,            \* where the exchange is
    found_addrs, n_found,        \* of the module
    skb,           \* the messages put into the reply
    buffer,        \* the messages send_req still has to copy
    candidates, curr_pointer     \* of the daemon

module == <<found_addrs, n_found>>
replyVars == <<at, module, skb, buffer, candidates, curr_pointer>>

-----------------------------------------------------------------------------
\* Entries in a reply: pages and the return value; in a switch two halves as long
\* as each other and the separator between them; the return value alone.
ReplyLength ==
    {n + 1 : n \in 0 .. MAX_N_FIND} \cup {2 * h + 2 : h \in 0 .. MAX_N_SWITCH}

ReplyInit ==
    /\ at = "put"
    /\ found_addrs \in [Slot -> Entry] /\ n_found \in ReplyLength
    /\ skb = << >> /\ buffer = << >>
    /\ candidates \in [Slot -> Entry] /\ curr_pointer = 0

last_packet_remainder == n_found % MAX_N_PER_PACKET
last_packet_entries ==
    IF last_packet_remainder = 0 THEN MAX_N_PER_PACKET ELSE last_packet_remainder

required_packets_WholeOnly == n_found \div MAX_N_PER_PACKET

required_packets ==
    n_found \div MAX_N_PER_PACKET + (IF last_packet_remainder # 0 THEN 1 ELSE 0)

\* The message that carries n entries from found_addrs + i * MAX_N_PER_PACKET on.
Message(i, n) == [k \in 1 .. n |-> found_addrs[i * MAX_N_PER_PACKET + k - 1]]

\* nlmsg_new fails: there is no reply, and the daemon waits in recvmsg for ever.
NoSkb ==
    /\ at = "put" /\ skb = << >>
    /\ at' = "lost"
    /\ UNCHANGED <<module, skb, buffer, candidates, curr_pointer>>

\* The loop over all but the last message.
PutMessage ==
    /\ at = "put" /\ Len(skb) < required_packets - 1
    /\ skb' = Append(skb, Message(Len(skb), MAX_N_PER_PACKET))
    /\ UNCHANGED <<at, module, buffer, candidates, curr_pointer>>

PutLastMessage ==
    /\ at = "put" /\ Len(skb) >= required_packets - 1
    /\ skb' = Append(skb, Message(Len(skb), last_packet_entries))
    /\ at' = "sent"
    /\ UNCHANGED <<module, buffer, candidates, curr_pointer>>

\* send_req: recvmsg takes the whole datagram.
Recvmsg ==
    /\ at = "sent"
    /\ buffer' = skb /\ curr_pointer' = 0 /\ at' = "copy"
    /\ UNCHANGED <<module, skb, candidates>>

\* One message: its payload goes where the one before it ended.
CopyMessage ==
    /\ at = "copy" /\ buffer # << >>
    /\ LET data == Head(buffer) IN
         /\ candidates' = [k \in Slot |->
              IF curr_pointer <= k /\ k < curr_pointer + Len(data)
                THEN data[k - curr_pointer + 1] ELSE candidates[k]]
         /\ curr_pointer' = curr_pointer + Len(data)
    /\ buffer' = Tail(buffer)
    /\ UNCHANGED <<at, module, skb>>

CopyEnd ==
    /\ at = "copy" /\ buffer = << >>
    /\ at' = "count"
    /\ UNCHANGED <<module, skb, buffer, candidates, curr_pointer>>

ReplyNext ==
    \/ NoSkb \/ PutMessage \/ PutLastMessage
    \/ Recvmsg \/ CopyMessage \/ CopyEnd

ReplySpec == ReplyInit /\ [][ReplyNext]_replyVars

-----------------------------------------------------------------------------
ReplyTypeOK ==
    /\ at \in {"put", "lost", "sent", "copy", "count"}
    /\ found_addrs \in [Slot -> Entry] /\ candidates \in [Slot -> Entry]
    /\ n_found \in Nat /\ curr_pointer \in Nat

(* What send_find reads is the reply the module built, whole and in order,
   whether its length is a multiple of MAX_N_PER_PACKET or not: no entry of
   an earlier reply stands in it.                                          *)
Delivered ==
    at = "count" =>
        /\ curr_pointer = n_found
        /\ \A k \in 0 .. n_found - 1 : candidates[k] = found_addrs[k]

(* No field of an entry is read or written behind the end of the arrays, and
   no message behind the end of nlmh_array.  A full reply has one entry more
   than MAX_N_FIND; the arrays have room for it only because the macro in
   malloc(sizeof(addr_info_t) * MAX_N_FIND) is not parenthesised, and the
   byte that is still missing is padding.                                  *)
ArraysHoldReply ==
    /\ \A n \in {n_found, curr_pointer} : n > 0 => (n - 1) * ENTRY + USED <= AllocBytes
    /\ Len(skb) <= MAX_PACKETS
=============================================================================
