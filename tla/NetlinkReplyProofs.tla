------------------------ MODULE NetlinkReplyProofs ------------------------
(***************************************************************************)
(* Proofs about NetlinkReply, for messages of any number of entries, any   *)
(* number of messages and any contents: the reply the daemon reads is the  *)
(* one the module built, and it fits the arrays of both.                   *)
(***************************************************************************)
EXTENDS NetlinkReply, TLAPS

-----------------------------------------------------------------------------
(* Arithmetic.                                                             *)

(* Division with a remainder, by any number of entries in a message.       *)
LEMMA DivMod ==
    ASSUME NEW n \in Nat, NEW p \in Nat \ {0}
    PROVE  n \div p \in Nat /\ n % p \in 0 .. p - 1 /\ n = p * (n \div p) + (n % p)
OBVIOUS

(* Messages are compared by what they hold.                                *)
LEMMA FewerMessages ==
    ASSUME NEW q \in Int, NEW r \in Int, NEW p \in Nat \ {0}, q * p < r * p
    PROVE  q < r
OBVIOUS

LEMMA Monotone ==
    ASSUME NEW q \in Int, NEW r \in Int, NEW p \in Nat, q <= r
    PROVE  q * p <= r * p
OBVIOUS

LEMMA OneMore ==
    ASSUME NEW q \in Int, NEW p \in Int
    PROVE  (q + 1) * p = q * p + p /\ (q - 1) * p + p = q * p
OBVIOUS

(* required_packets messages, of which all but the last are full, hold n
   entries exactly, and there are no more than were allocated.             *)
LEMMA MessagesHold ==
    ASSUME NEW n \in Nat \ {0}, NEW p \in Nat \ {0}, NEW k \in Nat, n <= k * p
    PROVE  LET r == n \div p + (IF n % p # 0 THEN 1 ELSE 0)
               l == IF n % p = 0 THEN p ELSE n % p
           IN  r \in 1 .. k /\ l \in 1 .. p /\ n = (r - 1) * p + l
<1> DEFINE q == n \div p
           m == n % p
<1>1. q \in Nat /\ m \in 0 .. p - 1 /\ n = q * p + m
  BY DivMod
<1> SUFFICES
      LET r == q + (IF m # 0 THEN 1 ELSE 0)
          l == IF m = 0 THEN p ELSE m
      IN  r \in 1 .. k /\ l \in 1 .. p /\ n = (r - 1) * p + l
  OBVIOUS
<1> HIDE DEF q, m
<1>2. CASE m = 0
  <2>1. n = q * p
    BY <1>1, <1>2
  <2>2. q # 0
    BY <1>1, <2>1
  <2>3. k * p < (k + 1) * p
    BY OneMore
  <2>4. q < k + 1
    BY <1>1, <2>1, <2>3, FewerMessages
  <2>5. (q - 1) * p + p = n
    BY <1>1, <2>1, OneMore
  <2> QED
    BY <1>1, <1>2, <2>2, <2>4, <2>5
<1>3. CASE m # 0
  <2>1. q * p < k * p
    BY <1>1, <1>3
  <2>2. q < k
    BY <1>1, <2>1, FewerMessages
  <2>3. (q + 1 - 1) * p + m = n
    BY <1>1
  <2> QED
    BY <1>1, <1>3, <2>2, <2>3
<1> QED
  BY <1>2, <1>3

Room == MAX_PACKETS * MAX_N_PER_PACKET

(* A reply has an entry at least, and no more than there is room for.      *)
LEMMA ReplyFits == ReplyLength \subseteq 1 .. Room
<1>1. MAX_N_FIND \in Nat /\ MAX_N_FIND = Room - 1 /\ Room >= 2 /\ Room \in Nat
  BY PacketAssumption DEF MAX_N_FIND, Room
<1>2. MAX_N_SWITCH \in Nat /\ 2 * MAX_N_SWITCH <= MAX_N_FIND - 1
  BY <1>1 DEF MAX_N_SWITCH
<1> QED
  BY <1>1, <1>2 DEF ReplyLength

-----------------------------------------------------------------------------
(* The inductive invariant.                                                *)

Types ==
    /\ at \in {"put", "lost", "sent", "copy", "count"}
    /\ found_addrs \in [Slot -> Entry] /\ n_found \in 1 .. Room
    /\ candidates \in [Slot -> Entry] /\ curr_pointer \in Nat
    /\ skb \in Seq(Seq(Entry)) /\ buffer \in Seq(Seq(Entry))

\* The message the j-th place of a reply is for.
Part(j) ==
    Message(j - 1, IF j < required_packets THEN MAX_N_PER_PACKET ELSE last_packet_entries)

(* The reply grows message by message, each at its place.                  *)
Putting ==
    /\ Len(skb) <= required_packets
    /\ at = "put" => Len(skb) < required_packets
    /\ at \in {"sent", "copy", "count"} => Len(skb) = required_packets
    /\ \A j \in 1 .. Len(skb) : skb[j] = Part(j)

Copied == Len(skb) - Len(buffer)

(* What is still to be copied is the end of the reply, and curr_pointer is
   where it belongs.                                                       *)
Copying ==
    at = "copy" =>
        /\ Len(buffer) <= Len(skb)
        /\ \A k \in 1 .. Len(buffer) : buffer[k] = skb[Copied + k]
        /\ curr_pointer = IF Copied = required_packets THEN n_found
                                                       ELSE Copied * MAX_N_PER_PACKET

(* Everything before curr_pointer is there.                                *)
Arrived ==
    /\ curr_pointer <= n_found
    /\ at = "count" => curr_pointer = n_found
    /\ at \in {"copy", "count"} =>
          \A k \in 0 .. curr_pointer - 1 : candidates[k] = found_addrs[k]

IInv == Types /\ Putting /\ Copying /\ Arrived

-----------------------------------------------------------------------------
(* Facts about the messages of one reply.                                  *)

LEMMA Sizes ==
    ASSUME Types
    PROVE  /\ required_packets \in 1 .. MAX_PACKETS
           /\ last_packet_entries \in 1 .. MAX_N_PER_PACKET
           /\ n_found = (required_packets - 1) * MAX_N_PER_PACKET + last_packet_entries
<1>1. n_found \in Nat \ {0} /\ n_found <= MAX_PACKETS * MAX_N_PER_PACKET
  BY PacketAssumption DEF Types, Room
<1> QED
  BY <1>1, PacketAssumption, MessagesHold
     DEF required_packets, last_packet_entries, last_packet_remainder

LEMMA Elements == Room \in Nat /\ Slot = 0 .. Room - 1
<1>1. MAX_N_PER_PACKET * MAX_PACKETS = Room
  BY PacketAssumption DEF Room
<1> QED
  BY <1>1, PacketAssumption DEF Room, Slot

(* A message within the array is a sequence of its elements.               *)
LEMMA MessageElements ==
    ASSUME Types, NEW i \in Nat, NEW n \in Nat, i * MAX_N_PER_PACKET + n <= Room
    PROVE  /\ Message(i, n) \in Seq(Entry)
           /\ Len(Message(i, n)) = n
           /\ \A k \in 1 .. n : Message(i, n)[k] = found_addrs[i * MAX_N_PER_PACKET + k - 1]
<1> DEFINE b == i * MAX_N_PER_PACKET
<1>1. b \in Nat
  BY PacketAssumption
<1>2. \A k \in 1 .. n : b + k - 1 \in Slot
  BY <1>1, Elements
<1> HIDE DEF b
<1>3. \A k \in 1 .. n : found_addrs[b + k - 1] \in Entry
  BY <1>2 DEF Types
<1>4. Message(i, n) = [k \in 1 .. n |-> found_addrs[b + k - 1]]
  BY DEF Message, b
<1> QED
  BY <1>3, <1>4 DEF b

(* The j-th message carries the entries from (j - 1) * MAX_N_PER_PACKET to
   the next full multiple, or to the end of the reply.                     *)
LEMMA PartElements ==
    ASSUME Types, NEW j \in 1 .. required_packets
    PROVE  LET b == (j - 1) * MAX_N_PER_PACKET
               n == IF j < required_packets THEN MAX_N_PER_PACKET ELSE last_packet_entries
           IN  /\ b \in Nat /\ n \in 1 .. MAX_N_PER_PACKET /\ b + n <= n_found
               /\ b + n = (IF j = required_packets THEN n_found ELSE j * MAX_N_PER_PACKET)
               /\ Part(j) \in Seq(Entry) /\ Len(Part(j)) = n
               /\ \A k \in 1 .. n : Part(j)[k] = found_addrs[b + k - 1]
<1> DEFINE b == (j - 1) * MAX_N_PER_PACKET
           n == IF j < required_packets THEN MAX_N_PER_PACKET ELSE last_packet_entries
<1> USE PacketAssumption
<1>1. /\ required_packets \in 1 .. MAX_PACKETS
      /\ last_packet_entries \in 1 .. MAX_N_PER_PACKET
      /\ n_found = (required_packets - 1) * MAX_N_PER_PACKET + last_packet_entries
  BY Sizes
<1>2. b \in Nat /\ n \in 1 .. MAX_N_PER_PACKET
  BY <1>1
<1>3. b + n = (IF j = required_packets THEN n_found ELSE j * MAX_N_PER_PACKET)
  BY <1>1, OneMore
<1>4. b + n <= n_found
  <2>1. CASE j = required_packets
    BY <2>1, <1>2, <1>3
  <2>2. CASE j < required_packets
    <3>1. j * MAX_N_PER_PACKET <= (required_packets - 1) * MAX_N_PER_PACKET
      BY <1>1, <2>2, Monotone
    <3> QED
      BY <1>1, <1>3, <2>2, <3>1
  <2> QED
    BY <1>1, <2>1, <2>2
<1>5. b + n <= Room
  <2>1. n_found \in Nat /\ n_found <= Room
    BY Elements DEF Types
  <2> HIDE DEF b, n
  <2> QED
    BY <1>2, <1>4, <2>1, Elements
<1>6. Part(j) = Message(j - 1, n)
  BY DEF Part
<1>7. j - 1 \in Nat
  BY <1>1
<1>8. /\ Part(j) \in Seq(Entry) /\ Len(Part(j)) = n
      /\ \A k \in 1 .. n : Part(j)[k] = found_addrs[b + k - 1]
  <2>1. PICK i \in Nat : i = j - 1
    BY <1>7
  <2>2. b = i * MAX_N_PER_PACKET /\ n \in Nat
    BY <1>2, <2>1
  <2>3. Part(j) = Message(i, n)
    BY <1>6, <2>1
  <2> HIDE DEF b, n
  <2>4. i * MAX_N_PER_PACKET + n <= Room
    BY <1>5, <2>2
  <2>5. /\ Message(i, n) \in Seq(Entry) /\ Len(Message(i, n)) = n
        /\ \A k \in 1 .. n : Message(i, n)[k] = found_addrs[i * MAX_N_PER_PACKET + k - 1]
    BY <2>2, <2>4, MessageElements, Zenon
  <2> QED
    BY <2>2, <2>3, <2>5, Zenon
<1> QED
  BY <1>2, <1>3, <1>4, <1>8
-----------------------------------------------------------------------------
(* The invariant is inductive.                                             *)

LEMMA IInvInit == ReplyInit => IInv
<1> SUFFICES ASSUME ReplyInit PROVE IInv
  OBVIOUS
<1>1. Types
  BY ReplyFits DEF ReplyInit, Types
<1>2. required_packets \in 1 .. MAX_PACKETS
  BY <1>1, Sizes
<1>3. skb = << >> /\ Len(skb) = 0 /\ at = "put" /\ curr_pointer = 0
  BY DEF ReplyInit
<1>4. Putting
  BY <1>2, <1>3 DEF Putting
<1>5. Copying /\ Arrived
  BY <1>1, <1>3 DEF Copying, Arrived, Types
<1> QED
  BY <1>1, <1>4, <1>5 DEF IInv

\* A step that builds or copies leaves the array and the length of the reply alone.
LEMMA ReplyFixed ==
    ASSUME UNCHANGED module
    PROVE  /\ required_packets' = required_packets
           /\ last_packet_entries' = last_packet_entries
           /\ \A j : Part(j)' = Part(j)
BY DEF module, required_packets, last_packet_entries, last_packet_remainder, Part, Message

LEMMA PutMessageStep == ASSUME IInv, PutMessage PROVE IInv'
<1> USE DEF IInv
<1>1. Len(skb) \in Nat /\ required_packets \in 1 .. MAX_PACKETS
  BY Sizes DEF Types
<1> DEFINE j == Len(skb) + 1
           m == Message(Len(skb), MAX_N_PER_PACKET)
<1>2. j \in 1 .. required_packets /\ j < required_packets
  BY <1>1, PacketAssumption DEF PutMessage
<1>3. m = Part(j)
  BY <1>1, <1>2 DEF Part
<1>4. m \in Seq(Entry)
  BY <1>2, <1>3, PartElements
<1>5. skb' = Append(skb, m) /\ UNCHANGED <<at, module, buffer, candidates, curr_pointer>>
  BY DEF PutMessage
<1> HIDE DEF m
<1>6. skb' \in Seq(Seq(Entry)) /\ Len(skb') = j
  BY <1>4, <1>5 DEF Types
<1>7. Types'
  BY <1>5, <1>6 DEF Types, module
<1>8. \A k \in 1 .. j : skb'[k] = Part(k)
  BY <1>1, <1>3, <1>5 DEF Types, Putting
<1>9. Putting'
  BY <1>1, <1>2, <1>5, <1>6, <1>8, ReplyFixed DEF Putting, PutMessage
<1>10. Copying' /\ Arrived'
  BY <1>5 DEF Copying, Arrived, PutMessage, module
<1> QED
  BY <1>7, <1>9, <1>10

LEMMA PutLastMessageStep == ASSUME IInv, PutLastMessage PROVE IInv'
<1> USE DEF IInv
<1>1. Len(skb) \in Nat /\ required_packets \in 1 .. MAX_PACKETS
  BY Sizes DEF Types
<1> DEFINE j == Len(skb) + 1
           m == Message(Len(skb), last_packet_entries)
<1>2. j = required_packets /\ j \in 1 .. required_packets
  BY <1>1, PacketAssumption DEF PutLastMessage, Putting
<1>3. m = Part(j)
  BY <1>1, <1>2 DEF Part
<1>4. m \in Seq(Entry)
  BY <1>2, <1>3, PartElements
<1>5. skb' = Append(skb, m) /\ at' = "sent" /\ UNCHANGED <<module, buffer, candidates, curr_pointer>>
  BY DEF PutLastMessage
<1> HIDE DEF m
<1>6. skb' \in Seq(Seq(Entry)) /\ Len(skb') = j
  BY <1>4, <1>5 DEF Types
<1>7. Types'
  BY <1>5, <1>6 DEF Types, module
<1>8. \A k \in 1 .. j : skb'[k] = Part(k)
  BY <1>1, <1>3, <1>5 DEF Types, Putting
<1>9. Putting'
  BY <1>1, <1>2, <1>5, <1>6, <1>8, ReplyFixed DEF Putting
<1>10. Copying' /\ Arrived'
  BY <1>5 DEF Copying, Arrived, module
<1> QED
  BY <1>7, <1>9, <1>10

LEMMA RecvmsgStep == ASSUME IInv, Recvmsg PROVE IInv'
<1> USE DEF IInv
<1>1. Len(skb) = required_packets /\ required_packets \in 1 .. MAX_PACKETS
  BY Sizes DEF Recvmsg, Putting
<1>2. /\ buffer' = skb /\ curr_pointer' = 0 /\ at' = "copy"
      /\ UNCHANGED <<module, skb, candidates>>
  BY DEF Recvmsg
<1>3. Types'
  BY <1>2 DEF Types, module
<1>4. Putting'
  BY <1>1, <1>2, ReplyFixed DEF Putting
<1>5. Copied' = 0
  BY <1>1, <1>2, PacketAssumption DEF Copied
<1>6. Copying'
  BY <1>1, <1>2, <1>5, ReplyFixed, PacketAssumption DEF Copying
<1>7. Arrived'
  BY <1>2, <1>3 DEF Arrived, Types
<1> QED
  BY <1>3, <1>4, <1>6, <1>7
(* The message at the head of the buffer goes behind those that were copied
   before it, and it is the part of the reply that belongs there.          *)
LEMMA CopyMessageStep == ASSUME IInv, CopyMessage PROVE IInv'
<1> USE DEF IInv
<1> DEFINE R == required_packets
           c == Copied
           data == Head(buffer)
           n == IF c + 1 < R THEN MAX_N_PER_PACKET ELSE last_packet_entries
<1>1. Len(skb) = R /\ R \in 1 .. MAX_PACKETS
  BY Sizes DEF CopyMessage, Putting
<1>2. /\ at = "copy" /\ buffer # << >>
      /\ candidates' = [k \in Slot |->
             IF curr_pointer <= k /\ k < curr_pointer + Len(data)
               THEN data[k - curr_pointer + 1] ELSE candidates[k]]
      /\ curr_pointer' = curr_pointer + Len(data) /\ buffer' = Tail(buffer)
      /\ UNCHANGED <<at, module, skb>>
  BY DEF CopyMessage
<1>3. /\ Len(buffer) \in 1 .. R /\ data = buffer[1]
      /\ Len(buffer') = Len(buffer) - 1 /\ buffer' \in Seq(Seq(Entry))
      /\ \A k \in 1 .. Len(buffer') : buffer'[k] = buffer[k + 1]
  BY <1>1, <1>2 DEF Types, Copying
<1>4. c \in 0 .. R - 1 /\ c + 1 \in 1 .. R /\ Copied' = c + 1
  <2>1. c = R - Len(buffer) /\ R \in Nat
    BY <1>1, PacketAssumption DEF Copied
  <2>2. Copied' = R - Len(buffer')
    BY <1>1, <1>2 DEF Copied
  <2> HIDE DEF c, R
  <2> QED
    BY <1>3, <2>1, <2>2
<1>5. data = Part(c + 1)
  BY <1>1, <1>2, <1>3, <1>4 DEF Copying, Putting
<1>6. curr_pointer = c * MAX_N_PER_PACKET
  BY <1>1, <1>2, <1>4 DEF Copying
<1>7. /\ curr_pointer \in Nat /\ n \in 1 .. MAX_N_PER_PACKET
      /\ curr_pointer + n <= n_found
      /\ curr_pointer + n = (IF c + 1 = R THEN n_found ELSE (c + 1) * MAX_N_PER_PACKET)
      /\ data \in Seq(Entry) /\ Len(data) = n
      /\ \A k \in 1 .. n : data[k] = found_addrs[curr_pointer + k - 1]
  <2>1. c + 1 - 1 = c
    BY <1>4
  <2> HIDE DEF c
  <2> QED
    BY <1>4, <1>5, <1>6, <2>1, PartElements
<1> HIDE DEF data, c, n, R
<1>8. n \in Nat /\ curr_pointer' = curr_pointer + n /\ n_found \in Nat /\ n_found <= Room
  BY <1>2, <1>7, PacketAssumption, Elements DEF Types
<1>9. \A k \in Slot : curr_pointer <= k /\ k < curr_pointer + n =>
          data[k - curr_pointer + 1] = found_addrs[k]
  <2> SUFFICES ASSUME NEW k \in Slot, curr_pointer <= k, k < curr_pointer + n
               PROVE  data[k - curr_pointer + 1] = found_addrs[k]
    OBVIOUS
  <2>1. k - curr_pointer + 1 \in 1 .. n /\ curr_pointer + (k - curr_pointer + 1) - 1 = k
    BY <1>7, <1>8, Elements
  <2> QED
    BY <1>7, <2>1
<1>10. \A k \in Slot : candidates'[k] =
          IF curr_pointer <= k /\ k < curr_pointer + n THEN found_addrs[k] ELSE candidates[k]
  BY <1>2, <1>7, <1>9
<1>11. Types'
  <2>1. candidates' \in [Slot -> Entry]
    BY <1>2, <1>7, <1>9 DEF Types
  <2> QED
    BY <1>2, <1>3, <1>7, <1>8, <2>1 DEF Types, module
<1>12. Putting'
  BY <1>2, ReplyFixed DEF Putting
<1>13. Copying'
  <2>1. Len(buffer') <= Len(skb')
    BY <1>1, <1>2, <1>3
  <2>2. \A k \in 1 .. Len(buffer') : buffer'[k] = skb'[Copied' + k]
    <3> SUFFICES ASSUME NEW k \in 1 .. Len(buffer') PROVE buffer'[k] = skb'[Copied' + k]
      OBVIOUS
    <3>1. k + 1 \in 1 .. Len(buffer) /\ c + (k + 1) = Copied' + k
      BY <1>3, <1>4
    <3>2. buffer[k + 1] = skb[c + (k + 1)]
      BY <1>2, <3>1 DEF Copying, c
    <3> QED
      BY <1>2, <1>3, <3>1, <3>2
  <2>3. curr_pointer' = IF Copied' = R THEN n_found ELSE Copied' * MAX_N_PER_PACKET
    BY <1>4, <1>7, <1>8
  <2> QED
    BY <1>2, <2>1, <2>2, <2>3, ReplyFixed DEF Copying, R, module
<1>14. Arrived'
  <2>1. \A k \in 0 .. curr_pointer' - 1 : k \in Slot
    BY <1>7, <1>8, Elements
  <2>2. \A k \in 0 .. curr_pointer' - 1 : candidates'[k] = found_addrs[k]
    <3> SUFFICES ASSUME NEW k \in 0 .. curr_pointer' - 1 PROVE candidates'[k] = found_addrs[k]
      OBVIOUS
    <3>1. CASE k < curr_pointer
      BY <1>2, <1>7, <1>8, <1>10, <2>1, <3>1 DEF Arrived
    <3>2. CASE curr_pointer <= k
      BY <1>7, <1>8, <1>10, <2>1, <3>2
    <3> QED
      BY <1>7, <3>1, <3>2
  <2> QED
    BY <1>2, <1>7, <1>8, <2>2 DEF Arrived, module
<1> QED
  BY <1>11, <1>12, <1>13, <1>14

LEMMA CopyEndStep == ASSUME IInv, CopyEnd PROVE IInv'
<1> USE DEF IInv
<1>1. /\ at = "copy" /\ buffer = << >> /\ at' = "count"
      /\ UNCHANGED <<module, skb, buffer, candidates, curr_pointer>>
  BY DEF CopyEnd
<1>2. Len(skb) = required_packets /\ required_packets \in Nat
  BY <1>1, Sizes DEF Putting
<1>3. curr_pointer = n_found
  BY <1>1, <1>2 DEF Copying, Copied
<1>4. Types' /\ Copying'
  BY <1>1 DEF Types, module, Copying
<1>5. Putting'
  BY <1>1, ReplyFixed DEF Putting
<1>6. Arrived'
  BY <1>1, <1>3 DEF Arrived, module
<1> QED
  BY <1>4, <1>5, <1>6

LEMMA IInvStep == IInv /\ [ReplyNext]_replyVars => IInv'
<1> SUFFICES ASSUME IInv, [ReplyNext]_replyVars PROVE IInv'
  OBVIOUS
<1>1. CASE NoSkb
  BY <1>1, ReplyFixed DEF NoSkb, IInv, Types, Putting, Copying, Arrived, module
<1>2. CASE PutMessage
  BY <1>2, PutMessageStep
<1>3. CASE PutLastMessage
  BY <1>3, PutLastMessageStep
<1>4. CASE Recvmsg
  BY <1>4, RecvmsgStep
<1>5. CASE CopyMessage
  BY <1>5, CopyMessageStep
<1>6. CASE CopyEnd
  BY <1>6, CopyEndStep
<1>7. CASE UNCHANGED replyVars
  BY <1>7, ReplyFixed
     DEF replyVars, IInv, Types, Putting, Copying, Copied, Arrived, module
<1> QED
  BY <1>1, <1>2, <1>3, <1>4, <1>5, <1>6, <1>7 DEF ReplyNext

(* The inductive invariant: what is put, taken apart and copied so far.    *)
THEOREM Invariance == ReplySpec => []IInv
BY IInvInit, IInvStep, PTL DEF ReplySpec

-----------------------------------------------------------------------------
(* What follows.                                                           *)

(* The state of an exchange keeps its types, for every size of message and
   every contents.                                                         *)
THEOREM TypeCorrect == ReplySpec => []ReplyTypeOK
<1>1. IInv => ReplyTypeOK
  BY Elements DEF IInv, Types, ReplyTypeOK
<1> QED
  BY <1>1, Invariance, PTL

(* placement_nl_process_msg and send_req lose, repeat and reorder nothing:
   when send_req returns, candidates begins with the whole reply, whatever
   its length is compared with MAX_N_PER_PACKET.                           *)
THEOREM ReplyDelivered == ReplySpec => []Delivered
<1>1. IInv => Delivered
  BY DEF IInv, Arrived, Delivered
<1> QED
  BY <1>1, Invariance, PTL

(* The arrays of the module and of the daemon, and nlmh_array, hold the
   longest reply, with the macro MAX_N_FIND expanded as the compiler does. *)
THEOREM ArraysSuffice == ReplySpec => []ArraysHoldReply
<1>1. IInv => ArraysHoldReply
  <2> SUFFICES ASSUME IInv PROVE ArraysHoldReply
    OBVIOUS
  <2>1. n_found \in 1 .. Room /\ curr_pointer \in Nat /\ curr_pointer <= n_found /\ Room \in Nat
    BY Elements DEF IInv, Types, Arrived
  <2>2. AllocBytes = ENTRY * Room - 1
    BY PacketAssumption DEF AllocBytes, Room
  <2>3. ASSUME NEW n \in Nat, n > 0, n <= Room
        PROVE  (n - 1) * ENTRY + USED <= AllocBytes
    <3>1. n * ENTRY <= Room * ENTRY
      BY <2>1, <2>3, PacketAssumption, Monotone
    <3>2. (n - 1) * ENTRY + ENTRY = n * ENTRY
      BY <2>3, PacketAssumption, OneMore
    <3>3. Room * ENTRY = ENTRY * Room
      BY <2>1, PacketAssumption
    <3>4. (n - 1) * ENTRY \in Int /\ n * ENTRY \in Int /\ Room * ENTRY \in Int
      BY <2>1, <2>3, PacketAssumption
    <3> QED
      BY <2>2, <3>1, <3>2, <3>3, <3>4, PacketAssumption
  <2>4. Len(skb) <= MAX_PACKETS
    BY Sizes, PacketAssumption DEF IInv, Putting, Types
  <2> QED
    BY <2>1, <2>3, <2>4 DEF ArraysHoldReply
<1> QED
  BY <1>1, Invariance, PTL
=============================================================================
