----------------------------- MODULE PacketQueue -----------------------------
(***************************************************************************)
(* The packet queues of opennopd/queuemanager.c, with their pointers: a    *)
(* struct packet_head has the first and the last packet and a count, a     *)
(* packet has the next one.  Each critical section on a queue's lock is    *)
(* one action; move_queued_packets has two.  packet->prev is written but   *)
(* never read before it is written again, and is left out.                 *)
(*                                                                         *)
(* The threads are the most general ones: any thread may queue a buffer it *)
(* holds and take one from any queue.  PacketPool has the real threads.    *)
(***************************************************************************)
EXTENDS Integers, Sequences, FiniteSets

CONSTANTS Packet,       \* the struct packet objects malloc can return
          Queue,        \* the struct packet_head objects
          NULL,
          QlenModulus   \* qlen is u_int32_t: 2^32 in the code

ASSUME PacketAssumption == NULL \notin Packet /\ IsFiniteSet(Packet)

\* There is not memory for 2^32 packets of more than 2048 bytes.
ASSUME QlenAssumption ==
  QlenModulus \in Nat /\ Cardinality(Packet) < QlenModulus

\* Where a buffer is, when it is in no queue.
Heap == "heap"
Held == "held"
Moving == "moving"

ASSUME PlaceAssumption == Queue \cap {Heap, Held, Moving} = {}

VARIABLES next,     \* next[q]: queue->next, the first packet
          prev,     \* prev[q]: queue->prev, the last packet
          qlen,     \* qlen[q]: queue->qlen
          pnext,    \* pnext[p]: packet->next
          move,     \* the locals start, end and qlen of move_queued_packets
          chain,    \* history: chain[q], the packets queued in q in order
          mchain,   \* history: the packets being moved
          where     \* history: the queue a packet is in, or Heap/Held/Moving

pointers == <<next, prev, qlen, pnext, move>>
pqvars == <<next, prev, qlen, pnext, move, chain, mchain, where>>

NoMove == [start |-> NULL, end |-> NULL, qlen |-> 0]

PQInit ==
  /\ next = [q \in Queue |-> NULL]
  /\ prev = [q \in Queue |-> NULL]
  /\ qlen = [q \in Queue |-> 0]
  /\ pnext = [p \in Packet |-> NULL]
  /\ move = NoMove
  /\ chain = [q \in Queue |-> <<>>]
  /\ mchain = <<>>
  /\ where = [p \in Packet |-> Heap]

(* calloc, then next = NULL. *)
newpacket(p) ==
  /\ where[p] = Heap
  /\ pnext' = [pnext EXCEPT ![p] = NULL]
  /\ where' = [where EXCEPT ![p] = Held]
  /\ UNCHANGED <<next, prev, qlen, move, chain, mchain>>

\* Mutant of LinkLast: a stack.
LinkFirst(q, p) ==
  /\ next' = [next EXCEPT ![q] = p]
  /\ pnext' = [pnext EXCEPT ![p] = next[q]]
  /\ prev' = [prev EXCEPT ![q] = IF next[q] = NULL THEN p ELSE @]

(* The links queue_packet makes: a queue is empty when its count is 0. *)
LinkLast(q, p) ==
  \/ /\ qlen[q] = 0
     /\ next' = [next EXCEPT ![q] = p]
     /\ prev' = [prev EXCEPT ![q] = p]
     /\ UNCHANGED pnext
  \/ /\ qlen[q] # 0
     /\ pnext' = [pnext EXCEPT ![prev[q]] = p]
     /\ prev' = [prev EXCEPT ![q] = p]
     /\ UNCHANGED next

queue_packet(q, p) ==
  /\ where[p] = Held
  /\ LinkLast(q, p)
  /\ qlen' = [qlen EXCEPT ![q] = (@ + 1) % QlenModulus]
  /\ chain' = [chain EXCEPT ![q] = Append(@, p)]
  /\ where' = [where EXCEPT ![p] = q]
  /\ UNCHANGED <<move, mchain>>

\* Mutant of dequeue_packet: the packet keeps its link.
dequeue_keeps_link(q) ==
  /\ next[q] # NULL
  /\ next' = [next EXCEPT ![q] = pnext[next[q]]]
  /\ qlen' = [qlen EXCEPT ![q] = (@ - 1) % QlenModulus]
  /\ chain' = [chain EXCEPT ![q] = Tail(@)]
  /\ where' = [where EXCEPT ![next[q]] = Held]
  /\ UNCHANGED <<prev, pnext, move, mchain>>

(* The part of dequeue_packet after its wait, when there is a packet.  It  *)
(* leaves queue->prev alone, even when the queue becomes empty.            *)
dequeue_packet(q) ==
  /\ next[q] # NULL
  /\ next' = [next EXCEPT ![q] = pnext[next[q]]]
  /\ qlen' = [qlen EXCEPT ![q] = (@ - 1) % QlenModulus]
  /\ pnext' = [pnext EXCEPT ![next[q]] = NULL]
  /\ chain' = [chain EXCEPT ![q] = IF @ = <<>> THEN @ ELSE Tail(@)]
  /\ where' = [where EXCEPT ![next[q]] = Held]
  /\ UNCHANGED <<prev, move, mchain>>

\* Mutant of move_from: the count of the source stays.
move_keeps_count(q) ==
  /\ mchain = <<>>
  /\ next[q] # NULL
  /\ move' = [start |-> next[q], end |-> prev[q], qlen |-> qlen[q]]
  /\ next' = [next EXCEPT ![q] = NULL]
  /\ prev' = [prev EXCEPT ![q] = NULL]
  /\ mchain' = chain[q]
  /\ chain' = [chain EXCEPT ![q] = <<>>]
  /\ where' = [p \in Packet |-> IF where[p] = q THEN Moving ELSE where[p]]
  /\ UNCHANGED <<pnext, qlen>>

(* First critical section of move_queued_packets.  Its one caller, the     *)
(* memory manager, has always put a packet in the source queue before.     *)
move_from(q) ==
  /\ mchain = <<>>
  /\ next[q] # NULL
  /\ move' = [start |-> next[q], end |-> prev[q], qlen |-> qlen[q]]
  /\ next' = [next EXCEPT ![q] = NULL]
  /\ prev' = [prev EXCEPT ![q] = NULL]
  /\ qlen' = [qlen EXCEPT ![q] = 0]
  /\ mchain' = chain[q]
  /\ chain' = [chain EXCEPT ![q] = <<>>]
  /\ where' = [p \in Packet |-> IF where[p] = q THEN Moving ELSE where[p]]
  /\ UNCHANGED pnext

(* Second critical section: here a queue is empty when it has no first     *)
(* packet, and the count of an empty queue is overwritten.                 *)
move_to(q) ==
  /\ mchain # <<>>
  /\ \/ /\ next[q] = NULL
        /\ next' = [next EXCEPT ![q] = move.start]
        /\ qlen' = [qlen EXCEPT ![q] = move.qlen]
        /\ UNCHANGED pnext
     \/ /\ next[q] # NULL
        /\ pnext' = [pnext EXCEPT ![prev[q]] = move.start]
        /\ qlen' = [qlen EXCEPT ![q] = (@ + move.qlen) % QlenModulus]
        /\ UNCHANGED next
  /\ prev' = [prev EXCEPT ![q] = move.end]
  /\ move' = NoMove
  /\ chain' = [chain EXCEPT ![q] = @ \o mchain]
  /\ mchain' = <<>>
  /\ where' = [p \in Packet |-> IF where[p] = Moving THEN q ELSE where[p]]

PQNext ==
  \/ \E p \in Packet : newpacket(p)
  \/ \E q \in Queue, p \in Packet : queue_packet(q, p)
  \/ \E q \in Queue : dequeue_packet(q)
  \/ \E q \in Queue : move_from(q)
  \/ \E q \in Queue : move_to(q)

PQSpec == PQInit /\ [][PQNext]_pqvars

-----------------------------------------------------------------------------

(* Type correctness. *)
PQTypeOK ==
  /\ next \in [Queue -> Packet \cup {NULL}]
  /\ prev \in [Queue -> Packet \cup {NULL}]
  /\ qlen \in [Queue -> 0 .. QlenModulus - 1]
  /\ pnext \in [Packet -> Packet \cup {NULL}]
  /\ move \in [start : Packet \cup {NULL}, end : Packet \cup {NULL},
               qlen : 0 .. QlenModulus - 1]
  /\ chain \in [Queue -> Seq(Packet)]
  /\ mchain \in Seq(Packet)
  /\ where \in [Packet -> Queue \cup {Heap, Held, Moving}]

\* In a heap with links pn and places wh, the list first, ..., last of n
\* packets is exactly s, and its packets are the ones at place w.
IsList(pn, wh, s, first, last, n, w) ==
  /\ n = Len(s)
  /\ s = <<>> => first = NULL
  /\ s # <<>> => first = s[1] /\ last = s[Len(s)] /\ pn[s[Len(s)]] = NULL
  /\ \A i \in 1 .. Len(s) - 1 : pn[s[i]] = s[i + 1]
  /\ \A i, j \in 1 .. Len(s) : s[i] = s[j] => i = j
  /\ \A i \in 1 .. Len(s) : wh[s[i]] = w
  /\ \A p \in Packet : wh[p] = w => \E i \in 1 .. Len(s) : s[i] = p

(* Every queue is a well-formed list: next, prev, qlen and the links are   *)
(* those of the packets queued and not yet taken, in the order they were   *)
(* queued, each packet is in one place, and no allocated packet is lost.   *)
(* dequeue_packet leaves a dangling prev in an emptied queue, queue_packet *)
(* tests qlen and move_queued_packets tests next: this is what makes the   *)
(* three agree.                                                            *)
ListsIntact ==
  /\ \A q \in Queue : IsList(pnext, where, chain[q], next[q], prev[q], qlen[q], q)
  /\ IsList(pnext, where, mchain, move.start, move.end, move.qlen, Moving)
  /\ \A p \in Packet : where[p] \in {Heap, Held} => pnext[p] = NULL

Fifo == INSTANCE PacketFifo
          WITH fifo <- chain, transit <- mchain,
               held <- {p \in Packet : where[p] = Held},
               heap <- {p \in Packet : where[p] = Heap}

(* The linked lists implement first-in first-out queues: the packet the    *)
(* pointers yield in dequeue_packet is the oldest one of the queue, and    *)
(* move_queued_packets keeps the order of both queues.                     *)
ImplementsFifo == Fifo!FifoSpec

=============================================================================
