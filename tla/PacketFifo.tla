----------------------------- MODULE PacketFifo -----------------------------
(***************************************************************************)
(* What struct packet_head promises its users: a set of first-in first-out *)
(* queues of packet buffers.  A buffer is unallocated (heap), held by a    *)
(* thread, in transit between two queues (move_queued_packets), or at one  *)
(* position of one queue.  There are no pointers and no lengths here; the  *)
(* linked lists of queuemanager.c are shown to implement this in           *)
(* PacketQueue.                                                            *)
(***************************************************************************)
EXTENDS Sequences

CONSTANTS Packet,   \* the packet buffers
          Queue     \* the queues

VARIABLES fifo,     \* fifo[q]: the buffers in q, oldest first
          held,     \* buffers in the hands of some thread
          heap,     \* buffers not allocated yet
          transit   \* buffers taken from one queue and not yet in another

fvars == <<fifo, held, heap, transit>>

FifoInit ==
  /\ fifo = [q \in Queue |-> <<>>]
  /\ held = {}
  /\ heap = Packet
  /\ transit = <<>>

Allocate(p) ==
  /\ p \in heap
  /\ heap' = heap \ {p}
  /\ held' = held \cup {p}
  /\ UNCHANGED <<fifo, transit>>

Put(q, p) ==
  /\ p \in held
  /\ fifo' = [fifo EXCEPT ![q] = Append(@, p)]
  /\ held' = held \ {p}
  /\ UNCHANGED <<heap, transit>>

Get(q) ==
  /\ fifo[q] # <<>>
  /\ held' = held \cup {Head(fifo[q])}
  /\ fifo' = [fifo EXCEPT ![q] = Tail(@)]
  /\ UNCHANGED <<heap, transit>>

MoveOut(q) ==
  /\ transit = <<>>
  /\ transit' = fifo[q]
  /\ fifo' = [fifo EXCEPT ![q] = <<>>]
  /\ UNCHANGED <<held, heap>>

MoveIn(q) ==
  /\ transit # <<>>
  /\ fifo' = [fifo EXCEPT ![q] = @ \o transit]
  /\ transit' = <<>>
  /\ UNCHANGED <<held, heap>>

FifoNext ==
  \/ \E p \in Packet : Allocate(p)
  \/ \E q \in Queue, p \in Packet : Put(q, p)
  \/ \E q \in Queue : Get(q) \/ MoveOut(q) \/ MoveIn(q)

FifoSpec == FifoInit /\ [][FifoNext]_fvars

=============================================================================
