----------------------------- MODULE PacketPool -----------------------------
(***************************************************************************)
(* The pool of packet buffers of subsystems/memorymanager.c and the        *)
(* threads that share it:                                                  *)
(*   - the memory manager thread (mpc), which fills the pool at start and  *)
(*     refills it when it is woken;                                        *)
(*   - the fetcher thread (fpc), the one caller of get_freepacket_buffer;  *)
(*   - the worker threads, which return buffers (put_freepacket_buffer).   *)
(* The queues are the linked lists of PacketQueue.  A critical section on  *)
(* a queue's lock is one step.  mylock is explicit because the manager     *)
(* unlocks it without owning it: it is then free whoever owned it, and the *)
(* updates of allocatedpacketbuffers under it are a load and a store.      *)
(*                                                                         *)
(* The manager is the last thread main starts, so packets may come before  *)
(* its initialisation.  Memory is bounded by Packet (the code does not     *)
(* survive a failing calloc): a thread starts to allocate only when enough *)
(* is left.                                                                *)
(***************************************************************************)
EXTENDS PacketQueue

CONSTANTS Pool,       \* freepacketbuffers
          Staging,    \* packetbufferstaging
          Initial,    \* initialfreepacketbuffers, 1000
          Min,        \* minfreepacketbuffers, 500
          Alloc       \* packetbufferstoallocate, 100

ASSUME PoolAssumption ==
  /\ Pool # Staging
  /\ Queue = {Pool, Staging}
  /\ Initial \in Nat \ {0} /\ Min \in Nat \ {0} /\ Alloc \in Nat \ {0}
  /\ Initial <= Cardinality(Packet) /\ Alloc <= Cardinality(Packet)

VARIABLES mpc,         \* where the memory manager is
          mpkt,        \* the buffer it has allocated and not yet staged
          todo,        \* how many buffers it still has to allocate
          mreg,        \* the value of allocatedpacketbuffers it has loaded
          fresh,       \* newpacketbuffers, what move_queued_packets returned
          fpc,         \* where the fetcher is in get_freepacket_buffer
          fpkt,        \* the buffer it has allocated
          freg,        \* the value of allocatedpacketbuffers it has loaded
          mylock,      \* who has locked mylock
          allocated,   \* allocatedpacketbuffers
          quiet        \* history: no packet came before the initialisation

mvars == <<mpc, mpkt, todo, mreg, fresh>>
fvars == <<fpc, fpkt, freg>>
vars == <<pqvars, mvars, fvars, mylock, allocated, quiet>>

Free == "free"
Manager == "manager"
Fetcher == "fetcher"

HeapLeft == Cardinality({p \in Packet : where[p] = Heap})
Reserved == todo + (IF fpc \in {"signal", "new"} THEN 1 ELSE 0)

\* What calloc returns; which of the unused buffers it is makes no difference.
NextUnused == CHOOSE p \in Packet : where[p] = Heap

PoolInit ==
  /\ PQInit
  /\ mpc = "init" /\ mpkt = NULL /\ todo = Initial /\ mreg = 0 /\ fresh = 0
  /\ fpc = "idle" /\ fpkt = NULL /\ freg = 0
  /\ mylock = Free /\ allocated = 0 /\ quiet = TRUE

-----------------------------------------------------------------------------
(* memorymanager_function *)

mm_init_lock ==
  /\ mpc = "init"
  /\ mylock' = Free
  /\ allocated' = 0
  /\ mpc' = "init_pool"
  /\ UNCHANGED <<pqvars, mpkt, todo, mreg, fresh, fvars, quiet>>

(* The count of the pool is set to 0, its first and last packet are not. *)
mm_init_pool ==
  /\ mpc = "init_pool"
  /\ qlen' = [qlen EXCEPT ![Pool] = 0]
  /\ quiet' = (fpc = "idle" /\ \A p \in Packet : where[p] = Heap)
  /\ mpc' = "allocate"
  /\ UNCHANGED <<next, prev, pnext, move, chain, mchain, where, mpkt, todo,
                 mreg, fresh, fvars, mylock, allocated>>

(* The loop of allocatefreepacketbuffers. *)
mm_newpacket ==
  /\ mpc = "allocate" /\ todo > 0
  /\ \E p \in Packet : p = NextUnused /\ newpacket(p) /\ mpkt' = p
  /\ todo' = todo - 1
  /\ mpc' = "stage"
  /\ UNCHANGED <<mreg, fresh, fvars, mylock, allocated, quiet>>

mm_stage ==
  /\ mpc = "stage"
  /\ queue_packet(Staging, mpkt)
  /\ mpkt' = NULL
  /\ mpc' = IF todo = 0 THEN "lock" ELSE "allocate"
  /\ UNCHANGED <<todo, mreg, fresh, fvars, mylock, allocated, quiet>>

mm_lock ==
  /\ mpc = "lock" /\ mylock = Free
  /\ mylock' = Manager
  /\ mpc' = "move_from"
  /\ UNCHANGED <<pqvars, mpkt, todo, mreg, fresh, fvars, allocated, quiet>>

mm_move_from ==
  /\ mpc = "move_from"
  /\ move_from(Staging)
  /\ mpc' = "move_to"
  /\ UNCHANGED <<mpkt, todo, mreg, fresh, fvars, mylock, allocated, quiet>>

mm_move_to ==
  /\ mpc = "move_to"
  /\ move_to(Pool)
  /\ fresh' = move.qlen
  /\ mpc' = "load"
  /\ UNCHANGED <<mpkt, todo, mreg, fvars, mylock, allocated, quiet>>

mm_load ==
  /\ mpc = "load"
  /\ mreg' = allocated
  /\ mpc' = "store"
  /\ UNCHANGED <<pqvars, mpkt, todo, fresh, fvars, mylock, allocated, quiet>>

mm_store ==
  /\ mpc = "store"
  /\ allocated' = mreg + fresh
  /\ mreg' = 0 /\ fresh' = 0
  /\ mpc' = "unlock"
  /\ UNCHANGED <<pqvars, mpkt, todo, fvars, mylock, quiet>>

\* Mutant of mm_unlock: mylock stays locked.
mm_forget_unlock ==
  /\ mpc = "unlock"
  /\ mpc' = "check"
  /\ UNCHANGED <<pqvars, mpkt, todo, mreg, fresh, fvars, mylock, allocated, quiet>>

mm_unlock ==
  /\ mpc = "unlock"
  /\ mylock' = Free
  /\ mpc' = "check"
  /\ UNCHANGED <<pqvars, mpkt, todo, mreg, fresh, fvars, allocated, quiet>>

(* Enough buffers: sleep.  The answer may be stale before the wait begins. *)
(* The service may be STOPPED by now, which ends the loop; other threads   *)
(* need not have ended.                                                    *)
mm_check ==
  /\ mpc = "check"
  /\ \/ mpc' = IF qlen[Pool] >= Min THEN "lock_to_wait" ELSE "release"
     \/ mpc' = "end"
  /\ UNCHANGED <<pqvars, mpkt, todo, mreg, fresh, fvars, mylock, allocated, quiet>>

mm_lock_to_wait ==
  /\ mpc = "lock_to_wait" /\ mylock = Free
  /\ mylock' = Manager
  /\ mpc' = "wait"
  /\ UNCHANGED <<pqvars, mpkt, todo, mreg, fresh, fvars, allocated, quiet>>

(* pthread_cond_wait releases mylock and sleeps in one step. *)
mm_wait ==
  /\ mpc = "wait"
  /\ mylock' = Free
  /\ mpc' = "waiting"
  /\ UNCHANGED <<pqvars, mpkt, todo, mreg, fresh, fvars, allocated, quiet>>

mm_spurious_wakeup ==
  /\ mpc = "waiting"
  /\ mpc' = "relock"
  /\ UNCHANGED <<pqvars, mpkt, todo, mreg, fresh, fvars, mylock, allocated, quiet>>

mm_relock ==
  /\ mpc = "relock" /\ mylock = Free
  /\ mylock' = Manager
  /\ mpc' = "release"
  /\ UNCHANGED <<pqvars, mpkt, todo, mreg, fresh, fvars, allocated, quiet>>

(* The unlock on the way to a refill, also when the manager did not sleep  *)
(* and has no lock to lose.                                                *)
mm_release ==
  /\ mpc = "release"
  /\ mylock' = Free
  /\ mpc' = "refill"
  /\ UNCHANGED <<pqvars, mpkt, todo, mreg, fresh, fvars, allocated, quiet>>

mm_refill ==
  /\ mpc = "refill"
  /\ HeapLeft - Reserved >= Alloc   \* bound
  /\ todo' = Alloc
  /\ mpc' = "allocate"
  /\ UNCHANGED <<pqvars, mpkt, mreg, fresh, fvars, mylock, allocated, quiet>>

-----------------------------------------------------------------------------
(* get_freepacket_buffer and put_freepacket_buffer *)

(* pthread_cond_signal(&mysignal): lost when the manager is not waiting. *)
signal == mpc' = IF mpc = "waiting" THEN "relock" ELSE mpc

\* Mutant of get_check: no look at the count.
get_unchecked ==
  /\ fpc = "idle"
  /\ IF qlen[Pool] < Min THEN signal ELSE UNCHANGED mpc
  /\ fpc' = "dequeue"
  /\ UNCHANGED <<pqvars, mpkt, todo, mreg, fresh, fpkt, freg, mylock, allocated, quiet>>

\* Mutant of get_check: the manager is not told of a low pool.
get_silent ==
  /\ fpc = "idle"
  /\ \/ qlen[Pool] > 0 /\ fpc' = "dequeue"
     \/ qlen[Pool] = 0 /\ HeapLeft - Reserved >= 1 /\ fpc' = "signal"
  /\ UNCHANGED <<pqvars, mvars, fpkt, freg, mylock, allocated, quiet>>

get_check ==
  /\ fpc = "idle"
  /\ \/ /\ qlen[Pool] > 0
        /\ IF qlen[Pool] < Min THEN signal ELSE UNCHANGED mpc
        /\ fpc' = "dequeue"
     \/ /\ qlen[Pool] = 0
        /\ HeapLeft - Reserved >= 1   \* bound
        /\ fpc' = "signal"
        /\ UNCHANGED mpc
  /\ UNCHANGED <<pqvars, mpkt, todo, mreg, fresh, fpkt, freg, mylock, allocated, quiet>>

\* Mutant of get_dequeue: takes the buffer without the queue's lock, and an
\* update of the count is lost.
get_unlocked ==
  /\ fpc = "dequeue" /\ next[Pool] # NULL
  /\ next' = [next EXCEPT ![Pool] = pnext[next[Pool]]]
  /\ pnext' = [pnext EXCEPT ![next[Pool]] = NULL]
  /\ chain' = [chain EXCEPT ![Pool] = Tail(@)]
  /\ where' = [where EXCEPT ![next[Pool]] = Held]
  /\ fpc' = "idle"
  /\ UNCHANGED <<prev, qlen, move, mchain, mvars, fpkt, freg, mylock, allocated, quiet>>

(* dequeue_packet(&freepacketbuffers, false): the buffer goes to a worker. *)
get_dequeue ==
  /\ fpc = "dequeue"
  /\ \/ dequeue_packet(Pool)
     \/ next[Pool] = NULL /\ UNCHANGED pqvars
  /\ fpc' = "idle"
  /\ UNCHANGED <<mvars, fpkt, freg, mylock, allocated, quiet>>

get_signal ==
  /\ fpc = "signal"
  /\ signal
  /\ fpc' = "new"
  /\ UNCHANGED <<pqvars, mpkt, todo, mreg, fresh, fpkt, freg, mylock, allocated, quiet>>

get_newpacket ==
  /\ fpc = "new"
  /\ \E p \in Packet : p = NextUnused /\ newpacket(p) /\ fpkt' = p
  /\ fpc' = "lock"
  /\ UNCHANGED <<mvars, freg, mylock, allocated, quiet>>

get_lock ==
  /\ fpc = "lock" /\ mylock = Free
  /\ mylock' = Fetcher
  /\ fpc' = "load"
  /\ UNCHANGED <<pqvars, mvars, fpkt, freg, allocated, quiet>>

get_load ==
  /\ fpc = "load"
  /\ freg' = allocated
  /\ fpc' = "store"
  /\ UNCHANGED <<pqvars, mvars, fpkt, mylock, allocated, quiet>>

get_store ==
  /\ fpc = "store"
  /\ allocated' = freg + 1
  /\ freg' = 0
  /\ fpc' = "unlock"
  /\ UNCHANGED <<pqvars, mvars, fpkt, mylock, quiet>>

get_unlock ==
  /\ fpc = "unlock"
  /\ mylock' = Free
  /\ fpkt' = NULL
  /\ fpc' = "idle"
  /\ UNCHANGED <<pqvars, mvars, freg, allocated, quiet>>

put_freepacket_buffer ==
  /\ \E p \in Packet \ {mpkt, fpkt} : queue_packet(Pool, p)
  /\ UNCHANGED <<mvars, fvars, mylock, allocated, quiet>>

memorymanager_function ==
  \/ mm_init_lock \/ mm_init_pool
  \/ mm_newpacket \/ mm_stage \/ mm_lock \/ mm_move_from \/ mm_move_to
  \/ mm_load \/ mm_store \/ mm_unlock
  \/ mm_check \/ mm_lock_to_wait \/ mm_wait \/ mm_relock
  \/ mm_release \/ mm_refill

get_freepacket_buffer ==
  \/ get_check \/ get_dequeue
  \/ get_signal \/ get_newpacket \/ get_lock \/ get_load \/ get_store \/ get_unlock

PoolNext ==
  \/ memorymanager_function \/ mm_spurious_wakeup
  \/ get_freepacket_buffer
  \/ put_freepacket_buffer

PoolSpec == PoolInit /\ [][PoolNext]_vars

(* Threads keep running, packets keep coming and workers finish with the   *)
(* ones they have; a thread that competes for mylock gets it some time.    *)
PoolFairness ==
  /\ WF_vars(memorymanager_function)
  /\ SF_vars(mm_lock) /\ SF_vars(mm_lock_to_wait) /\ SF_vars(mm_relock)
  /\ WF_vars(get_freepacket_buffer) /\ SF_vars(get_lock)
  /\ WF_vars(put_freepacket_buffer)

PoolFairSpec == PoolSpec /\ PoolFairness

-----------------------------------------------------------------------------

(* Type correctness. *)
PoolTypeOK ==
  /\ PQTypeOK
  /\ mpc \in {"init", "init_pool", "allocate", "stage", "lock", "move_from",
              "move_to", "load", "store", "unlock", "check", "lock_to_wait",
              "wait", "waiting", "relock", "release", "refill", "end"}
  /\ fpc \in {"idle", "dequeue", "signal", "new", "lock", "load", "store", "unlock"}
  /\ mpkt \in Packet \cup {NULL} /\ fpkt \in Packet \cup {NULL}
  /\ todo \in Nat /\ mreg \in Nat /\ fresh \in Nat /\ freg \in Nat
  /\ mylock \in {Free, Manager, Fetcher}
  /\ allocated \in Nat
  /\ quiet \in BOOLEAN

(* If no packet came before the memory manager had initialised the pool,   *)
(* every later step is an atomic operation on well-formed queues: what is  *)
(* shown of PacketQueue holds in the daemon.                               *)
StepsAreQueueOperations == [][quiet' => [PQNext]_pqvars]_vars

(* The same condition keeps the pool whole: its count is the number of     *)
(* buffers in it, and no buffer is lost between the heap, the pool, the    *)
(* staging queue and the threads that hold one.                            *)
PoolIntact == quiet => ListsIntact

(* get_freepacket_buffer looks at the count in one critical section and    *)
(* takes a buffer in the next: the buffer it saw is still there, so the    *)
(* fetcher is never left without a buffer for its packet.                  *)
GetNeverFails == quiet /\ fpc = "dequeue" => next[Pool] # NULL

(* The manager never sleeps on a low pool while the fetcher asks for       *)
(* buffers, although a signal between its check and its wait is lost.      *)
LowPoolWakes ==
  quiet /\ mpc = "waiting" /\ qlen[Pool] < Min
    ~> mpc # "waiting" \/ qlen[Pool] >= Min

(* The fetcher always gets out of get_freepacket_buffer: neither mylock    *)
(* nor its unlock by the wrong thread can leave it blocked.                *)
GetReturns == fpc # "idle" ~> fpc = "idle"

=============================================================================
