------------------------------ MODULE DataPath ------------------------------
(***************************************************************************)
(* A packet's way through the daemon: fetcher_callback of                  *)
(* subsystems/fetcher.c takes it from the Netfilter queue, decides on it   *)
(* or copies it to a buffer for one of the two threads of a worker, and    *)
(* worker_thread of subsystems/worker.c optimizes or restores it and gives *)
(* the verdict.                                                            *)
(*                                                                         *)
(* A step ends where a thread touches what others change: the session      *)
(* table, the state of the neighbor, the pool, a queue.  The queues are    *)
(* sequences (PacketQueue shows the lists implement that), the pool may    *)
(* have no buffer for the fetcher (PacketPool has when), and the session   *)
(* table is a function of the key (SessionTable has its lists and the      *)
(* choice of the worker).  A thread that uses a session another one has    *)
(* freed, or the Netfilter queue after it is closed, ends the model        *)
(* (Undefined).                                                            *)
(***************************************************************************)
EXTENDS Naturals, Sequences

CONSTANTS Key,          \* what sessions are found by: both IPs and ports
          Worker,
          Buffer,       \* the packet buffers
          NoBuffer,
          Arrival,      \* the packets that can come
          MaxPackets    \* bound on how many come

NoID == "none"          \* no accelerator ID in the packet, or not known yet
Local == "local"        \* get_opennop_id()
Peer == "peer"          \* the ID of the neighbor

Id == 1 .. MaxPackets
Thread == Worker \X {"opt", "deopt"}

\* comp: flagged as compressed (TCP option 31); data: there is TCP data.
PacketType == [id : Nat, kind : {"other", "syn", "synack", "ack", "fin", "rst", "rstack"},
               key : Key, src : {"larger", "smaller"}, tag : {NoID, Peer, Local},
               comp : BOOLEAN, data : BOOLEAN]
Zero == [id |-> 0, kind |-> "zero"]

ASSUME DataPathAssumption ==
  /\ Arrival \subseteq PacketType
  /\ MaxPackets \in Nat
  /\ NoBuffer \notin Buffer

SessionType == [state : {"new", "syn_sent", "established", "closing"}, queue : Worker,
                larger : {NoID, Peer, Local}, smaller : {NoID, Peer, Local}]
NoSession == [state |-> "none"]
NewSession(state, q) == [state |-> state, queue |-> q, larger |-> NoID, smaller |-> NoID]

VARIABLES running,    \* servicestate >= RUNNING
          open,       \* the Netfilter queue is
          closing,    \* signal_handler has still to call fetcher_graceful_exit
          up,         \* the neighbor is UP
          session,    \* session[k]
          count,      \* how many packets have come
          f,          \* the fetcher: where it is, its packet, is thissession
                      \* live, thispacket, is it for deoptimize_packet anyway
          free,       \* the free buffers
          data,       \* data[b]: the packet in b, and its id
          queue,      \* queue[t]: the buffers queued for t
          w,          \* w[t], a worker thread: where it is, the packet it took,
                      \* is thissession live, its buffer, is thispacket # NULL
          verdict,    \* verdict[i] of packet i
          starved,    \* history: the packets there was no buffer for
          raced       \* history: the neighbor changed between two questions

nfqueue == <<running, open, closing>>
vars == <<nfqueue, up, session, count, f, free, data, queue, w, verdict, starved, raced>>

IdleFetcher ==
  [pc |-> "idle", pkt |-> Zero, ref |-> "none", buf |-> NoBuffer, deopt |-> FALSE]
IdleWorker ==
  [pc |-> "idle", pkt |-> Zero, ref |-> "none", buf |-> NoBuffer, has |-> FALSE]

\* A session that earlier packets have opened, with the neighbor at its
\* smaller end.
OpenSession ==
  [state : {"established"}, queue : Worker, larger : {Local}, smaller : {Peer}]

Init ==
  /\ running = TRUE /\ open = TRUE /\ closing = FALSE
  /\ up \in BOOLEAN
  /\ session \in [Key -> OpenSession \cup {NoSession}]
  /\ count = 0
  /\ f = IdleFetcher
  /\ free = Buffer
  /\ data = [b \in Buffer |-> Zero]
  /\ queue = [t \in Thread |-> <<>>]
  /\ w = [t \in Thread |-> IdleWorker]
  /\ verdict = [i \in Id |-> "none"]
  /\ starved = {} /\ raced = FALSE

(* verify_neighbor_in_domain: the local ID is not that of a neighbor. *)
verify_neighbor_in_domain(id) == id = Peer /\ up

Exists(k) == session[k] # NoSession

(* !syn && ack && !fin, the packets that are optimized. *)
Plain(p) == p.kind \in {"ack", "rstack"}

other(src) == IF src = "larger" THEN "smaller" ELSE "larger"

nfq_set_verdict(i, v) == verdict' = [verdict EXCEPT ![i] = v]

-----------------------------------------------------------------------------
(* fetcher_callback *)

Fetch(pc, p, s) ==
  /\ f' = [pc |-> pc, pkt |-> p, ref |-> "live", buf |-> NoBuffer, deopt |-> pc = "insert"]
  /\ session' = [session EXCEPT ![p.key] = s]
  /\ nfq_set_verdict(p.id, "pending")

(* Up to the first question about the neighbor.  A packet without a        *)
(* session is accepted if none is made for it, or no memory is left for    *)
(* one.                                                                    *)
fetcher_callback(arrival) ==
  LET p == [arrival EXCEPT !.id = count + 1]
      s == session[p.key]
  IN
  /\ f.pc = "idle" /\ open
  /\ count < MaxPackets
  /\ count' = count + 1
  /\ \/ /\ \/ ~ running
           \/ p.kind = "other"
           \/ ~ Exists(p.key)
        /\ nfq_set_verdict(p.id, "accept")
        /\ UNCHANGED <<f, session>>
     \/ /\ running /\ p.kind = "syn" /\ Exists(p.key)
        /\ Fetch("verify", p, s)
     \/ /\ running /\ p.kind = "syn" /\ ~ Exists(p.key)
        /\ \E q \in Worker : Fetch("verify", p, NewSession("new", q))
     \/ /\ running /\ p.kind = "synack" /\ Exists(p.key)
        /\ Fetch("verify", p, s)
     \/ /\ running /\ p.kind \notin {"other", "syn", "synack"} /\ Exists(p.key)
        /\ Fetch("get", p, s)
     \/ /\ running /\ Plain(p) /\ p.tag # NoID /\ ~ Exists(p.key)
        /\ \E q \in Worker : Fetch("insert", p, NewSession("established", q))
  /\ UNCHANGED <<nfqueue, up, free, data, queue, w, starved, raced>>

(* A SYN or SYN/ACK of a session: the first question, and the second one   *)
(* when the answer was yes.  Without a neighbor the local ID is put in the *)
(* packet, if there is room below its MSS.                                 *)
HandshakeState == IF f.pkt.kind = "syn" THEN "syn_sent" ELSE "established"

AcceptHandshake(s) ==
  /\ open
  /\ session' = [session EXCEPT ![f.pkt.key] = [s EXCEPT !.state = HandshakeState]]
  /\ nfq_set_verdict(f.pkt.id, "accept")
  /\ f' = IdleFetcher
  /\ UNCHANGED <<nfqueue, up, count, free, data, queue, w, starved, raced>>

fetcher_verify ==
  /\ f.pc = "verify" /\ f.ref = "live"
  /\ ~ verify_neighbor_in_domain(f.pkt.tag)
  /\ \E mss_over_60 \in BOOLEAN :
       AcceptHandshake(IF mss_over_60 THEN [session[f.pkt.key] EXCEPT ![f.pkt.src] = Local]
                                      ELSE session[f.pkt.key])

fetcher_verify_again ==
  /\ f.pc = "verify2" /\ f.ref = "live"
  /\ AcceptHandshake(IF verify_neighbor_in_domain(f.pkt.tag)
                     THEN [session[f.pkt.key] EXCEPT ![f.pkt.src] = f.pkt.tag]
                     ELSE session[f.pkt.key])

(* A session the neighbor has told of: its ID is saved, or replaced by the *)
(* local one when it is not a neighbor.                                    *)
fetcher_insert ==
  /\ f.pc = "insert" /\ f.ref = "live"
  /\ LET id == IF verify_neighbor_in_domain(f.pkt.tag) THEN f.pkt.tag ELSE Local
     IN  /\ session' = [session EXCEPT ![f.pkt.key][f.pkt.src] = id]
         /\ f' = [f EXCEPT !.pc = "get", !.pkt.tag = id]
  /\ UNCHANGED <<nfqueue, up, count, free, data, queue, w, verdict, starved, raced>>

(* get_freepacket_buffer, which clears the buffer, and save_packet. *)
fetcher_get ==
  /\ f.pc = "get"
  /\ \E b \in free :
       /\ free' = free \ {b}
       /\ data' = [data EXCEPT ![b] = Zero]
       /\ f' = [f EXCEPT !.pc = "save", !.buf = b]
  /\ UNCHANGED <<nfqueue, up, session, count, queue, w, verdict, starved, raced>>

(* There is none: fetcher_callback returns without a verdict. *)
fetcher_get_fails ==
  /\ f.pc = "get"
  /\ starved' = starved \cup {f.pkt.id}
  /\ f' = IdleFetcher
  /\ UNCHANGED <<nfqueue, up, session, count, free, data, queue, w, verdict, raced>>

fetcher_save ==
  /\ f.pc = "save"
  /\ data' = [data EXCEPT ![f.buf] = f.pkt]
  /\ f' = [f EXCEPT !.pc = IF f.deopt THEN "deoptimize" ELSE "route"]
  /\ UNCHANGED <<nfqueue, up, session, count, free, queue, w, verdict, starved, raced>>

(* optimize_packet and deoptimize_packet. *)
QueueTo(how) ==
  /\ LET t == <<session[f.pkt.key].queue, how>>
     IN  queue' = [queue EXCEPT ![t] = Append(@, f.buf)]
  /\ f' = IdleFetcher
  /\ UNCHANGED <<nfqueue, up, session, count, free, data, w, verdict, starved, raced>>

fetcher_route ==
  /\ f.pc = "route" /\ f.ref = "live"
  /\ ~ verify_neighbor_in_domain(f.pkt.tag)
  /\ QueueTo("opt")

(* The first question was answered yes. *)
fetcher_verified ==
  /\ f.pc \in {"verify", "route"}
  /\ verify_neighbor_in_domain(f.pkt.tag)
  /\ f' = [f EXCEPT !.pc = IF f.pc = "verify" THEN "verify2" ELSE "route2"]
  /\ UNCHANGED <<nfqueue, up, session, count, free, data, queue, w, verdict, starved, raced>>

fetcher_deoptimize ==
  /\ \/ f.pc = "deoptimize"
     \/ f.pc = "route2" /\ verify_neighbor_in_domain(f.pkt.tag)
  /\ f.ref = "live"
  /\ QueueTo("deopt")

(* Neither of the two ifs is taken: the buffer and the packet are dropped  *)
(* without a verdict.                                                      *)
fetcher_abandon ==
  /\ f.pc = "route2" /\ ~ verify_neighbor_in_domain(f.pkt.tag)
  /\ f' = IdleFetcher
  /\ UNCHANGED <<nfqueue, up, session, count, free, data, queue, w, verdict, starved, raced>>

-----------------------------------------------------------------------------
(* worker_thread *)

worker_dequeue(t) ==
  /\ w[t].pc = "idle" /\ queue[t] # <<>>
  /\ w' = [w EXCEPT ![t] = [pc |-> "lookup", pkt |-> data[Head(queue[t])], ref |-> "none",
                            buf |-> Head(queue[t]), has |-> TRUE]]
  /\ queue' = [queue EXCEPT ![t] = Tail(@)]
  /\ UNCHANGED <<nfqueue, up, session, count, f, free, data, verdict, starved, raced>>

(* The verdict, and put_freepacket_buffer. *)
Finish(t, v) ==
  /\ open
  /\ nfq_set_verdict(w[t].pkt.id, v)
  /\ free' = free \cup {w[t].buf}

\* Mutant of worker_getsession: a packet without a session gets no verdict.
worker_forgets(t) ==
  /\ w[t].pc = "lookup"
  /\ \/ /\ Exists(w[t].pkt.key)
        /\ w' = [w EXCEPT ![t].ref = "live",
                          ![t].pc = IF Plain(w[t].pkt) THEN "verify" ELSE "flags"]
        /\ UNCHANGED free
     \/ /\ ~ Exists(w[t].pkt.key)
        /\ free' = free \cup {w[t].buf}
        /\ w' = [w EXCEPT ![t] = IdleWorker]
  /\ UNCHANGED <<nfqueue, up, session, count, f, data, queue, verdict, starved, raced>>

worker_getsession(t) ==
  /\ w[t].pc = "lookup"
  /\ \/ /\ Exists(w[t].pkt.key)
        /\ w' = [w EXCEPT ![t].ref = "live",
                          ![t].pc = IF Plain(w[t].pkt) THEN "verify" ELSE "flags"]
        /\ UNCHANGED <<free, verdict>>
     \/ /\ ~ Exists(w[t].pkt.key)
        /\ Finish(t, "accept")
        /\ w' = [w EXCEPT ![t] = IdleWorker]
  /\ UNCHANGED <<nfqueue, up, session, count, f, data, queue, starved, raced>>

(* The optimize branch.  tcp_compress flags the packet if it got smaller.  *)
worker_optimize(t) ==
  LET p == w[t].pkt
      s == [session[p.key] EXCEPT ![p.src] = Local]
  IN
  /\ w[t].pc = "verify" /\ w[t].ref = "live"
  /\ ~ verify_neighbor_in_domain(p.tag)
  /\ session' = [session EXCEPT ![p.key] = s]
  /\ \E smaller \in BOOLEAN :
       LET compressed == /\ s[other(p.src)] = Peer
                         /\ s.state = "established"
                         /\ p.data /\ smaller
       IN  data' = [data EXCEPT ![w[t].buf] =
                             [data[w[t].buf] EXCEPT !.tag = Local, !.comp = @ \/ compressed]]
  /\ w' = [w EXCEPT ![t].pc = "flags"]
  /\ UNCHANGED <<nfqueue, up, count, f, free, queue, verdict, starved, raced>>

worker_verified(t) ==
  /\ w[t].pc = "verify"
  /\ verify_neighbor_in_domain(w[t].pkt.tag)
  /\ w' = [w EXCEPT ![t].pc = "verify2"]
  /\ UNCHANGED <<nfqueue, up, session, count, f, free, data, queue, verdict, starved, raced>>

\* Mutant of worker_drop: thispacket is not set to NULL.
worker_drop_keeps(t) ==
  /\ Finish(t, "drop")
  /\ w' = [w EXCEPT ![t].pc = "flags"]

(* A packet that cannot be decompressed, flagged but without data, is      *)
(* dropped, and the worker goes on with thispacket NULL but tcph still in  *)
(* the buffer.                                                             *)
worker_drop(t) ==
  /\ Finish(t, "drop")
  /\ w' = [w EXCEPT ![t].pc = "flags", ![t].has = FALSE]

Decompresses(p) == p.comp /\ session[p.key][other(p.src)] = Local

(* The deoptimize branch. *)
worker_deoptimize(t) ==
  LET p == w[t].pkt
      s == [session[p.key] EXCEPT ![p.src] = p.tag]
      decompress == Decompresses(p)
  IN
  /\ w[t].pc = "verify2" /\ w[t].ref = "live"
  /\ verify_neighbor_in_domain(p.tag)
  /\ session' = [session EXCEPT ![p.key] = s]
  /\ \/ /\ decompress /\ ~ p.data
        /\ worker_drop(t)
        /\ UNCHANGED data
     \/ /\ ~ (decompress /\ ~ p.data)
        /\ data' = [data EXCEPT ![w[t].buf] =
                        [data[w[t].buf] EXCEPT !.comp = @ /\ ~ decompress]]
        /\ w' = [w EXCEPT ![t].pc = "flags"]
        /\ UNCHANGED <<free, verdict>>
  /\ UNCHANGED <<nfqueue, up, count, f, queue, starved, raced>>

worker_neither(t) ==
  /\ w[t].pc = "verify2"
  /\ ~ verify_neighbor_in_domain(w[t].pkt.tag)
  /\ w' = [w EXCEPT ![t].pc = "flags"]
  /\ UNCHANGED <<nfqueue, up, session, count, f, free, data, queue, verdict, starved, raced>>

(* clearsession: every other thread that has found the session is left     *)
(* with a pointer to freed memory.                                         *)
Freed(x, k) == IF x.ref = "live" /\ x.pkt.key = k THEN [x EXCEPT !.ref = "freed"] ELSE x

clearsession(k, threads) ==
  /\ session' = [session EXCEPT ![k] = NoSession]
  /\ f' = Freed(f, k)
  /\ w' = [t \in Thread |-> Freed(threads[t], k)]

(* The RST and FIN flags, read from the buffer, closingsession, and the    *)
(* verdict.                                                                *)
Resets(p) == p.kind \in {"rst", "rstack"}

worker_flags(t) ==
  LET tcph == data[w[t].buf]
      k == w[t].pkt.key
      done == [w EXCEPT ![t] = IdleWorker]
  IN
  /\ w[t].pc = "flags"
  /\ Resets(tcph) \/ tcph.kind = "fin" => w[t].ref = "live"
  /\ \/ /\ Resets(tcph) \/ (tcph.kind = "fin" /\ session[k].state = "closing")
        /\ clearsession(k, done)
     \/ /\ tcph.kind = "fin" /\ session[k].state = "established"
        /\ session' = [session EXCEPT ![k].state = "closing"]
        /\ w' = done
        /\ UNCHANGED f
     \/ /\ ~ Resets(tcph)
        /\ tcph.kind = "fin" => session[k].state \notin {"established", "closing"}
        /\ w' = done
        /\ UNCHANGED <<session, f>>
  /\ IF w[t].has THEN Finish(t, "accept") ELSE UNCHANGED <<free, verdict>>
  /\ UNCHANGED <<nfqueue, up, count, data, queue, starved, raced>>

-----------------------------------------------------------------------------
(* The other threads *)

(* cleanuplist finds a dead session. *)
cleanup(k) ==
  /\ Exists(k) /\ f.pc # "undefined"
  /\ clearsession(k, w)
  /\ UNCHANGED <<nfqueue, up, count, free, data, queue, verdict, starved, raced>>

(* The IPC thread changes the state of the neighbor. *)
neighbor_changes ==
  /\ f.pc # "undefined"
  /\ up' = ~ up
  /\ raced' = (raced \/ f.pc = "route2")
  /\ UNCHANGED <<nfqueue, session, count, f, free, data, queue, w, verdict, starved>>

(* SIGTERM.  The handler first changes the state and then closes the       *)
(* Netfilter queue, whatever the threads are doing.                        *)
signal_handler ==
  /\ running /\ f.pc # "undefined"
  /\ running' = FALSE /\ closing' = TRUE
  /\ UNCHANGED <<open, up, session, count, f, free, data, queue, w, verdict, starved, raced>>

fetcher_graceful_exit ==
  /\ closing /\ open /\ f.pc # "undefined"
  /\ closing' = FALSE /\ open' = FALSE
  /\ UNCHANGED <<running, up, session, count, f, free, data, queue, w, verdict>>
  /\ UNCHANGED <<starved, raced>>

(* The fetcher's loop ends: the service has stopped, recv returns 0, or it *)
(* fails, which stops the service.  The fetcher closes the queue, too.     *)
fetcher_function_ends ==
  /\ f.pc = "idle" /\ open
  /\ running' \in {running, FALSE} /\ open' = FALSE
  /\ f' = [f EXCEPT !.pc = "ended"]
  /\ UNCHANGED <<closing, up, session, count, free, data, queue, w, verdict, starved, raced>>

(* A thread uses thissession after another one has freed it: nothing is    *)
(* known of the daemon any more.                                           *)
Undefined == f.pc = "undefined"

BecomeUndefined ==
  /\ f' = [f EXCEPT !.pc = "undefined"]
  /\ w' = [t \in Thread |-> [w[t] EXCEPT !.pc = "undefined"]]
  /\ UNCHANGED <<nfqueue, up, session, count, free, data, queue, verdict, starved, raced>>

fetcher_uses_freed ==
  /\ f.ref = "freed"
  /\ \/ f.pc \in {"verify2", "insert", "deoptimize"}
     \/ f.pc \in {"verify", "route"} /\ ~ verify_neighbor_in_domain(f.pkt.tag)
     \/ f.pc = "route2" /\ verify_neighbor_in_domain(f.pkt.tag)
  /\ BecomeUndefined

worker_uses_freed(t) ==
  /\ w[t].ref = "freed"
  /\ \/ w[t].pc = "verify" /\ ~ verify_neighbor_in_domain(w[t].pkt.tag)
     \/ w[t].pc = "verify2" /\ verify_neighbor_in_domain(w[t].pkt.tag)
     \/ w[t].pc = "flags" /\ data[w[t].buf].kind \in {"rst", "rstack", "fin"}
  /\ BecomeUndefined

(* The queue is used, or closed, when it is closed already: its handle is  *)
(* freed memory.  An idle fetcher handles a packet it has received, or     *)
(* leaves its loop.                                                        *)
fetcher_uses_closed ==
  /\ ~ open
  /\ \/ f.pc \in {"idle", "verify2"}
     \/ f.pc = "verify" /\ ~ verify_neighbor_in_domain(f.pkt.tag)
  /\ BecomeUndefined

worker_uses_closed(t) ==
  /\ ~ open
  /\ \/ w[t].pc = "lookup" /\ ~ Exists(w[t].pkt.key)
     \/ /\ w[t].pc = "verify2" /\ w[t].ref = "live"
        /\ verify_neighbor_in_domain(w[t].pkt.tag)
        /\ Decompresses(w[t].pkt) /\ ~ w[t].pkt.data
     \/ w[t].pc = "flags" /\ w[t].has
  /\ BecomeUndefined

handler_uses_closed == closing /\ ~ open /\ f.pc # "undefined" /\ BecomeUndefined

FetcherStep ==
  \/ fetcher_verify \/ fetcher_verified \/ fetcher_verify_again
  \/ fetcher_insert \/ fetcher_get \/ fetcher_get_fails \/ fetcher_save
  \/ fetcher_route \/ fetcher_deoptimize \/ fetcher_abandon
  \/ fetcher_uses_freed \/ fetcher_uses_closed

WorkerStep(t) ==
  \/ worker_dequeue(t) \/ worker_getsession(t)
  \/ worker_optimize(t) \/ worker_verified(t) \/ worker_deoptimize(t) \/ worker_neither(t)
  \/ worker_flags(t)
  \/ worker_uses_freed(t) \/ worker_uses_closed(t)

Next ==
  \/ \E p \in Arrival : fetcher_callback(p)
  \/ FetcherStep
  \/ \E t \in Thread : WorkerStep(t)
  \/ \E k \in Key : cleanup(k)
  \/ neighbor_changes
  \/ fetcher_function_ends
  \/ signal_handler \/ fetcher_graceful_exit \/ handler_uses_closed

Spec == Init /\ [][Next]_vars

(* The threads keep running, whatever the neighbor does. *)
FairSpec ==
  /\ Spec
  /\ WF_vars(FetcherStep)
  /\ \A t \in Thread : WF_vars(WorkerStep(t))

-----------------------------------------------------------------------------

(* Type correctness. *)
TypeOK ==
  /\ running \in BOOLEAN /\ open \in BOOLEAN /\ closing \in BOOLEAN
  /\ up \in BOOLEAN /\ raced \in BOOLEAN /\ starved \subseteq Id
  /\ session \in [Key -> SessionType \cup {NoSession}]
  /\ count \in 0 .. MaxPackets
  /\ f \in [pc : {"idle", "verify", "verify2", "insert", "get", "save", "route", "route2",
                  "deoptimize", "ended", "undefined"},
            pkt : PacketType \cup {Zero}, ref : {"none", "live", "freed"},
            buf : Buffer \cup {NoBuffer}, deopt : BOOLEAN]
  /\ free \subseteq Buffer
  /\ data \in [Buffer -> PacketType \cup {Zero}]
  /\ queue \in [Thread -> Seq(Buffer)]
  /\ w \in [Thread -> [pc : {"idle", "lookup", "verify", "verify2", "flags",
                             "undefined"},
                       pkt : PacketType \cup {Zero}, ref : {"none", "live", "freed"},
                       buf : Buffer \cup {NoBuffer}, has : BOOLEAN]]
  /\ verdict \in [Id -> {"none", "pending", "accept", "drop"}]

\* The fetcher, or a worker thread, has packet i; i waits in a queue.
WithFetcher(i) == f.pc # "idle" /\ f.pkt.id = i
WithWorker(i, t) == w[t].has /\ w[t].pkt.id = i
Waiting(i, t) == \E n \in 1 .. Len(queue[t]) : data[queue[t][n]].id = i

(* "This packet will be placed in a queue to be processed" (fetcher.c):    *)
(* a packet without a verdict is in somebody's hands, unless there was no  *)
(* buffer for it.  It is not so when the neighbor changes between the      *)
(* fetcher's two questions.                                                *)
NeverForgotten ==
  \A i \in Id \ starved : verdict[i] = "pending" =>
    \/ WithFetcher(i)
    \/ \E t \in Thread : WithWorker(i, t) \/ Waiting(i, t)

(* Those are the only two ways: as long as the neighbor keeps its state    *)
(* between the two questions, only get_freepacket_buffer returning NULL    *)
(* makes the threads forget a packet.                                      *)
Accounted == ~ raced => NeverForgotten

\* The buffers in use, one entry for each use.
FetcherHas(b) == f.buf = b
WorkerHas(b, t) == w[t].has /\ w[t].buf = b

(* A buffer has one user: it is free, the fetcher's, a worker's, or at one *)
(* place of one queue.  In particular a worker's DROP branch and its last  *)
(* lines never return a buffer twice.                                      *)
OneUser ==
  \A b \in Buffer :
    /\ b \in free => ~ FetcherHas(b)
    /\ \A t \in Thread :
         /\ WorkerHas(b, t) => b \notin free /\ ~ FetcherHas(b)
         /\ \A u \in Thread \ {t} : ~ (WorkerHas(b, t) /\ WorkerHas(b, u))
         /\ \A n \in 1 .. Len(queue[t]) : queue[t][n] = b =>
              /\ b \notin free /\ ~ FetcherHas(b)
              /\ \A u \in Thread :
                   /\ ~ WorkerHas(b, u)
                   /\ \A m \in 1 .. Len(queue[u]) : queue[u][m] = b => u = t /\ m = n

(* A worker's buffer holds the packet it took until the worker returns it: *)
(* iph, tcph and remoteID, which point into the buffer, stay those of that *)
(* packet while the fetcher fills other buffers.  After the DROP branch    *)
(* they do not, and the flags read there may be those of another packet.   *)
BufferKeepsPacket ==
  \A t \in Thread : w[t].has =>
    /\ data[w[t].buf].id = w[t].pkt.id /\ data[w[t].buf].kind = w[t].pkt.kind
    /\ data[w[t].buf].key = w[t].pkt.key

Nfq == INSTANCE NfQueue

(* The daemon keeps its promise to the Netfilter queue: no packet gets a   *)
(* second verdict.                                                         *)
OneVerdict == Nfq!NfqSpec

(* Every packet gets its verdict, unless there was no buffer for it, the   *)
(* neighbor changed between the fetcher's two questions, the Netfilter     *)
(* queue was closed first, or freed memory was used.                       *)
EveryPacketDecided ==
  \A i \in Id : verdict[i] = "pending" ~>
                  verdict[i] # "pending" \/ i \in starved \/ raced \/ ~ open \/ Undefined

=============================================================================
