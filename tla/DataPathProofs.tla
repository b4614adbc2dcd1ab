--------------------------- MODULE DataPathProofs ---------------------------
(***************************************************************************)
(* Proofs about DataPath, for every number of workers, buffers, keys and   *)
(* packets.                                                                *)
(*                                                                         *)
(* OneUser and BufferKeepsPacket are not inductive: that no buffer is      *)
(* returned twice depends on what each thread has at each of its steps     *)
(* (FetcherPhase, WorkerPhase), on the buffers' users (Users) and on which *)
(* packets they hold (Packets).  Inv has all of it, and also gives the     *)
(* refinement of NfQueue.                                                  *)
(*                                                                         *)
(* That no packet is forgotten (Accounted) comes on top of it: a packet    *)
(* the fetcher queues is in somebody's hands only if there is a worker to  *)
(* queue it for, so a live session pointer has to lead to a session        *)
(* (Sess); and it is queued at all only if the second question about the   *)
(* neighbor has the answer of the first (Asked).                           *)
(***************************************************************************)
EXTENDS DataPath, TLAPS

\* b waits for t; a worker thread has b or will.
Queued(b, t) == \E n \in 1 .. Len(queue[t]) : queue[t][n] = b

Live(b) == \E t \in Thread : Queued(b, t) \/ WorkerHas(b, t)

(* The types of f and w, as in TypeOK. *)
FetcherType ==
  [pc : {"idle", "verify", "verify2", "insert", "get", "save", "route", "route2",
         "deoptimize", "ended", "undefined"},
   pkt : PacketType \cup {Zero}, ref : {"none", "live", "freed"},
   buf : Buffer \cup {NoBuffer}, deopt : BOOLEAN]
WorkerType ==
  [pc : {"idle", "lookup", "verify", "verify2", "flags", "undefined"},
   pkt : PacketType \cup {Zero}, ref : {"none", "live", "freed"},
   buf : Buffer \cup {NoBuffer}, has : BOOLEAN]

(* The types of what the buffers and packets depend on. *)
Types ==
  /\ f \in FetcherType
  /\ w \in [Thread -> WorkerType]
  /\ free \subseteq Buffer
  /\ data \in [Buffer -> PacketType \cup {Zero}]
  /\ queue \in [Thread -> Seq(Buffer)]
  /\ count \in 0 .. MaxPackets
  /\ verdict \in [Id -> {"none", "pending", "accept", "drop"}]

(* The fetcher has a packet. *)
Busy == f.pc \notin {"idle", "ended", "undefined"}

(* What the fetcher and a worker have at each place. *)
FetcherPhase ==
  /\ Busy => f.pkt \in PacketType
  /\ f.pc \in {"idle", "ended", "verify", "verify2", "insert", "get"} => f.buf = NoBuffer
  /\ f.pc \in {"save", "route", "route2", "deoptimize"} => f.buf \in Buffer
  /\ f.pc \in {"route", "route2", "deoptimize"} => data[f.buf] = f.pkt

WorkerPhase ==
  \A t \in Thread :
    /\ w[t].pc \in {"lookup", "verify", "verify2"} => w[t].has
    /\ w[t].pc = "idle" => ~ w[t].has
    /\ w[t].has => w[t].buf \in Buffer /\ w[t].pkt \in PacketType

(* Every buffer has one user, at one place. *)
Users ==
  /\ \A t \in Thread : \A m, n \in 1 .. Len(queue[t]) : queue[t][m] = queue[t][n] => m = n
  /\ \A b \in free : ~ FetcherHas(b)
  /\ \A b \in Buffer, t \in Thread : Queued(b, t) =>
       /\ b \notin free /\ ~ FetcherHas(b)
       /\ \A u \in Thread : ~ WorkerHas(b, u) /\ (Queued(b, u) => u = t)
  /\ \A b \in Buffer, t \in Thread : WorkerHas(b, t) =>
       /\ b \notin free /\ ~ FetcherHas(b)
       /\ \A u \in Thread : WorkerHas(b, u) => u = t

(* A packet in a buffer waits for its verdict, and is in no other one. *)
Packets ==
  /\ \A b \in Buffer : Live(b) =>
       /\ data[b] \in PacketType
       /\ data[b].id \in 1 .. count /\ verdict[data[b].id] = "pending"
  /\ \A b, c \in Buffer : Live(b) /\ Live(c) /\ data[b].id = data[c].id => b = c
  /\ Busy =>
       /\ f.pkt.id \in 1 .. count /\ verdict[f.pkt.id] = "pending"
       /\ \A b \in Buffer : Live(b) => data[b].id # f.pkt.id
  /\ \A i \in Id : i > count => verdict[i] = "none"

(* The inductive invariant. *)
Inv == Types /\ FetcherPhase /\ WorkerPhase /\ Users /\ Packets /\ BufferKeepsPacket

-----------------------------------------------------------------------------

(* What dequeue_packet does to a queue. *)
LEMMA Taken ==
  ASSUME NEW s \in Seq(Buffer), s # <<>>
  PROVE  /\ Head(s) \in Buffer /\ Tail(s) \in Seq(Buffer)
         /\ \A b : (\E n \in 1 .. Len(Tail(s)) : Tail(s)[n] = b) => \E n \in 1 .. Len(s) : s[n] = b
         /\ \E n \in 1 .. Len(s) : s[n] = Head(s)
         /\ (\A m, n \in 1 .. Len(s) : s[m] = s[n] => m = n) =>
              /\ \A m, n \in 1 .. Len(Tail(s)) : Tail(s)[m] = Tail(s)[n] => m = n
              /\ \A n \in 1 .. Len(Tail(s)) : Tail(s)[n] # Head(s)
<1>1. Len(s) \in Nat /\ Len(s) > 0 /\ Head(s) = s[1]
  OBVIOUS
<1>2. Len(Tail(s)) = Len(s) - 1 /\ \A n \in 1 .. Len(Tail(s)) : Tail(s)[n] = s[n + 1]
  OBVIOUS
<1>. QED  BY <1>1, <1>2

(* What queue_packet does to a queue. *)
LEMMA Put ==
  ASSUME NEW s \in Seq(Buffer), NEW c \in Buffer
  PROVE  /\ Append(s, c) \in Seq(Buffer)
         /\ \A b : (\E n \in 1 .. Len(Append(s, c)) : Append(s, c)[n] = b) <=>
                     b = c \/ \E n \in 1 .. Len(s) : s[n] = b
         /\ (\A m, n \in 1 .. Len(s) : s[m] = s[n] => m = n)
            /\ (\A n \in 1 .. Len(s) : s[n] # c) =>
              \A m, n \in 1 .. Len(Append(s, c)) :
                 Append(s, c)[m] = Append(s, c)[n] => m = n
<1>1. Append(s, c) \in Seq(Buffer) /\ Len(Append(s, c)) = Len(s) + 1 /\ Len(s) \in Nat
  OBVIOUS
<1>2. /\ Append(s, c)[Len(s) + 1] = c
      /\ \A n \in 1 .. Len(s) : Append(s, c)[n] = s[n]
  OBVIOUS
<1>. QED  BY <1>1, <1>2

(* Flagging a packet as compressed, or not, and tagging it. *)
LEMMA Flagged ==
  ASSUME NEW p \in PacketType, NEW c
  PROVE  [p EXCEPT !.comp = @ /\ c] \in PacketType
  BY Zenon DEF PacketType

(* A packet with the accelerator's tag is a packet. *)
LEMMA Tagged ==
  ASSUME NEW p \in PacketType, NEW c
  PROVE  [p EXCEPT !.tag = Local, !.comp = @ \/ c] \in PacketType
<1>1. Local \in {NoID, Peer, Local}
  BY Zenon
<1>. QED  BY <1>1, Zenon DEF PacketType

(* What the fetcher, and a worker, look like after a step. *)
LEMMA Idle == IdleFetcher \in FetcherType /\ IdleWorker \in WorkerType
  BY Zenon DEF IdleFetcher, IdleWorker, FetcherType, WorkerType

(* clearsession changes no more of a thread than its session pointer. *)
LEMMA FreedWorker ==
  ASSUME NEW k, NEW x \in WorkerType
  PROVE  /\ Freed(x, k) \in WorkerType
         /\ Freed(x, k).pc = x.pc /\ Freed(x, k).pkt = x.pkt
         /\ Freed(x, k).buf = x.buf /\ Freed(x, k).has = x.has
<1>1. CASE Freed(x, k) = x
  BY <1>1, Zenon
<1>2. CASE Freed(x, k) = [x EXCEPT !.ref = "freed"]
  BY <1>2, Zenon DEF WorkerType
<1>. QED  BY <1>1, <1>2, Zenon DEF Freed

(* The same for the fetcher. *)
LEMMA FreedFetcher ==
  ASSUME NEW k, NEW x \in FetcherType
  PROVE  /\ Freed(x, k) \in FetcherType
         /\ Freed(x, k).pc = x.pc /\ Freed(x, k).pkt = x.pkt
         /\ Freed(x, k).buf = x.buf
<1>1. CASE Freed(x, k) = x
  BY <1>1, Zenon
<1>2. CASE Freed(x, k) = [x EXCEPT !.ref = "freed"]
  BY <1>2, Zenon DEF FetcherType
<1>. QED  BY <1>1, <1>2, Zenon DEF Freed

-----------------------------------------------------------------------------

(* A step that gives nobody a buffer and touches no packet in one. *)
LEMMA Quiet ==
  ASSUME Inv,
         f' \in FetcherType, w' \in [Thread -> WorkerType], FetcherPhase', WorkerPhase',
         f'.buf = f.buf \/ f'.pc = "idle", 
         Busy' => Busy /\ f'.pkt.id = f.pkt.id,
         \A t \in Thread : w'[t].has => w[t].has /\ w'[t].buf = w[t].buf /\ w'[t].pkt = w[t].pkt,
         free' = free, data' = data, queue' = queue, count' = count, verdict' = verdict
  PROVE  Inv'
<1>1. Types'
  BY Zenon DEF Inv, Types
<1>2. \A b \in Buffer, t \in Thread : Queued(b, t)' <=> Queued(b, t)
  BY Zenon DEF Queued
<1>3. \A b \in Buffer, t \in Thread : WorkerHas(b, t)' => WorkerHas(b, t)
  BY Zenon DEF WorkerHas
<1>4. \A b \in Buffer : FetcherHas(b)' => FetcherHas(b)
  BY DataPathAssumption, Zenon DEF FetcherHas, FetcherPhase
<1>5. Users'
  BY <1>2, <1>3, <1>4, Zenon DEF Inv, Users, Types
<1>6. \A b \in Buffer : Live(b)' => Live(b)
  BY <1>2, <1>3, Zenon DEF Live
<1>7. Packets'
  BY <1>6 DEF Inv, Packets
<1>8. BufferKeepsPacket'
  BY DEF Inv, BufferKeepsPacket
<1>. QED  BY <1>1, <1>5, <1>7, <1>8, Zenon DEF Inv

(* Steps of other threads. *)
LEMMA SameThreads ==
  ASSUME Inv, f' = f, w' = w, free' = free, data' = data, queue' = queue,
         count' = count, verdict' = verdict
  PROVE  Inv'
<1>1. FetcherPhase' /\ WorkerPhase' /\ (Busy' <=> Busy)
  BY Zenon DEF Inv, FetcherPhase, WorkerPhase, Busy
<1>. QED  BY <1>1, Quiet, Zenon DEF Inv, Types

(* The first question about the neighbor, answered yes. *)
LEMMA VerifiedKeeps ==
  ASSUME Inv, fetcher_verified
  PROVE  Inv'
<1>1. f.pc \in {"verify", "route"} /\ f \in FetcherType
  BY Zenon DEF fetcher_verified, Inv, Types
<1>2. PICK pc \in {"verify2", "route2"} :
         f' = [f EXCEPT !.pc = pc] /\ (pc = "verify2" <=> f.pc = "verify")
  BY Zenon DEF fetcher_verified
<1>3. f' \in FetcherType /\ f'.pc = pc /\ f'.pkt = f.pkt /\ f'.buf = f.buf
  BY <1>1, <1>2, Zenon DEF FetcherType
<1>4. FetcherPhase'
  BY <1>1, <1>2, <1>3, Zenon DEF fetcher_verified, Inv, FetcherPhase, Busy
<1>5. w' = w /\ WorkerPhase'
  BY Zenon DEF fetcher_verified, Inv, WorkerPhase
<1>. QED  BY <1>1, <1>3, <1>4, <1>5, Quiet, Zenon DEF fetcher_verified, Inv, Types, Busy

(* The ID of a session the neighbor has told of. *)
LEMMA InsertKeeps ==
  ASSUME Inv, fetcher_insert
  PROVE  Inv'
<1>1. f.pc = "insert" /\ f \in FetcherType /\ f.pkt \in PacketType
  BY Zenon DEF fetcher_insert, Inv, Types, FetcherPhase, Busy
<1>2. PICK id \in {NoID, Peer, Local} : f' = [f EXCEPT !.pc = "get", !.pkt.tag = id]
  BY <1>1, Zenon DEF fetcher_insert, PacketType
<1>3. [f.pkt EXCEPT !.tag = id] \in PacketType /\ [f.pkt EXCEPT !.tag = id].id = f.pkt.id
  BY <1>1, Zenon DEF PacketType
<1>4. f' = [f EXCEPT !.pc = "get", !.pkt = [f.pkt EXCEPT !.tag = id]]
  BY <1>1, <1>2, Zenon DEF FetcherType
<1>5. /\ f' \in FetcherType /\ f'.pc = "get" /\ f'.buf = f.buf
      /\ f'.pkt = [f.pkt EXCEPT !.tag = id]
  BY <1>1, <1>3, <1>4, Zenon DEF FetcherType
<1>6. FetcherPhase'
  BY <1>1, <1>3, <1>5, Zenon DEF Inv, FetcherPhase, Busy
<1>7. w' = w /\ WorkerPhase'
  BY Zenon DEF fetcher_insert, Inv, WorkerPhase
<1>. QED  BY <1>1, <1>3, <1>5, <1>6, <1>7, Quiet, Zenon DEF fetcher_insert, Inv, Types, Busy

(* The packet and its buffer, if there is one, are forgotten; nobody else  *)
(* has them.                                                               *)
LEMMA AbandonKeeps ==
  ASSUME Inv, fetcher_abandon \/ fetcher_get_fails
  PROVE  Inv'
<1>1. /\ f' = IdleFetcher /\ w' = w /\ free' = free /\ data' = data /\ queue' = queue
      /\ count' = count /\ verdict' = verdict
  BY Zenon DEF fetcher_abandon, fetcher_get_fails
<1>2. f' \in FetcherType /\ f'.pc = "idle" /\ f'.buf = NoBuffer
  BY <1>1, Idle, Zenon DEF IdleFetcher
<1>3. FetcherPhase' /\ ~ Busy'
  BY <1>2, Zenon DEF FetcherPhase, Busy
<1>4. WorkerPhase'
  BY <1>1, Zenon DEF Inv, WorkerPhase
<1>. QED  BY <1>1, <1>2, <1>3, <1>4, Quiet, Zenon DEF Inv, Types

(* The fetcher leaves its loop. *)
LEMMA EndKeeps ==
  ASSUME Inv, fetcher_function_ends
  PROVE  Inv'
<1>1. f.pc = "idle" /\ f \in FetcherType /\ f' = [f EXCEPT !.pc = "ended"]
  BY Zenon DEF fetcher_function_ends, Inv, Types
<1>2. f' \in FetcherType /\ f'.pc = "ended" /\ f'.buf = f.buf
  BY <1>1, Zenon DEF FetcherType
<1>3. FetcherPhase'
  BY <1>1, <1>2, Zenon DEF Inv, FetcherPhase, Busy
<1>4. w' = w /\ WorkerPhase'
  BY Zenon DEF fetcher_function_ends, Inv, WorkerPhase
<1>. QED  BY <1>2, <1>3, <1>4, Quiet, Zenon DEF fetcher_function_ends, Inv, Types, Busy

(* A worker goes on without touching its buffer. *)
LEMMA WorkerGoesOn ==
  ASSUME Inv, NEW t \in Thread, NEW pc \in {"verify2", "flags"},
         w[t].pc \in {"verify", "verify2"}, w' = [w EXCEPT ![t].pc = pc],
         UNCHANGED <<f, free, data, queue, count, verdict>>
  PROVE  Inv'
<1>1. w \in [Thread -> WorkerType] /\ w[t].has
  BY Zenon DEF Inv, Types, WorkerPhase
<1>2. w' = [w EXCEPT ![t] = [w[t] EXCEPT !.pc = pc]]
  BY <1>1, Zenon
<1>3. /\ [w[t] EXCEPT !.pc = pc] \in WorkerType /\ [w[t] EXCEPT !.pc = pc].pc = pc
      /\ [w[t] EXCEPT !.pc = pc].has = w[t].has /\ [w[t] EXCEPT !.pc = pc].buf = w[t].buf
      /\ [w[t] EXCEPT !.pc = pc].pkt = w[t].pkt
  BY <1>1, Zenon DEF WorkerType
<1>4. w' \in [Thread -> WorkerType]
  BY <1>1, <1>2, <1>3, Zenon
<1>5. \A u \in Thread : /\ w'[u].has = w[u].has /\ w'[u].buf = w[u].buf
                        /\ w'[u].pkt = w[u].pkt
                        /\ w'[u].pc = IF u = t THEN pc ELSE w[u].pc
  BY <1>1, <1>2, <1>3, Zenon
<1>6. WorkerPhase'
  BY <1>1, <1>5 DEF Inv, WorkerPhase
<1>7. FetcherPhase'
  BY Zenon DEF Inv, FetcherPhase, Busy
<1>. QED  BY <1>4, <1>5, <1>6, <1>7, Quiet, Zenon DEF Inv, Types, Busy

(* The clean-up thread frees a session. *)
LEMMA CleanupKeeps ==
  ASSUME Inv, NEW k \in Key, cleanup(k)
  PROVE  Inv'
<1>1. f \in FetcherType /\ w \in [Thread -> WorkerType]
  BY Zenon DEF Inv, Types
<1>2. f' = Freed(f, k) /\ w' = [t \in Thread |-> Freed(w[t], k)]
  BY Zenon DEF cleanup, clearsession
<1>3. f' \in FetcherType /\ f'.pc = f.pc /\ f'.pkt = f.pkt /\ f'.buf = f.buf
  BY <1>1, <1>2, FreedFetcher, Zenon
<1>4. \A t \in Thread : /\ w'[t] \in WorkerType
                        /\ w'[t].pc = w[t].pc /\ w'[t].pkt = w[t].pkt
                        /\ w'[t].buf = w[t].buf /\ w'[t].has = w[t].has
  BY <1>1, <1>2, FreedWorker
<1>5. w' \in [Thread -> WorkerType]
  BY <1>2, <1>4, Zenon
<1>6. FetcherPhase' /\ WorkerPhase'
  BY <1>3, <1>4 DEF cleanup, Inv, FetcherPhase, WorkerPhase, Busy
<1>. QED  BY <1>3, <1>4, <1>5, <1>6, Quiet, Zenon DEF cleanup, Busy

(* Use of a freed session. *)
LEMMA UndefinedKeeps ==
  ASSUME Inv, BecomeUndefined
  PROVE  Inv'
<1>1. f \in FetcherType /\ w \in [Thread -> WorkerType]
  BY Zenon DEF Inv, Types
<1>2. /\ f' = [f EXCEPT !.pc = "undefined"]
      /\ w' = [t \in Thread |-> [w[t] EXCEPT !.pc = "undefined"]]
  BY Zenon DEF BecomeUndefined
<1>3. f' \in FetcherType /\ f'.pc = "undefined" /\ f'.pkt = f.pkt /\ f'.buf = f.buf
  BY <1>1, <1>2, Zenon DEF FetcherType
<1>4. \A t \in Thread : /\ w'[t] \in WorkerType
                        /\ w'[t].pc = "undefined" /\ w'[t].pkt = w[t].pkt
                        /\ w'[t].buf = w[t].buf /\ w'[t].has = w[t].has
  BY <1>1, <1>2 DEF WorkerType
<1>5. w' \in [Thread -> WorkerType]
  BY <1>2, <1>4, Zenon
<1>6. FetcherPhase' /\ WorkerPhase'
  BY <1>3, <1>4, Zenon DEF Inv, FetcherPhase, WorkerPhase, Busy
<1>. QED  BY <1>3, <1>4, <1>5, <1>6, Quiet, Zenon DEF BecomeUndefined, Busy

-----------------------------------------------------------------------------
(* The fetcher *)

(* A packet comes, gets its verdict at once or is kept. *)
LEMMA CallbackKeeps ==
  ASSUME Inv, NEW a \in Arrival, fetcher_callback(a)
  PROVE  Inv' /\ \E i \in Id, v \in {"accept", "pending"} :
                   verdict[i] = "none" /\ verdict' = [verdict EXCEPT ![i] = v]
<1> DEFINE p == [a EXCEPT !.id = count + 1]
           i == count + 1
<1>1. /\ f.pc = "idle" /\ i \in Id /\ i \in Nat /\ count \in Nat /\ verdict[i] = "none"
      /\ count' = i
  <2>1. f.pc = "idle" /\ count < MaxPackets /\ count' = count + 1
    BY Zenon DEF fetcher_callback
  <2>. QED  BY <2>1, DataPathAssumption DEF Inv, Types, Packets, Id
<1>2. p \in PacketType /\ p.id = i
  BY <1>1, DataPathAssumption DEF PacketType
<1>3. w' = w /\ free' = free /\ data' = data /\ queue' = queue
  BY Zenon DEF fetcher_callback
<1>4. \/ verdict' = [verdict EXCEPT ![i] = "accept"] /\ f' = f
      \/ /\ verdict' = [verdict EXCEPT ![i] = "pending"]
         /\ \E pc \in {"verify", "get", "insert"} :
              f' = [pc |-> pc, pkt |-> p, ref |-> "live", buf |-> NoBuffer, deopt |-> pc = "insert"]
  BY <1>2, Zenon DEF fetcher_callback, Fetch, nfq_set_verdict
<1>. HIDE DEF p, i
<1>5. Types'
  <2>1. f' \in FetcherType
    <3>1. ASSUME NEW pc \in {"verify", "get", "insert"}
          PROVE  [pc |-> pc, pkt |-> p, ref |-> "live", buf |-> NoBuffer, deopt |-> pc = "insert"]
                    \in FetcherType
      BY <1>2, Zenon DEF FetcherType
    <3>. QED  BY <1>4, <3>1 DEF Inv, Types
  <2>2. verdict' \in [Id -> {"none", "pending", "accept", "drop"}]
    BY <1>1, <1>4, Zenon DEF Inv, Types
  <2>3. count' \in 0 .. MaxPackets
    BY <1>1, DataPathAssumption DEF Id
  <2>. QED  BY <1>3, <2>1, <2>2, <2>3, Zenon DEF Inv, Types
<1>6. WorkerPhase' /\ BufferKeepsPacket'
  BY <1>3, Zenon DEF Inv, WorkerPhase, BufferKeepsPacket
<1>7. /\ f'.buf = NoBuffer /\ f'.pc \in {"idle", "verify", "get", "insert"}
      /\ f'.pc # "idle" => f'.pkt = p /\ verdict' = [verdict EXCEPT ![i] = "pending"]
  BY <1>1, <1>4 DEF Inv, FetcherPhase
<1>8. FetcherPhase'
  BY <1>2, <1>7, Zenon DEF FetcherPhase, Busy
<1>9. Users'
  <2>1. \A b \in Buffer : ~ FetcherHas(b)'
    BY <1>7, DataPathAssumption, Zenon DEF FetcherHas
  <2>2. \A b \in Buffer, t \in Thread :
          (Queued(b, t)' <=> Queued(b, t)) /\ (WorkerHas(b, t)' <=> WorkerHas(b, t))
    BY <1>3, Zenon DEF Queued, WorkerHas
  <2>. QED  BY <1>3, <2>1, <2>2, Zenon DEF Inv, Users, Types
<1>10. Packets'
  <2>1. \A b \in Buffer : Live(b)' <=> Live(b)
    BY <1>3, Zenon DEF Live, Queued, WorkerHas
  <2>2. \A b \in Buffer : Live(b) =>
           /\ data[b].id \in 1 .. count /\ data[b].id # i /\ data[b].id \in Id
           /\ verdict'[data[b].id] = "pending"
    BY <1>1, <1>4, DataPathAssumption DEF Inv, Packets, Types, Id, i
  <2>3. Busy' => f'.pkt.id = i /\ verdict'[i] = "pending"
    BY <1>1, <1>2, <1>7, Zenon DEF Busy, Inv, Types
  <2>4. \A j \in Id : j > count' => verdict'[j] = "none"
    <3>. SUFFICES ASSUME NEW j \in Id, j > count' PROVE verdict'[j] = "none"
      BY Zenon
    <3>1. j > count /\ j # i
      BY <1>1, DataPathAssumption DEF Id, i
    <3>2. verdict[j] = "none"
      BY <3>1, Zenon DEF Inv, Packets
    <3>. QED  BY <1>1, <1>4, <3>1, <3>2, Zenon DEF Inv, Types
  <2>. QED  BY <1>1, <1>3, <2>1, <2>2, <2>3, <2>4 DEF Inv, Packets, i
<1>. QED  BY <1>1, <1>4, <1>5, <1>6, <1>8, <1>9, <1>10, Zenon DEF Inv

(* A SYN or SYN/ACK is accepted by the fetcher. *)
LEMMA HandshakeKeeps ==
  ASSUME Inv, NEW s, f.pc \in {"verify", "verify2"}, AcceptHandshake(s)
  PROVE  Inv' /\ \E i \in Id : /\ verdict[i] = "pending"
                              /\ verdict' = [verdict EXCEPT ![i] = "accept"]
<1> DEFINE i == f.pkt.id
<1>1. i \in 1 .. count /\ i \in Id /\ verdict[i] = "pending"
  BY DataPathAssumption DEF Inv, Packets, Busy, Types, Id
<1>2. /\ f' = IdleFetcher /\ verdict' = [verdict EXCEPT ![i] = "accept"]
      /\ w' = w /\ free' = free /\ data' = data /\ queue' = queue /\ count' = count
  BY Zenon DEF AcceptHandshake, nfq_set_verdict
<1>3. f' \in FetcherType /\ f'.pc = "idle" /\ f'.buf = NoBuffer
  BY <1>2, Idle, Zenon DEF IdleFetcher
<1>4. Types'
  BY <1>1, <1>2, <1>3, Zenon DEF Inv, Types
<1>5. FetcherPhase' /\ WorkerPhase' /\ BufferKeepsPacket'
  BY <1>2, <1>3, Zenon DEF Inv, FetcherPhase, WorkerPhase, BufferKeepsPacket, Busy
<1>6. Users'
  <2>1. \A b \in Buffer : ~ FetcherHas(b)'
    BY <1>3, DataPathAssumption, Zenon DEF FetcherHas
  <2>2. \A b \in Buffer, t \in Thread :
          (Queued(b, t)' <=> Queued(b, t)) /\ (WorkerHas(b, t)' <=> WorkerHas(b, t))
    BY <1>2, Zenon DEF Queued, WorkerHas
  <2>. QED  BY <1>2, <2>1, <2>2 DEF Inv, Users, Types
<1>7. Packets'
  <2>1. \A b \in Buffer : Live(b)' <=> Live(b)
    BY <1>2, Zenon DEF Live, Queued, WorkerHas
  <2>2. \A b \in Buffer : Live(b) => verdict'[data[b].id] = "pending"
    <3>. SUFFICES ASSUME NEW b \in Buffer, Live(b) PROVE verdict'[data[b].id] = "pending"
      BY Zenon
    <3>1. data[b].id # i /\ verdict[data[b].id] = "pending" /\ data[b].id \in 1 .. count
      BY Zenon DEF Inv, Packets, Busy
    <3>2. data[b].id \in Id
      BY <3>1, DataPathAssumption DEF Inv, Types, Id
    <3>. QED  BY <1>1, <1>2, <3>1, <3>2, Zenon DEF Inv, Types
  <2>3. ASSUME NEW j \in Id, j > count' PROVE verdict'[j] = "none"
    <3>1. j > count /\ j # i
      BY <1>1, <1>2, <2>3, DataPathAssumption DEF Inv, Types, Id
    <3>. QED  BY <1>1, <1>2, <3>1, Zenon DEF Inv, Packets, Types
  <2>4. ~ Busy'
    BY <1>3, Zenon DEF Busy
  <2>. QED  BY <1>2, <2>1, <2>2, <2>3, <2>4 DEF Inv, Packets
<1>. QED  BY <1>1, <1>2, <1>4, <1>5, <1>6, <1>7, Zenon DEF Inv

(* get_freepacket_buffer: a free buffer is nobody else's. *)
LEMMA GetKeeps ==
  ASSUME Inv, fetcher_get
  PROVE  Inv'
<1>1. PICK b \in free :
         /\ free' = free \ {b} /\ data' = [data EXCEPT ![b] = Zero]
         /\ f' = [f EXCEPT !.pc = "save", !.buf = b]
  BY Zenon DEF fetcher_get
<1>2. /\ f.pc = "get" /\ f \in FetcherType /\ b \in Buffer
      /\ w' = w /\ queue' = queue /\ count' = count /\ verdict' = verdict
  BY Zenon DEF fetcher_get, Inv, Types
<1>3. f' \in FetcherType /\ f'.pc = "save" /\ f'.buf = b /\ f'.pkt = f.pkt
  BY <1>1, <1>2, Zenon DEF FetcherType
<1>4. Types'
  BY <1>1, <1>2, <1>3, Zenon DEF Inv, Types
<1>5. \A t \in Thread : ~ Queued(b, t) /\ ~ WorkerHas(b, t)
  BY <1>2, Zenon DEF Inv, Users
<1>6. \A c \in Buffer, t \in Thread :
        (Queued(c, t)' <=> Queued(c, t)) /\ (WorkerHas(c, t)' <=> WorkerHas(c, t))
  BY <1>2, Zenon DEF Queued, WorkerHas
<1>7. FetcherPhase' /\ WorkerPhase'
  BY <1>2, <1>3, Zenon DEF Inv, FetcherPhase, WorkerPhase, Busy
<1>8. Users'
  <2>1. \A c \in Buffer : FetcherHas(c)' <=> c = b
    BY <1>3, Zenon DEF FetcherHas
  <2>. QED  BY <1>1, <1>2, <1>5, <1>6, <2>1 DEF Inv, Users, Types
<1>9. \A c \in Buffer : (Live(c)' <=> Live(c)) /\ (Live(c) => data'[c] = data[c])
  BY <1>1, <1>5, <1>6, Zenon DEF Live, Inv, Types
<1>10. Packets'
  BY <1>2, <1>3, <1>9 DEF Inv, Packets, Busy
<1>11. BufferKeepsPacket'
  <2>. SUFFICES ASSUME NEW t \in Thread, w[t].has
                PROVE  data'[w[t].buf] = data[w[t].buf]
    BY <1>2 DEF Inv, BufferKeepsPacket
  <2>1. w[t].buf \in Buffer /\ WorkerHas(w[t].buf, t)
    BY Zenon DEF Inv, WorkerPhase, WorkerHas
  <2>. QED  BY <2>1, <1>1, <1>5, Zenon DEF Inv, Types
<1>. QED  BY <1>4, <1>7, <1>8, <1>10, <1>11, Zenon DEF Inv

(* save_packet: the fetcher writes to its own buffer. *)
LEMMA SaveKeeps ==
  ASSUME Inv, fetcher_save
  PROVE  Inv'
<1>1. /\ f.pc = "save" /\ f \in FetcherType /\ f.buf \in Buffer /\ f.pkt \in PacketType
      /\ w' = w /\ queue' = queue /\ count' = count /\ verdict' = verdict /\ free' = free
      /\ data' = [data EXCEPT ![f.buf] = f.pkt]
  BY Zenon DEF fetcher_save, Inv, Types, FetcherPhase, Busy
<1>2. PICK pc \in {"deoptimize", "route"} : f' = [f EXCEPT !.pc = pc]
  BY Zenon DEF fetcher_save
<1>3. f' \in FetcherType /\ f'.pc = pc /\ f'.buf = f.buf /\ f'.pkt = f.pkt
  BY <1>1, <1>2, Zenon DEF FetcherType
<1>4. Types'
  BY <1>1, <1>3, Zenon DEF Inv, Types
<1>5. \A t \in Thread : ~ Queued(f.buf, t) /\ ~ WorkerHas(f.buf, t)
  BY <1>1, Zenon DEF Inv, Users, FetcherHas
<1>6. \A c \in Buffer, t \in Thread :
        (Queued(c, t)' <=> Queued(c, t)) /\ (WorkerHas(c, t)' <=> WorkerHas(c, t))
  BY <1>1, Zenon DEF Queued, WorkerHas
<1>7. FetcherPhase' /\ WorkerPhase'
  BY <1>1, <1>3, Zenon DEF Inv, Types, FetcherPhase, WorkerPhase, Busy
<1>8. Users'
  <2>1. \A c \in Buffer : FetcherHas(c)' <=> FetcherHas(c)
    BY <1>3, Zenon DEF FetcherHas
  <2>. QED  BY <1>1, <1>6, <2>1 DEF Inv, Users, Types
<1>9. \A c \in Buffer : (Live(c)' <=> Live(c)) /\ (Live(c) => data'[c] = data[c])
  BY <1>1, <1>5, <1>6, Zenon DEF Live, Inv, Types
<1>10. Packets'
  BY <1>1, <1>3, <1>9 DEF Inv, Packets, Busy
<1>11. BufferKeepsPacket'
  <2>. SUFFICES ASSUME NEW t \in Thread, w[t].has
                PROVE  data'[w[t].buf] = data[w[t].buf]
    BY <1>1 DEF Inv, BufferKeepsPacket
  <2>1. w[t].buf \in Buffer /\ WorkerHas(w[t].buf, t)
    BY Zenon DEF Inv, WorkerPhase, WorkerHas
  <2>. QED  BY <2>1, <1>1, <1>5, Zenon DEF Inv, Types
<1>. QED  BY <1>4, <1>7, <1>8, <1>10, <1>11, Zenon DEF Inv

(* optimize_packet and deoptimize_packet: the buffer changes hands. *)
LEMMA QueueKeeps ==
  ASSUME Inv, NEW how, f.pc \in {"route", "route2", "deoptimize"}, QueueTo(how)
  PROVE  Inv'
<1> DEFINE t == <<session[f.pkt.key].queue, how>>
           b == f.buf
<1>1. /\ queue' = [queue EXCEPT ![t] = Append(queue[t], b)] /\ f' = IdleFetcher
      /\ free' = free /\ data' = data /\ w' = w /\ count' = count /\ verdict' = verdict
  BY Zenon DEF QueueTo
<1>2. f' \in FetcherType /\ f'.pc = "idle" /\ f'.buf = NoBuffer /\ ~ Busy'
  BY <1>1, Idle, Zenon DEF IdleFetcher, Busy
<1>3. FetcherPhase' /\ WorkerPhase' /\ BufferKeepsPacket'
  BY <1>1, <1>2, Zenon DEF Inv, FetcherPhase, WorkerPhase, BufferKeepsPacket, Busy
<1>4. CASE t \notin Thread
  <2>1. queue' = queue
    BY <1>1, <1>4, Zenon DEF Inv, Types
  <2>. QED  BY <1>1, <1>2, <1>3, <2>1, Quiet, Zenon DEF Inv, Types
<1>5. CASE t \in Thread
  <2>1. b \in Buffer /\ queue[t] \in Seq(Buffer) /\ data[b] = f.pkt /\ f.pkt \in PacketType
    BY <1>5, Zenon DEF Inv, Types, FetcherPhase, Busy
  <2>. HIDE DEF t
  <2>2. /\ queue' \in [Thread -> Seq(Buffer)] /\ queue'[t] = Append(queue[t], b)
        /\ \A u \in Thread : u # t => queue'[u] = queue[u]
    <3>1. Append(queue[t], b) \in Seq(Buffer)
      BY <2>1
    <3>. QED  BY <1>1, <1>5, <3>1, Zenon DEF Inv, Types
  <2>3. Types'
    BY <1>1, <1>2, <2>2, Zenon DEF Inv, Types
  <2>4. b \notin free /\ \A u \in Thread : ~ Queued(b, u) /\ ~ WorkerHas(b, u)
    BY <2>1, Zenon DEF Inv, Users, FetcherHas
  <2>5. \A c \in Buffer, u \in Thread :
          /\ Queued(c, u)' <=> Queued(c, u) \/ (c = b /\ u = t)
          /\ WorkerHas(c, u)' <=> WorkerHas(c, u)
    BY <1>1, <2>1, <2>2, Put DEF Queued, WorkerHas
  <2>6. \A c \in Buffer : ~ FetcherHas(c)'
    BY <1>2, DataPathAssumption, Zenon DEF FetcherHas
  <2>7. ASSUME NEW u \in Thread,
               NEW m \in 1 .. Len(queue'[u]), NEW n \in 1 .. Len(queue'[u]),
               queue'[u][m] = queue'[u][n]
        PROVE  m = n
    <3>1. CASE u = t
      <4>1. \A k \in 1 .. Len(queue[t]) : queue[t][k] # b
        BY <1>5, <2>4, Zenon DEF Queued
      <4>2. \A k, l \in 1 .. Len(queue[t]) : queue[t][k] = queue[t][l] => k = l
        BY <1>5, Zenon DEF Inv, Users
      <4>3. \A k, l \in 1 .. Len(Append(queue[t], b)) :
              Append(queue[t], b)[k] = Append(queue[t], b)[l] => k = l
        BY <4>1, <4>2, <2>1, Put, Zenon
      <4>. QED  BY <3>1, <4>3, <2>2, <2>7, Zenon
    <3>2. CASE u # t
      BY <3>2, <2>2, <2>7 DEF Inv, Users
    <3>. QED  BY <3>1, <3>2, Zenon
  <2>8. Users'
    BY <1>1, <2>4, <2>5, <2>6, <2>7 DEF Inv, Users, Types
  <2>9. \A c \in Buffer : Live(c)' <=> Live(c) \/ c = b
    BY <1>5, <2>5, Zenon DEF Live
  <2>10. Packets'
    <3>1. /\ data[b] \in PacketType
          /\ data[b].id \in 1 .. count /\ verdict[data[b].id] = "pending"
          /\ \A c \in Buffer : Live(c) => data[c].id # data[b].id
      BY <2>1, Zenon DEF Inv, Packets, Busy
    <3>. QED  BY <1>1, <1>2, <2>9, <3>1 DEF Inv, Packets
  <2>. QED  BY <1>3, <2>3, <2>8, <2>10, Zenon DEF Inv
<1>. QED  BY <1>4, <1>5, Zenon

-----------------------------------------------------------------------------
(* The workers *)

(* dequeue_packet: so it does again. *)
LEMMA DequeueKeeps ==
  ASSUME Inv, NEW t \in Thread, worker_dequeue(t)
  PROVE  Inv'
<1>0. PICK b : b = Head(queue[t])
  BY Zenon
<1> DEFINE x == [pc |-> "lookup", pkt |-> data[b], ref |-> "none", buf |-> b, has |-> TRUE]
<1>1. /\ w[t].pc = "idle" /\ queue[t] # <<>> /\ w' = [w EXCEPT ![t] = x]
      /\ queue' = [queue EXCEPT ![t] = Tail(queue[t])]
      /\ f' = f /\ free' = free /\ data' = data /\ count' = count /\ verdict' = verdict
  BY <1>0, Zenon DEF worker_dequeue
<1>2. /\ queue[t] \in Seq(Buffer) /\ b \in Buffer /\ Tail(queue[t]) \in Seq(Buffer)
      /\ Queued(b, t)
  BY <1>0, <1>1, Taken, Zenon DEF Inv, Types, Queued
<1>3. data[b] \in PacketType /\ Live(b)
  BY <1>2, Zenon DEF Inv, Packets, Live
<1>4. x \in WorkerType
  BY <1>2, <1>3, Zenon DEF WorkerType
<1>5. /\ w' \in [Thread -> WorkerType] /\ w'[t] = x
      /\ \A u \in Thread : u # t => w'[u] = w[u]
  BY <1>1, <1>4, Zenon DEF Inv, Types
<1>6. /\ queue' \in [Thread -> Seq(Buffer)] /\ queue'[t] = Tail(queue[t])
      /\ \A u \in Thread : u # t => queue'[u] = queue[u]
  BY <1>1, <1>2, Zenon DEF Inv, Types
<1>7. Types'
  BY <1>1, <1>5, <1>6, Zenon DEF Inv, Types
<1>8. FetcherPhase'
  BY <1>1, Zenon DEF Inv, FetcherPhase, Busy
<1>9. WorkerPhase'
  BY <1>2, <1>3, <1>5 DEF Inv, WorkerPhase
<1>10. BufferKeepsPacket'
  BY <1>1, <1>5 DEF Inv, BufferKeepsPacket
<1>11. /\ \A m, n \in 1 .. Len(Tail(queue[t])) : Tail(queue[t])[m] = Tail(queue[t])[n] => m = n
       /\ \A n \in 1 .. Len(Tail(queue[t])) : Tail(queue[t])[n] # b
       /\ \A c : (\E n \in 1 .. Len(Tail(queue[t])) : Tail(queue[t])[n] = c) =>
                  \E n \in 1 .. Len(queue[t]) : queue[t][n] = c
  BY <1>0, <1>1, <1>2, Taken, Zenon DEF Inv, Users
<1>12. \A c \in Buffer, u \in Thread :
        /\ Queued(c, u)' => Queued(c, u) /\ (u = t => c # b)
        /\ WorkerHas(c, u)' <=> (u = t /\ c = b) \/ (u # t /\ WorkerHas(c, u))
        /\ FetcherHas(c)' <=> FetcherHas(c)
  BY <1>1, <1>5, <1>6, <1>11 DEF Queued, WorkerHas, FetcherHas
<1>13. \A u \in Thread : ~ WorkerHas(b, u) /\ ~ Queued(b, u)'
  <2>1. \A u \in Thread : ~ WorkerHas(b, u) /\ (Queued(b, u) => u = t)
    BY <1>2, Zenon DEF Inv, Users
  <2>. QED  BY <1>2, <1>12, <2>1, Zenon
<1>14. Users'
  <2>1. \A u \in Thread : \A m, n \in 1 .. Len(queue'[u]) : queue'[u][m] = queue'[u][n] => m = n
    BY <1>6, <1>11, Zenon DEF Inv, Users
  <2>2. \A c \in free' : ~ FetcherHas(c)'
    BY <1>1, <1>12, Zenon DEF Inv, Users, Types
  <2>3. ASSUME NEW c \in Buffer, NEW u \in Thread, Queued(c, u)'
        PROVE  /\ c \notin free' /\ ~ FetcherHas(c)'
               /\ \A v \in Thread : ~ WorkerHas(c, v)' /\ (Queued(c, v)' => v = u)
    BY <1>1, <1>12, <1>13, <2>3 DEF Inv, Users
  <2>4. ASSUME NEW c \in Buffer, NEW u \in Thread, WorkerHas(c, u)'
        PROVE  /\ c \notin free' /\ ~ FetcherHas(c)'
               /\ \A v \in Thread : WorkerHas(c, v)' => v = u
    BY <1>1, <1>2, <1>12, <1>13, <2>4 DEF Inv, Users
  <2>. QED  BY <2>1, <2>2, <2>3, <2>4, Zenon DEF Users
<1>15. \A c \in Buffer : Live(c)' => Live(c)
  BY <1>3, <1>12, Zenon DEF Live
<1>16. Packets'
  BY <1>1, <1>15, Zenon DEF Inv, Packets, Busy
<1>. QED  BY <1>7, <1>8, <1>9, <1>10, <1>14, <1>16, Zenon DEF Inv

(* A worker gives the verdict on its packet and returns the buffer. *)
LEMMA FinishKeeps ==
  ASSUME Inv, NEW t \in Thread, NEW v \in {"accept", "drop"}, w[t].has, Finish(t, v),
         f' \in FetcherType, f'.pc = f.pc, f'.pkt = f.pkt, f'.buf = f.buf,
         w' \in [Thread -> WorkerType], WorkerPhase', ~ w'[t].has,
         \A u \in Thread \ {t} :
            w'[u].has => w[u].has /\ w'[u].buf = w[u].buf /\ w'[u].pkt = w[u].pkt,
         data' = data, queue' = queue, count' = count
  PROVE  Inv' /\ \E i \in Id : verdict[i] = "pending" /\ verdict' = [verdict EXCEPT ![i] = v]
<1>1. PICK b \in Buffer : b = w[t].buf /\ WorkerHas(b, t) /\ Live(b)
  BY Zenon DEF Inv, WorkerPhase, WorkerHas, Live
<1>2. PICK i \in Id : i = w[t].pkt.id /\ i = data[b].id /\ verdict[i] = "pending" /\ i \in 1 .. count
  <2>1. data[b].id = w[t].pkt.id
    BY <1>1, Zenon DEF Inv, BufferKeepsPacket
  <2>2. data[b].id \in 1 .. count /\ verdict[data[b].id] = "pending"
    BY <1>1, Zenon DEF Inv, Packets
  <2>3. data[b].id \in Id
    BY <2>2, DataPathAssumption DEF Inv, Types, Id
  <2>. QED  BY <2>1, <2>2, <2>3, Zenon
<1>3. verdict' = [verdict EXCEPT ![i] = v] /\ free' = free \cup {b}
  BY <1>1, <1>2, Zenon DEF Finish, nfq_set_verdict
<1>4. Types'
  BY <1>2, <1>3, Zenon DEF Inv, Types
<1>5. FetcherPhase' /\ BufferKeepsPacket' /\ (Busy' <=> Busy)
  BY DEF Inv, FetcherPhase, BufferKeepsPacket, Busy
<1>6. \A c \in Buffer, u \in Thread :
        /\ Queued(c, u)' <=> Queued(c, u)
        /\ WorkerHas(c, u)' => WorkerHas(c, u) /\ u # t
        /\ FetcherHas(c)' <=> FetcherHas(c)
  BY Zenon DEF Queued, WorkerHas, FetcherHas
<1>7. /\ ~ FetcherHas(b)
      /\ \A u \in Thread : ~ Queued(b, u) /\ (WorkerHas(b, u) => u = t)
  BY <1>1, Zenon DEF Inv, Users
<1>8. Users'
  <2>1. \A u \in Thread : \A m, n \in 1 .. Len(queue'[u]) : queue'[u][m] = queue'[u][n] => m = n
    BY DEF Inv, Users
  <2>2. \A c \in free' : ~ FetcherHas(c)'
    BY <1>3, <1>6, <1>7 DEF Inv, Users, Types
  <2>3. ASSUME NEW c \in Buffer, NEW u \in Thread, Queued(c, u)'
        PROVE  /\ c \notin free' /\ ~ FetcherHas(c)'
               /\ \A x \in Thread : ~ WorkerHas(c, x)' /\ (Queued(c, x)' => x = u)
    BY <1>3, <1>6, <1>7, <2>3 DEF Inv, Users
  <2>4. ASSUME NEW c \in Buffer, NEW u \in Thread, WorkerHas(c, u)'
        PROVE  /\ c \notin free' /\ ~ FetcherHas(c)'
               /\ \A x \in Thread : WorkerHas(c, x)' => x = u
    BY <1>3, <1>6, <1>7, <2>4 DEF Inv, Users
  <2>. QED  BY <2>1, <2>2, <2>3, <2>4, Zenon DEF Users
<1>9. \A c \in Buffer : Live(c)' => Live(c) /\ c # b
  BY <1>6, <1>7, Zenon DEF Live
<1>10. Packets'
  <2>1. ASSUME NEW c \in Buffer, Live(c)'
        PROVE  /\ data[c] \in PacketType /\ data[c].id \in 1 .. count
               /\ data[c].id # i /\ verdict'[data[c].id] = "pending"
    <3>1. /\ data[c] \in PacketType /\ data[c].id \in 1 .. count
          /\ data[c].id # i /\ verdict[data[c].id] = "pending"
      BY <1>1, <1>2, <1>9, <2>1 DEF Inv, Packets
    <3>2. data[c].id \in Id
      BY <3>1, DataPathAssumption DEF Inv, Types, Id
    <3>. QED  BY <3>1, <3>2, <1>3, Zenon DEF Inv, Types
  <2>2. \A c, d \in Buffer : Live(c)' /\ Live(d)' /\ data[c].id = data[d].id => c = d
    BY <1>9, Zenon DEF Inv, Packets
  <2>3. ASSUME Busy
        PROVE  /\ f.pkt.id \in 1 .. count /\ verdict'[f.pkt.id] = "pending"
               /\ \A c \in Buffer : Live(c)' => data[c].id # f.pkt.id
    <3>1. /\ f.pkt.id \in 1 .. count /\ verdict[f.pkt.id] = "pending" /\ f.pkt.id # i
          /\ \A c \in Buffer : Live(c) => data[c].id # f.pkt.id
      BY <1>1, <1>2, <2>3, Zenon DEF Inv, Packets
    <3>2. f.pkt.id \in Id
      BY <3>1, DataPathAssumption DEF Inv, Types, Id
    <3>. QED  BY <3>1, <3>2, <1>3, <1>9, Zenon DEF Inv, Types
  <2>4. ASSUME NEW j \in Id, j > count PROVE verdict'[j] = "none"
    <3>1. j # i
      BY <1>2, <2>4, DataPathAssumption DEF Inv, Types, Id
    <3>. QED  BY <3>1, <1>3, <2>4, Zenon DEF Inv, Packets, Types
  <2>. QED  BY <1>5, <2>1, <2>2, <2>3, <2>4 DEF Packets
<1>. QED  BY <1>2, <1>3, <1>4, <1>5, <1>8, <1>10, Zenon DEF Inv

(* A worker changes the packet in its buffer, but not which packet it is. *)
LEMMA MarkKeeps ==
  ASSUME Inv, NEW t \in Thread, NEW q \in PacketType, w[t].has,
         q.id = data[w[t].buf].id, q.kind = data[w[t].buf].kind, q.key = data[w[t].buf].key,
         data' = [data EXCEPT ![w[t].buf] = q],
         w' = [w EXCEPT ![t] = [w[t] EXCEPT !.pc = "flags"]],
         f' = f, free' = free, queue' = queue, count' = count, verdict' = verdict
  PROVE  Inv'
<1>1. PICK b \in Buffer : b = w[t].buf /\ WorkerHas(b, t)
  BY Zenon DEF Inv, WorkerPhase, WorkerHas
<1>2. /\ data' \in [Buffer -> PacketType \cup {Zero}] /\ data'[b] = q
      /\ \A c \in Buffer : c # b => data'[c] = data[c]
      /\ \A c \in Buffer : /\ data'[c].id = data[c].id /\ data'[c].kind = data[c].kind
                            /\ data'[c].key = data[c].key
  BY <1>1, Zenon DEF Inv, Types
<1>3. w[t] \in WorkerType
  BY Zenon DEF Inv, Types
<1>4. /\ [w[t] EXCEPT !.pc = "flags"] \in WorkerType /\ [w[t] EXCEPT !.pc = "flags"].pc = "flags"
      /\ [w[t] EXCEPT !.pc = "flags"].has = w[t].has /\ [w[t] EXCEPT !.pc = "flags"].buf = w[t].buf
      /\ [w[t] EXCEPT !.pc = "flags"].pkt = w[t].pkt
  BY <1>3, Zenon DEF WorkerType
<1>5. /\ w' \in [Thread -> WorkerType]
      /\ \A u \in Thread : /\ w'[u].has = w[u].has /\ w'[u].buf = w[u].buf
                            /\ w'[u].pkt = w[u].pkt
                            /\ w'[u].pc = IF u = t THEN "flags" ELSE w[u].pc
  BY <1>4, Zenon DEF Inv, Types
<1>6. Types'
  BY <1>2, <1>5, Zenon DEF Inv, Types
<1>7. f.buf # b
  BY <1>1, Zenon DEF Inv, Users, FetcherHas
<1>8. FetcherPhase'
  BY <1>2, <1>7, Zenon DEF Inv, FetcherPhase, Busy
<1>9. WorkerPhase'
  BY <1>5 DEF Inv, WorkerPhase
<1>10. BufferKeepsPacket'
  BY <1>2, <1>5, <1>9 DEF Inv, BufferKeepsPacket, WorkerPhase
<1>11. \A c \in Buffer, u \in Thread :
        /\ Queued(c, u)' <=> Queued(c, u)
        /\ WorkerHas(c, u)' <=> WorkerHas(c, u)
        /\ FetcherHas(c)' <=> FetcherHas(c)
  BY <1>5 DEF Queued, WorkerHas, FetcherHas
<1>12. Users'
  BY <1>11 DEF Inv, Users, Types
<1>13. \A c \in Buffer : Live(c)' <=> Live(c)
  BY <1>11, Zenon DEF Live
<1>14. Packets'
  BY <1>2, <1>13 DEF Inv, Packets, Busy
<1>. QED  BY <1>6, <1>8, <1>9, <1>10, <1>12, <1>14, Zenon DEF Inv

(* A step of the daemon's promise to the Netfilter queue, or none. *)
Promise == UNCHANGED verdict \/ Nfq!NfqNext

(* A verdict on a packet without one is a step of NfQueue. *)
LEMMA Decided ==
  ASSUME NEW i \in Id, NEW v \in {"accept", "drop"}, verdict[i] \in {"none", "pending"},
         verdict' = [verdict EXCEPT ![i] = v]
  PROVE  Promise
  BY Zenon DEF Promise, Nfq!NfqNext, Nfq!Decide

(* The steps of a worker, each with what it does to the verdicts. *)
LEMMA GetsessionKeeps ==
  ASSUME Inv, NEW t \in Thread, worker_getsession(t)
  PROVE  Inv' /\ Promise
<1>1. /\ w[t].pc = "lookup" /\ w[t].has /\ w \in [Thread -> WorkerType] /\ f \in FetcherType
      /\ f' = f /\ data' = data /\ queue' = queue /\ count' = count
  BY Zenon DEF worker_getsession, Inv, Types, WorkerPhase
<1>2. CASE free' = free /\ verdict' = verdict
           /\ \E pc \in {"verify", "flags"} : w' = [w EXCEPT ![t].ref = "live", ![t].pc = pc]
  <2>1. PICK pc \in {"verify", "flags"} : w' = [w EXCEPT ![t].ref = "live", ![t].pc = pc]
    BY <1>2, Zenon
  <2> DEFINE x == [w[t] EXCEPT !.ref = "live", !.pc = pc]
  <2>2. x \in WorkerType /\ x.pc = pc /\ x.has = w[t].has /\ x.buf = w[t].buf /\ x.pkt = w[t].pkt
    BY <1>1, Zenon DEF WorkerType
  <2>3. w' = [w EXCEPT ![t] = x]
    BY <1>1, <2>1, Zenon
  <2>4. w' \in [Thread -> WorkerType] /\ \A u \in Thread : w'[u] = IF u = t THEN x ELSE w[u]
    BY <1>1, <2>2, <2>3, Zenon
  <2>. HIDE DEF x
  <2>5. WorkerPhase'
    BY <1>1, <2>2, <2>4, Zenon DEF Inv, WorkerPhase
  <2>6. FetcherPhase' /\ (Busy' <=> Busy)
    BY <1>1, Zenon DEF Inv, FetcherPhase, Busy
  <2>. QED  BY <1>1, <1>2, <2>2, <2>4, <2>5, <2>6, Quiet, Zenon DEF Promise
<1>3. CASE Finish(t, "accept") /\ w' = [w EXCEPT ![t] = IdleWorker]
  <2>1. /\ w' \in [Thread -> WorkerType] /\ w'[t].pc = "idle" /\ ~ w'[t].has
        /\ \A u \in Thread \ {t} : w'[u] = w[u]
    BY <1>1, <1>3, Idle, Zenon DEF IdleWorker
  <2>2. WorkerPhase'
    BY <2>1, Zenon DEF Inv, WorkerPhase
  <2>. QED  BY <1>1, <1>3, <2>1, <2>2, FinishKeeps, Decided, Zenon
<1>. QED  BY <1>2, <1>3, Zenon DEF worker_getsession

(* A worker's step for a packet to be compressed. *)
LEMMA OptimizeKeeps ==
  ASSUME Inv, NEW t \in Thread, worker_optimize(t)
  PROVE  Inv'
<1>1. /\ w[t].has /\ w \in [Thread -> WorkerType] /\ w' = [w EXCEPT ![t].pc = "flags"]
      /\ f' = f /\ free' = free /\ queue' = queue /\ count' = count /\ verdict' = verdict
  BY Zenon DEF worker_optimize, Inv, Types, WorkerPhase
<1>2. w' = [w EXCEPT ![t] = [w[t] EXCEPT !.pc = "flags"]]
  BY <1>1, Zenon
<1>3. w[t].buf \in Buffer /\ data[w[t].buf] \in PacketType /\ data \in [Buffer -> PacketType \cup {Zero}]
  BY <1>1, Zenon DEF Inv, Types, WorkerPhase, Packets, Live, WorkerHas
<1>4. PICK c : data' = [data EXCEPT ![w[t].buf] =
                          [data[w[t].buf] EXCEPT !.tag = Local, !.comp = @ \/ c]]
  BY <1>3, Zenon DEF worker_optimize
<1> DEFINE p == data[w[t].buf]
           q == [p EXCEPT !.tag = Local, !.comp = @ \/ c]
<1>5. q \in PacketType
  BY <1>3, Tagged, Zenon
<1>6. q.id = p.id /\ q.kind = p.kind /\ q.key = p.key
  BY <1>3, Zenon DEF PacketType
<1>. QED  BY <1>1, <1>2, <1>4, <1>5, <1>6, MarkKeeps, Zenon

(* A worker's step for a packet to be restored. *)
LEMMA DeoptimizeKeeps ==
  ASSUME Inv, NEW t \in Thread, worker_deoptimize(t)
  PROVE  Inv' /\ Promise
<1>1. /\ w[t].has /\ w \in [Thread -> WorkerType] /\ f \in FetcherType
      /\ f' = f /\ queue' = queue /\ count' = count
  BY Zenon DEF worker_deoptimize, Inv, Types, WorkerPhase
<1>2. CASE worker_drop(t) /\ data' = data
  <2> DEFINE x == [w[t] EXCEPT !.pc = "flags", !.has = FALSE]
  <2>1. x \in WorkerType /\ x.pc = "flags" /\ ~ x.has
    BY <1>1, Zenon DEF WorkerType
  <2>2. w' = [w EXCEPT ![t] = x] /\ Finish(t, "drop")
    BY <1>1, <1>2, Zenon DEF worker_drop
  <2>3. w' \in [Thread -> WorkerType] /\ w'[t] = x /\ \A u \in Thread \ {t} : w'[u] = w[u]
    BY <1>1, <2>1, <2>2, Zenon
  <2>. HIDE DEF x
  <2>4. WorkerPhase'
    BY <2>1, <2>3 DEF Inv, WorkerPhase
  <2>. QED  BY <1>1, <1>2, <2>1, <2>2, <2>3, <2>4, FinishKeeps, Decided, Zenon
<1>3. CASE /\ \E c : data' = [data EXCEPT ![w[t].buf] = [data[w[t].buf] EXCEPT !.comp = @ /\ c]]
           /\ w' = [w EXCEPT ![t].pc = "flags"]
           /\ free' = free /\ verdict' = verdict
  <2>1. w' = [w EXCEPT ![t] = [w[t] EXCEPT !.pc = "flags"]]
    BY <1>1, <1>3, Zenon
  <2>2. w[t].buf \in Buffer /\ data[w[t].buf] \in PacketType
    BY <1>1, Zenon DEF Inv, Types, WorkerPhase, Packets, Live, WorkerHas
  <2>3. PICK c : data' = [data EXCEPT ![w[t].buf] = [data[w[t].buf] EXCEPT !.comp = @ /\ c]]
    BY <1>3, Zenon
  <2> DEFINE p == data[w[t].buf]
             q == [p EXCEPT !.comp = @ /\ c]
  <2>4. q \in PacketType
    BY <2>2, Flagged, Zenon
  <2>5. q.id = p.id /\ q.kind = p.kind /\ q.key = p.key
    BY <2>2, Zenon DEF PacketType
  <2>. QED  BY <1>1, <1>3, <2>1, <2>3, <2>4, <2>5, MarkKeeps, Zenon DEF Promise
<1>. QED  BY <1>2, <1>3, Zenon DEF worker_deoptimize

(* A worker's last step: the verdict, and the buffer goes back. *)
LEMMA FlagsKeeps ==
  ASSUME Inv, NEW t \in Thread, worker_flags(t)
  PROVE  Inv' /\ Promise
<1> DEFINE done == [w EXCEPT ![t] = IdleWorker]
           k == w[t].pkt.key
<1>1. /\ w \in [Thread -> WorkerType] /\ f \in FetcherType /\ w[t].pc = "flags"
      /\ data' = data /\ queue' = queue /\ count' = count
  BY Zenon DEF worker_flags, Inv, Types
<1>2. /\ done \in [Thread -> WorkerType] /\ done[t].pc = "idle" /\ ~ done[t].has
      /\ \A u \in Thread \ {t} : done[u] = w[u]
  BY <1>1, Idle, Zenon DEF IdleWorker
<1>3. \/ w' = done /\ f' = f
      \/ w' = [u \in Thread |-> Freed(done[u], k)] /\ f' = Freed(f, k)
  BY Zenon DEF worker_flags, clearsession
<1>. HIDE DEF done, k
<1>4. /\ f' \in FetcherType /\ f'.pc = f.pc /\ f'.pkt = f.pkt /\ f'.buf = f.buf
  BY <1>1, <1>3, FreedFetcher
<1>5. /\ w' \in [Thread -> WorkerType]
      /\ \A u \in Thread : /\ w'[u].pc = done[u].pc /\ w'[u].has = done[u].has
                            /\ w'[u].buf = done[u].buf /\ w'[u].pkt = done[u].pkt
  BY <1>2, <1>3, FreedWorker
<1>6. WorkerPhase'
  BY <1>2, <1>5 DEF Inv, WorkerPhase
<1>7. CASE w[t].has
  BY <1>1, <1>2, <1>4, <1>5, <1>6, <1>7, FinishKeeps, Decided, Zenon DEF worker_flags
<1>8. CASE ~ w[t].has
  <2>1. free' = free /\ verdict' = verdict
    BY <1>8, Zenon DEF worker_flags
  <2>2. FetcherPhase' /\ (Busy' <=> Busy)
    BY <1>1, <1>4, Zenon DEF Inv, FetcherPhase, Busy
  <2>. QED  BY <1>1, <1>2, <1>4, <1>5, <1>6, <2>1, <2>2, Quiet DEF Promise
<1>. QED  BY <1>7, <1>8, Zenon

-----------------------------------------------------------------------------

(* The invariant holds at the start, and every step keeps it. *)
LEMMA InitInv == Init => Inv
<1>. SUFFICES ASSUME Init PROVE Inv
  BY Zenon
<1>1. f \in FetcherType /\ f.pc = "idle" /\ f.buf = NoBuffer /\ ~ Busy
  BY Idle, Zenon DEF Init, IdleFetcher, Busy
<1>2. /\ w \in [Thread -> WorkerType]
      /\ \A t \in Thread : w[t].pc = "idle" /\ ~ w[t].has
  BY Idle, Zenon DEF Init, IdleWorker
<1>3. queue \in [Thread -> Seq(Buffer)] /\ \A t \in Thread : queue[t] = <<>>
  BY DEF Init
<1>4. Types
  BY <1>1, <1>2, <1>3, DataPathAssumption DEF Init, Types
<1>5. \A b \in Buffer : /\ ~ FetcherHas(b) /\ ~ Live(b)
                        /\ \A t \in Thread : ~ Queued(b, t) /\ ~ WorkerHas(b, t)
  BY <1>1, <1>2, <1>3, DataPathAssumption DEF FetcherHas, Live, Queued, WorkerHas
<1>6. Users
  BY <1>3, <1>4, <1>5 DEF Users, Types
<1>7. Packets
  BY <1>1, <1>5, Zenon DEF Packets, Init
<1>8. FetcherPhase /\ WorkerPhase /\ BufferKeepsPacket
  BY <1>1, <1>2, Zenon DEF FetcherPhase, WorkerPhase, BufferKeepsPacket
<1>. QED  BY <1>4, <1>6, <1>7, <1>8, Zenon DEF Inv

(* Every step of the fetcher keeps the invariant and the promise to        *)
(* Netfilter.                                                              *)
LEMMA FetcherStepKeeps ==
  ASSUME Inv, FetcherStep
  PROVE  Inv' /\ Promise
<1>1. CASE fetcher_verify
  <2>1. PICK s : f.pc = "verify" /\ AcceptHandshake(s)
    BY <1>1, Zenon DEF fetcher_verify
  <2>. QED  BY <2>1, HandshakeKeeps, Decided
<1>2. CASE fetcher_verify_again
  <2>1. PICK s : f.pc = "verify2" /\ AcceptHandshake(s)
    BY <1>2, Zenon DEF fetcher_verify_again
  <2>. QED  BY <2>1, HandshakeKeeps, Decided
<1>3. CASE fetcher_verified
  BY <1>3, VerifiedKeeps, Zenon DEF fetcher_verified, Promise
<1>4. CASE fetcher_insert
  BY <1>4, InsertKeeps, Zenon DEF fetcher_insert, Promise
<1>5. CASE fetcher_get
  BY <1>5, GetKeeps, Zenon DEF fetcher_get, Promise
<1>6. CASE fetcher_save
  BY <1>6, SaveKeeps, Zenon DEF fetcher_save, Promise
<1>7. CASE fetcher_route
  <2>1. f.pc = "route" /\ QueueTo("opt")
    BY <1>7, Zenon DEF fetcher_route
  <2>2. verdict' = verdict
    BY <2>1, Zenon DEF QueueTo
  <2>. QED  BY <2>1, <2>2, QueueKeeps DEF Promise
<1>8. CASE fetcher_deoptimize
  <2>1. f.pc \in {"route2", "deoptimize"} /\ QueueTo("deopt")
    BY <1>8, Zenon DEF fetcher_deoptimize
  <2>2. verdict' = verdict
    BY <2>1, Zenon DEF QueueTo
  <2>. QED  BY <2>1, <2>2, QueueKeeps DEF Promise
<1>9. CASE fetcher_abandon \/ fetcher_get_fails
  BY <1>9, AbandonKeeps, Zenon DEF fetcher_abandon, fetcher_get_fails, Promise
<1>10. CASE fetcher_uses_freed \/ fetcher_uses_closed
  <2>1. BecomeUndefined
    BY <1>10, Zenon DEF fetcher_uses_freed, fetcher_uses_closed
  <2>. QED  BY <2>1, UndefinedKeeps, Zenon DEF BecomeUndefined, Promise
<1>. QED  BY <1>1, <1>2, <1>3, <1>4, <1>5, <1>6, <1>7, <1>8, <1>9, <1>10, Zenon DEF FetcherStep

(* Every step of a worker keeps the invariant and the promise to           *)
(* Netfilter.                                                              *)
LEMMA WorkerStepKeeps ==
  ASSUME Inv, NEW t \in Thread, WorkerStep(t)
  PROVE  Inv' /\ Promise
<1>1. CASE worker_dequeue(t)
  BY <1>1, DequeueKeeps, Zenon DEF worker_dequeue, Promise
<1>2. CASE worker_getsession(t)
  BY <1>2, GetsessionKeeps, Zenon
<1>3. CASE worker_optimize(t)
  BY <1>3, OptimizeKeeps, Zenon DEF worker_optimize, Promise
<1>4. CASE worker_verified(t)
  BY <1>4, WorkerGoesOn, Zenon DEF worker_verified, Promise
<1>5. CASE worker_deoptimize(t)
  BY <1>5, DeoptimizeKeeps, Zenon
<1>6. CASE worker_neither(t)
  BY <1>6, WorkerGoesOn, Zenon DEF worker_neither, Promise
<1>7. CASE worker_flags(t)
  BY <1>7, FlagsKeeps, Zenon
<1>8. CASE worker_uses_freed(t) \/ worker_uses_closed(t)
  <2>1. BecomeUndefined
    BY <1>8, Zenon DEF worker_uses_freed, worker_uses_closed
  <2>. QED  BY <2>1, UndefinedKeeps, Zenon DEF BecomeUndefined, Promise
<1>. QED  BY <1>1, <1>2, <1>3, <1>4, <1>5, <1>6, <1>7, <1>8, Zenon DEF WorkerStep

(* Every step keeps the invariant and the promise to Netfilter. *)
LEMMA NextKeeps == Inv /\ [Next]_vars => Inv' /\ Promise
<1>. SUFFICES ASSUME Inv, [Next]_vars PROVE Inv' /\ Promise
  BY Zenon
<1>1. ASSUME NEW p \in Arrival, fetcher_callback(p) PROVE Inv' /\ Promise
  <2>1. Inv'
    BY <1>1, CallbackKeeps, Zenon
  <2>2. PICK i \in Id, v \in {"accept", "pending"} :
           verdict[i] = "none" /\ verdict' = [verdict EXCEPT ![i] = v]
    BY <1>1, CallbackKeeps, Zenon
  <2>3. CASE v = "accept"
    BY <2>1, <2>2, <2>3, Decided, Zenon
  <2>4. CASE v = "pending"
    BY <2>1, <2>2, <2>4, Zenon DEF Promise, Nfq!NfqNext, Nfq!Take
  <2>. QED  BY <2>2, <2>3, <2>4, Zenon
<1>2. CASE FetcherStep
  BY <1>2, FetcherStepKeeps, Zenon
<1>3. ASSUME NEW t \in Thread, WorkerStep(t) PROVE Inv' /\ Promise
  BY <1>3, WorkerStepKeeps, Zenon
<1>4. ASSUME NEW k \in Key, cleanup(k) PROVE Inv' /\ Promise
  BY <1>4, CleanupKeeps, Zenon DEF cleanup, Promise
<1>5. CASE neighbor_changes \/ signal_handler \/ fetcher_graceful_exit \/ UNCHANGED vars
  BY <1>5, SameThreads, Zenon
  DEF neighbor_changes, signal_handler, fetcher_graceful_exit, vars, Promise
<1>6. CASE fetcher_function_ends
  BY <1>6, EndKeeps, Zenon DEF fetcher_function_ends, Promise
<1>7. CASE handler_uses_closed
  BY <1>7, UndefinedKeeps, Zenon DEF handler_uses_closed, BecomeUndefined, Promise
<1>. QED  BY <1>1, <1>2, <1>3, <1>4, <1>5, <1>6, <1>7, Zenon DEF Next

(* The invariant holds in every state. *)
LEMMA Invariant == Spec => []Inv
  BY InitInv, NextKeeps, PTL DEF Spec

-----------------------------------------------------------------------------

(* However many workers, buffers, sessions and packets there are, and      *)
(* whatever the neighbor does: no buffer is returned twice, handed out     *)
(* while a worker has it, or queued at two places.                         *)
THEOREM OneUserOfABuffer == Spec => []OneUser
<1>1. Inv => OneUser
  <2>. SUFFICES ASSUME Inv, NEW b \in Buffer
                PROVE  /\ b \in free => ~ FetcherHas(b)
                       /\ \A t \in Thread :
                            /\ WorkerHas(b, t) => b \notin free /\ ~ FetcherHas(b)
                            /\ \A u \in Thread \ {t} : ~ (WorkerHas(b, t) /\ WorkerHas(b, u))
                            /\ \A n \in 1 .. Len(queue[t]) : queue[t][n] = b =>
                                 /\ b \notin free /\ ~ FetcherHas(b)
                                 /\ \A u \in Thread :
                                      /\ ~ WorkerHas(b, u)
                                      /\ \A m \in 1 .. Len(queue[u]) :
                                           queue[u][m] = b => u = t /\ m = n
    BY Zenon DEF OneUser
  <2>1. Users
    BY Zenon DEF Inv
  <2>2. ASSUME NEW t \in Thread, NEW n \in 1 .. Len(queue[t]), queue[t][n] = b,
               NEW u \in Thread, NEW m \in 1 .. Len(queue[u]), queue[u][m] = b
        PROVE  u = t /\ m = n
    BY <2>1, <2>2 DEF Users, Queued
  <2>. QED  BY <2>1, <2>2, Zenon DEF Users, Queued
<1>. QED  BY <1>1, Invariant, PTL

(* The pointers of worker_thread into its buffer stay those of the packet  *)
(* it took, until it returns the buffer.                                   *)
THEOREM BufferKept == Spec => []BufferKeepsPacket
<1>1. Inv => BufferKeepsPacket
  BY Zenon DEF Inv
<1>. QED  BY <1>1, Invariant, PTL

(* The daemon implements what the Netfilter queue expects: a packet gets   *)
(* no second verdict, from the fetcher or a worker.                        *)
THEOREM OneVerdictOnly == Spec => OneVerdict
<1>1. Init => Nfq!NfqInit
  BY Zenon DEF Init, Nfq!NfqInit
<1>2. Inv /\ [Next]_vars => [Nfq!NfqNext]_verdict
  BY NextKeeps, Zenon DEF Promise
<1>. QED  BY <1>1, <1>2, Invariant, PTL DEF Spec, OneVerdict, Nfq!NfqSpec


-----------------------------------------------------------------------------
(* The sessions *)

(* Whoever has a live pointer to a session has that of a session that is   *)
(* in the table.                                                           *)
Sess ==
  /\ up \in BOOLEAN /\ raced \in BOOLEAN
  /\ session \in [Key -> SessionType \cup {NoSession}]
  /\ f.ref = "live" => f.pkt \in PacketType /\ session[f.pkt.key] \in SessionType
  /\ \A t \in Thread :
       w[t].ref = "live" => w[t].pkt \in PacketType /\ session[w[t].pkt.key] \in SessionType

(* What saveacceleratorid and the changes of state make of a session. *)
LEMMA Saved ==
  ASSUME NEW s \in SessionType, NEW src \in {"larger", "smaller"}, NEW id \in {NoID, Peer, Local}
  PROVE  [s EXCEPT ![src] = id] \in SessionType
<1>1. CASE src = "larger"
  BY <1>1, Zenon DEF SessionType
<1>2. CASE src = "smaller"
  BY <1>2, Zenon DEF SessionType
<1>. QED  BY <1>1, <1>2, Zenon

(* A session stays a session when its state changes. *)
LEMMA NextState ==
  ASSUME NEW x \in {"new", "syn_sent", "established", "closing"}
  PROVE  /\ \A s \in SessionType : [s EXCEPT !.state = x] \in SessionType
         /\ \A q \in Worker : NewSession(x, q) \in SessionType
  BY Zenon DEF SessionType, NewSession

(* The fields of a packet that lead to a session. *)
LEMMA PacketFields ==
  ASSUME NEW p \in PacketType
  PROVE  p.key \in Key /\ p.src \in {"larger", "smaller"} /\ p.tag \in {NoID, Peer, Local}
  BY Zenon DEF PacketType

(* A step that changes one session at most, and only to another one. *)
LEMMA SessStays ==
  ASSUME Sess,
         \/ session' = session
         \/ \E k \in Key, s \in SessionType : session' = [session EXCEPT ![k] = s],
         up' \in BOOLEAN, raced' \in BOOLEAN,
         f'.ref = "live" =>
            /\ f'.pkt \in PacketType
            /\ \/ f.ref = "live" /\ f'.pkt.key = f.pkt.key
               \/ session'[f'.pkt.key] \in SessionType,
         \A t \in Thread : w'[t].ref = "live" =>
            \/ w[t].ref = "live" /\ w'[t].pkt = w[t].pkt
            \/ w'[t].pkt \in PacketType /\ session[w'[t].pkt.key] \in SessionType
  PROVE  Sess'
<1>1. session' \in [Key -> SessionType \cup {NoSession}]
  BY Zenon DEF Sess
<1>2. \A j \in Key : session[j] \in SessionType => session'[j] \in SessionType
  BY Zenon DEF Sess
<1>3. f'.ref = "live" => f'.pkt \in PacketType /\ session'[f'.pkt.key] \in SessionType
  BY <1>2, PacketFields, Zenon DEF Sess
<1>4. \A t \in Thread : w'[t].ref = "live" =>
         w'[t].pkt \in PacketType /\ session'[w'[t].pkt.key] \in SessionType
  BY <1>2, PacketFields, Zenon DEF Sess
<1>. QED  BY <1>1, <1>3, <1>4, Zenon DEF Sess

(* clearsession: the pointers to the session die with it. *)
LEMMA SessCleared ==
  ASSUME Sess, NEW k \in Key, NEW threads \in [Thread -> WorkerType], f \in FetcherType,
         clearsession(k, threads), up' = up, raced' = raced,
         \A t \in Thread : threads[t] = w[t] \/ threads[t].ref = "none"
  PROVE  Sess'
<1>1. /\ session' = [session EXCEPT ![k] = NoSession] /\ f' = Freed(f, k)
      /\ \A t \in Thread : w'[t] = Freed(threads[t], k)
  BY Zenon DEF clearsession
<1>2. \A x \in FetcherType \cup WorkerType : Freed(x, k).ref = "live" =>
         x.ref = "live" /\ x.pkt.key # k /\ Freed(x, k) = x
  BY DEF Freed, FetcherType, WorkerType
<1>3. session' \in [Key -> SessionType \cup {NoSession}]
  BY <1>1, Zenon DEF Sess
<1>4. f'.ref = "live" => f'.pkt \in PacketType /\ session'[f'.pkt.key] \in SessionType
  BY <1>1, <1>2, PacketFields DEF Sess
<1>5. ASSUME NEW t \in Thread, w'[t].ref = "live"
      PROVE  w'[t].pkt \in PacketType /\ session'[w'[t].pkt.key] \in SessionType
  <2>1. w'[t] = threads[t] /\ threads[t].ref = "live" /\ threads[t].pkt.key # k
    BY <1>1, <1>2, <1>5, Zenon
  <2>2. w'[t] = w[t] /\ w[t].ref = "live"
    BY <2>1, Zenon
  <2>. QED  BY <1>1, <2>1, <2>2, PacketFields, Zenon DEF Sess
<1>. QED  BY <1>3, <1>4, <1>5, Zenon DEF Sess

(* The steps of the daemon, one by one. *)
LEMMA UndefinedSess ==
  ASSUME Inv, Sess, BecomeUndefined
  PROVE  Sess'
<1>1. f \in FetcherType /\ w \in [Thread -> WorkerType]
  BY Zenon DEF Inv, Types
<1>2. f'.ref = f.ref /\ f'.pkt = f.pkt
  BY <1>1, Zenon DEF BecomeUndefined, FetcherType
<1>3. \A t \in Thread : w'[t].ref = w[t].ref /\ w'[t].pkt = w[t].pkt
  BY <1>1 DEF BecomeUndefined, WorkerType
<1>. QED  BY <1>2, <1>3, SessStays, Zenon DEF BecomeUndefined, Sess

(* A packet that arrives brings no session pointer with it. *)
LEMMA CallbackSess ==
  ASSUME Inv, Sess, NEW a \in Arrival, fetcher_callback(a)
  PROVE  Sess'
<1> DEFINE p == [a EXCEPT !.id = count + 1]
<1>1. p \in PacketType /\ p.key \in Key
  <2>1. count \in Nat
    BY DEF Inv, Types
  <2>2. p \in PacketType
    BY <2>1, DataPathAssumption DEF PacketType
  <2>. QED  BY <2>2, PacketFields, Zenon
<1>2. w' = w /\ up' = up /\ raced' = raced
  BY Zenon DEF fetcher_callback
<1>3. ASSUME NEW pc, NEW s \in SessionType, Fetch(pc, p, s)
      PROVE  Sess'
  <2>1. /\ f'.pkt = p /\ session' = [session EXCEPT ![p.key] = s]
    BY <1>3, Zenon DEF Fetch
  <2>. HIDE DEF p
  <2>2. session'[p.key] \in SessionType
    BY <1>1, <2>1, Zenon DEF Sess
  <2>. QED  BY <1>1, <1>2, <2>1, <2>2, SessStays, Zenon DEF Sess
<1>4. CASE f' = f /\ session' = session
  BY <1>2, <1>4, SessStays, Zenon DEF Sess
<1>5. \/ f' = f /\ session' = session
      \/ \E pc, s : Fetch(pc, p, s) /\ s \in SessionType
  <2>1. Exists(p.key) => session[p.key] \in SessionType
    BY <1>1, Zenon DEF Exists, Sess
  <2>. QED  BY <2>1, NextState, Zenon DEF fetcher_callback
<1>. QED  BY <1>3, <1>4, <1>5, Zenon

(* The fetcher's live pointer leads to a session, whatever else it does. *)
LEMMA FetcherSess ==
  ASSUME Inv, Sess, FetcherStep
  PROVE  Sess'
<1>. USE DEF Sess
<1>0. f \in FetcherType /\ w \in [Thread -> WorkerType]
  BY Zenon DEF Inv, Types
<1>1. ASSUME NEW s \in SessionType, f.ref = "live", AcceptHandshake(s) PROVE Sess'
  <2>1. [s EXCEPT !.state = HandshakeState] \in SessionType
    BY NextState, Zenon DEF HandshakeState
  <2>2. f'.ref = "none"
    BY <1>1, Zenon DEF AcceptHandshake, IdleFetcher
  <2>3. f.pkt.key \in Key
    BY <1>1, PacketFields, Zenon
  <2>. QED  BY <1>1, <2>1, <2>2, <2>3, SessStays, Zenon DEF AcceptHandshake
<1>2. CASE fetcher_verify
  <2>1. session[f.pkt.key] \in SessionType /\ f.pkt.src \in {"larger", "smaller"}
    BY <1>2, PacketFields, Zenon DEF fetcher_verify
  <2>2. [session[f.pkt.key] EXCEPT ![f.pkt.src] = Local] \in SessionType
    BY <2>1, Saved, Zenon
  <2>. QED  BY <1>1, <1>2, <2>1, <2>2, Zenon DEF fetcher_verify
<1>3. CASE fetcher_verify_again
  <2>1. /\ session[f.pkt.key] \in SessionType /\ f.pkt.src \in {"larger", "smaller"}
        /\ f.pkt.tag \in {NoID, Peer, Local}
    BY <1>3, PacketFields, Zenon DEF fetcher_verify_again
  <2>2. [session[f.pkt.key] EXCEPT ![f.pkt.src] = f.pkt.tag] \in SessionType
    BY <2>1, Saved, Zenon
  <2>. QED  BY <1>1, <1>3, <2>1, <2>2, Zenon DEF fetcher_verify_again
<1>4. CASE fetcher_insert
  <2>1. PICK id \in {NoID, Peer, Local} :
           /\ session' = [session EXCEPT ![f.pkt.key][f.pkt.src] = id]
           /\ f' = [f EXCEPT !.pc = "get", !.pkt.tag = id]
    BY <1>4, PacketFields, Zenon DEF fetcher_insert
  <2>2. /\ f.pkt \in PacketType /\ f.pkt.key \in Key /\ session[f.pkt.key] \in SessionType
        /\ f.pkt.src \in {"larger", "smaller"}
    BY <1>4, PacketFields, Zenon DEF fetcher_insert
  <2>3. session' = [session EXCEPT ![f.pkt.key] = [session[f.pkt.key] EXCEPT ![f.pkt.src] = id]]
    BY <2>1, <2>2, Zenon
  <2>4. [session[f.pkt.key] EXCEPT ![f.pkt.src] = id] \in SessionType
    BY <2>2, Saved, Zenon
  <2>5. f' = [f EXCEPT !.pc = "get", !.pkt = [f.pkt EXCEPT !.tag = id]]
    BY <1>0, <2>1, Zenon DEF FetcherType
  <2>6. [f.pkt EXCEPT !.tag = id] \in PacketType /\ [f.pkt EXCEPT !.tag = id].key = f.pkt.key
    BY <2>2, Zenon DEF PacketType
  <2>7. f'.pkt = [f.pkt EXCEPT !.tag = id]
    BY <1>0, <2>5, Zenon DEF FetcherType
  <2>8. f.ref = "live" /\ w' = w /\ up' = up /\ raced' = raced
    BY <1>4, Zenon DEF fetcher_insert
  <2>. QED  BY <2>2, <2>3, <2>4, <2>6, <2>7, <2>8, SessStays, Zenon
<1>5. ASSUME f' = IdleFetcher \/ (f'.ref = f.ref /\ f'.pkt = f.pkt), w' = w, session' = session,
             up' = up, raced' = raced
      PROVE  Sess'
  <2>1. f'.ref = "live" => f.ref = "live" /\ f'.pkt = f.pkt
    BY <1>5 DEF IdleFetcher
  <2>. QED  BY <1>5, <2>1, SessStays, Zenon
<1>6. CASE fetcher_get
  BY <1>0, <1>5, <1>6, Zenon DEF fetcher_get, FetcherType
<1>7. CASE fetcher_save
  BY <1>0, <1>5, <1>7, Zenon DEF fetcher_save, FetcherType
<1>8. CASE fetcher_verified
  BY <1>0, <1>5, <1>8, Zenon DEF fetcher_verified, FetcherType
<1>9. CASE fetcher_route \/ fetcher_deoptimize
  BY <1>5, <1>9, Zenon DEF fetcher_route, fetcher_deoptimize, QueueTo
<1>10. CASE fetcher_abandon \/ fetcher_get_fails
  BY <1>5, <1>10, Zenon DEF fetcher_abandon, fetcher_get_fails
<1>11. CASE fetcher_uses_freed \/ fetcher_uses_closed
  BY <1>11, UndefinedSess, Zenon DEF fetcher_uses_freed, fetcher_uses_closed
<1>. QED
  BY <1>2, <1>3, <1>4, <1>6, <1>7, <1>8, <1>9, <1>10, <1>11, Zenon DEF FetcherStep

(* So does a worker's. *)
LEMMA WorkerSess ==
  ASSUME Inv, Sess, NEW t \in Thread, WorkerStep(t)
  PROVE  Sess'
<1>. USE DEF Sess
<1>0. f \in FetcherType /\ w \in [Thread -> WorkerType]
  BY Zenon DEF Inv, Types
<1>1. ASSUME f' = f, up' = up, raced' = raced,
             \/ session' = session
             \/ \E k \in Key, s \in SessionType : session' = [session EXCEPT ![k] = s],
             \A u \in Thread \ {t} : w'[u] = w[u],
             w'[t].ref = "live" =>
               \/ w[t].ref = "live" /\ w'[t].pkt = w[t].pkt
               \/ w'[t].pkt \in PacketType /\ session[w'[t].pkt.key] \in SessionType
      PROVE  Sess'
  <2>1. \A u \in Thread : w'[u].ref = "live" =>
            \/ w[u].ref = "live" /\ w'[u].pkt = w[u].pkt
            \/ w'[u].pkt \in PacketType /\ session[w'[u].pkt.key] \in SessionType
    BY <1>1, Zenon
  <2>. QED  BY <1>1, <2>1, SessStays, Zenon
<1>2. CASE worker_dequeue(t)
  <2>1. w'[t].ref = "none" /\ \A u \in Thread \ {t} : w'[u] = w[u]
    BY <1>0, <1>2, Zenon DEF worker_dequeue
  <2>. QED  BY <1>1, <1>2, <2>1, Zenon DEF worker_dequeue
<1>3. CASE worker_getsession(t)
  <2>1. \A u \in Thread \ {t} : w'[u] = w[u]
    BY <1>0, <1>3, Zenon DEF worker_getsession
  <2>2. w[t].pkt \in PacketType /\ w[t].pkt.key \in Key
    BY <1>3, PacketFields, Zenon DEF worker_getsession, Inv, WorkerPhase
  <2>3. CASE Exists(w[t].pkt.key)
    <3>1. session[w[t].pkt.key] \in SessionType
      BY <2>2, <2>3, Zenon DEF Exists
    <3>2. w'[t].pkt = w[t].pkt
      BY <1>0, <1>3, <2>3 DEF worker_getsession, WorkerType
    <3>. QED  BY <1>1, <1>3, <2>1, <2>2, <3>1, <3>2 DEF worker_getsession
  <2>4. CASE ~ Exists(w[t].pkt.key)
    <3>1. w'[t].ref = "none"
      BY <1>0, <1>3, <2>4 DEF worker_getsession, IdleWorker
    <3>. QED  BY <1>1, <1>3, <2>1, <3>1, Zenon DEF worker_getsession
  <2>. QED  BY <2>3, <2>4, Zenon
<1>4. ASSUME w[t].ref = "live", NEW id \in {NoID, Peer, Local},
             session' = [session EXCEPT ![w[t].pkt.key] =
                           [session[w[t].pkt.key] EXCEPT ![w[t].pkt.src] = id]]
      PROVE  \E k \in Key, s \in SessionType : session' = [session EXCEPT ![k] = s]
  <2>1. /\ w[t].pkt.key \in Key /\ session[w[t].pkt.key] \in SessionType
        /\ w[t].pkt.src \in {"larger", "smaller"}
    BY <1>4, PacketFields, Zenon
  <2>2. [session[w[t].pkt.key] EXCEPT ![w[t].pkt.src] = id] \in SessionType
    BY <2>1, Saved, Zenon
  <2>. QED  BY <1>4, <2>1, <2>2, Zenon
<1>5. CASE worker_optimize(t)
  <2>1. \E k \in Key, s \in SessionType : session' = [session EXCEPT ![k] = s]
    BY <1>4, <1>5, Zenon DEF worker_optimize
  <2>2. w'[t].pkt = w[t].pkt /\ \A u \in Thread \ {t} : w'[u] = w[u]
    BY <1>0, <1>5 DEF worker_optimize, WorkerType
  <2>. QED  BY <1>1, <1>5, <2>1, <2>2, Zenon DEF worker_optimize
<1>6. CASE worker_deoptimize(t)
  <2>1. \E k \in Key, s \in SessionType : session' = [session EXCEPT ![k] = s]
    BY <1>4, <1>6, PacketFields, Zenon DEF worker_deoptimize
  <2>2. w'[t].pkt = w[t].pkt /\ \A u \in Thread \ {t} : w'[u] = w[u]
    <3>1. \/ w' = [w EXCEPT ![t].pc = "flags"]
          \/ w' = [w EXCEPT ![t].pc = "flags", ![t].has = FALSE]
      BY <1>6, Zenon DEF worker_deoptimize, worker_drop
    <3>. QED  BY <1>0, <3>1 DEF WorkerType
  <2>. QED  BY <1>1, <1>6, <2>1, <2>2, Zenon DEF worker_deoptimize
<1>7. CASE worker_verified(t) \/ worker_neither(t)
  <2>1. /\ w'[t].ref = w[t].ref /\ w'[t].pkt = w[t].pkt
        /\ \A u \in Thread \ {t} : w'[u] = w[u]
    BY <1>0, <1>7 DEF worker_verified, worker_neither, WorkerType
  <2>. QED  BY <1>1, <1>7, <2>1, Zenon DEF worker_verified, worker_neither
<1>8. CASE worker_flags(t)
  <2> DEFINE done == [w EXCEPT ![t] = IdleWorker]
             k == w[t].pkt.key
  <2>1. /\ done \in [Thread -> WorkerType] /\ done[t].ref = "none"
        /\ \A u \in Thread \ {t} : done[u] = w[u]
    BY <1>0, Idle, Zenon DEF IdleWorker
  <2>2. /\ up' = up /\ raced' = raced
        /\ \/ clearsession(k, done) /\ w[t].ref = "live"
           \/ /\ session' = [session EXCEPT ![k].state = "closing"] /\ w[t].ref = "live"
              /\ w' = done /\ f' = f
           \/ session' = session /\ w' = done /\ f' = f
    BY <1>8, Zenon DEF worker_flags
  <2>. HIDE DEF done
  <2>3. CASE clearsession(k, done) /\ w[t].ref = "live"
    <3>1. k \in Key
      BY <2>3, PacketFields, Zenon
    <3>. QED  BY <1>0, <2>1, <2>2, <2>3, <3>1, SessCleared
  <2>4. CASE /\ session' = [session EXCEPT ![k].state = "closing"] /\ w[t].ref = "live"
             /\ w' = done /\ f' = f
    <3>1. k \in Key /\ session[k] \in SessionType
      BY <2>4, PacketFields, Zenon
    <3>2. session' = [session EXCEPT ![k] = [session[k] EXCEPT !.state = "closing"]]
      BY <2>4, <3>1, Zenon
    <3>3. [session[k] EXCEPT !.state = "closing"] \in SessionType
      BY <3>1, NextState, Zenon
    <3>. QED  BY <1>1, <2>1, <2>2, <2>4, <3>1, <3>2, <3>3, Zenon
  <2>5. CASE session' = session /\ w' = done /\ f' = f
    BY <1>1, <2>1, <2>2, <2>5, Zenon
  <2>. QED  BY <2>2, <2>3, <2>4, <2>5, Zenon
<1>9. CASE worker_uses_freed(t) \/ worker_uses_closed(t)
  BY <1>9, UndefinedSess, Zenon DEF worker_uses_freed, worker_uses_closed
<1>. QED  BY <1>2, <1>3, <1>5, <1>6, <1>7, <1>8, <1>9, Zenon DEF WorkerStep

(* Every step keeps Sess. *)
LEMMA SessNext == Inv /\ Sess /\ [Next]_vars => Sess'
<1>. SUFFICES ASSUME Inv, Sess, [Next]_vars PROVE Sess'
  BY Zenon
<1>1. ASSUME NEW p \in Arrival, fetcher_callback(p) PROVE Sess'
  BY <1>1, CallbackSess, Zenon
<1>2. CASE FetcherStep
  BY <1>2, FetcherSess, Zenon
<1>3. ASSUME NEW t \in Thread, WorkerStep(t) PROVE Sess'
  BY <1>3, WorkerSess, Zenon
<1>4. ASSUME NEW k \in Key, cleanup(k) PROVE Sess'
  BY <1>4, SessCleared, Zenon DEF cleanup, Inv, Types
<1>5. CASE neighbor_changes
  <2>1. up' \in BOOLEAN /\ raced' \in BOOLEAN
    BY <1>5, Zenon DEF neighbor_changes, Sess
  <2>. QED  BY <1>5, <2>1, SessStays, Zenon DEF neighbor_changes, Sess
<1>6. CASE signal_handler \/ fetcher_graceful_exit \/ UNCHANGED vars
  BY <1>6, SessStays, Zenon DEF signal_handler, fetcher_graceful_exit, vars, Sess
<1>7. CASE fetcher_function_ends
  <2>1. f'.ref = f.ref /\ f'.pkt = f.pkt
    BY <1>7, Zenon DEF fetcher_function_ends, Inv, Types, FetcherType
  <2>. QED  BY <1>7, <2>1, SessStays, Zenon DEF fetcher_function_ends, Sess
<1>8. CASE handler_uses_closed
  BY <1>8, UndefinedSess, Zenon DEF handler_uses_closed
<1>. QED  BY <1>1, <1>2, <1>3, <1>4, <1>5, <1>6, <1>7, <1>8, Zenon DEF Next

(* The flags of the service, and the packets there was no buffer for. *)
Flags ==
  /\ running \in BOOLEAN /\ open \in BOOLEAN /\ closing \in BOOLEAN
  /\ starved \subseteq Id

(* Every step keeps their types. *)
LEMMA FlagsNext == Inv /\ Flags /\ [Next]_vars => Flags'
<1>. SUFFICES ASSUME Inv, Flags, [Next]_vars PROVE Flags'
  BY Zenon
<1>1. ASSUME nfqueue' = nfqueue, starved' = starved PROVE Flags'
  BY <1>1, Zenon DEF Flags, nfqueue
<1>2. ASSUME NEW p \in Arrival, fetcher_callback(p) PROVE Flags'
  BY <1>1, <1>2, Zenon DEF fetcher_callback
<1>3. CASE FetcherStep
  <2>1. CASE fetcher_get_fails
    <3>1. f.pkt.id \in Id
      BY <2>1, DataPathAssumption DEF fetcher_get_fails, Inv, Packets, Types, Busy, Id
    <3>. QED  BY <2>1, <3>1, Zenon DEF fetcher_get_fails, Flags, nfqueue
  <2>2. CASE fetcher_verify \/ fetcher_verified \/ fetcher_verify_again \/ fetcher_insert
    BY <1>1, <2>2, Zenon
    DEF fetcher_verify, fetcher_verified, fetcher_verify_again, fetcher_insert, AcceptHandshake
  <2>3. CASE fetcher_get \/ fetcher_save \/ fetcher_abandon
    BY <1>1, <2>3, Zenon DEF fetcher_get, fetcher_save, fetcher_abandon
  <2>4. CASE fetcher_route \/ fetcher_deoptimize
    BY <1>1, <2>4, Zenon DEF fetcher_route, fetcher_deoptimize, QueueTo
  <2>5. CASE fetcher_uses_freed \/ fetcher_uses_closed
    BY <1>1, <2>5, Zenon DEF fetcher_uses_freed, fetcher_uses_closed, BecomeUndefined
  <2>. QED  BY <1>3, <2>1, <2>2, <2>3, <2>4, <2>5, Zenon DEF FetcherStep
<1>4. ASSUME NEW t \in Thread, WorkerStep(t) PROVE Flags'
  BY <1>1, <1>4, Zenon DEF WorkerStep, worker_dequeue, worker_getsession, worker_optimize,
     worker_verified, worker_deoptimize, worker_neither, worker_flags, worker_uses_freed,
     worker_uses_closed, BecomeUndefined
<1>5. ASSUME NEW k \in Key, cleanup(k) PROVE Flags'
  BY <1>1, <1>5, Zenon DEF cleanup
<1>6. CASE neighbor_changes \/ handler_uses_closed \/ UNCHANGED vars
  BY <1>1, <1>6, Zenon DEF neighbor_changes, handler_uses_closed, BecomeUndefined, vars
<1>7. CASE signal_handler \/ fetcher_graceful_exit \/ fetcher_function_ends
  BY <1>7, Zenon DEF signal_handler, fetcher_graceful_exit, fetcher_function_ends, Flags
<1>. QED  BY <1>2, <1>3, <1>4, <1>5, <1>6, <1>7, Zenon DEF Next

-----------------------------------------------------------------------------
(* No packet is forgotten *)

(* The fetcher has asked about the neighbor once, with the answer yes, and *)
(* will get the same answer.                                               *)
Asked == f.pc = "route2" /\ ~ raced => verify_neighbor_in_domain(f.pkt.tag)

(* A packet without a verdict is the fetcher's or in a buffer in use, if   *)
(* there was a buffer for it.                                              *)
AllHeld ==
  \A i \in Id \ starved : verdict[i] = "pending" =>
    WithFetcher(i) \/ \E b \in Buffer : Live(b) /\ data[b].id = i

Acc == Asked /\ (~ raced => AllHeld)

(* A step that leaves every packet where it is. *)
LEMMA HeldStays ==
  ASSUME Inv, AllHeld, verdict' = verdict, queue' = queue, starved' = starved,
         f.pc # "idle" => f'.pc # "idle" /\ f'.pkt.id = f.pkt.id,
         \A t \in Thread : w'[t].has = w[t].has /\ w'[t].buf = w[t].buf,
         \A b \in Buffer : Live(b) => data'[b].id = data[b].id
  PROVE  AllHeld'
<1>1. \A i : WithFetcher(i) => WithFetcher(i)'
  BY Zenon DEF WithFetcher
<1>2. \A b \in Buffer : Live(b)' <=> Live(b)
  BY Zenon DEF Live, Queued, WorkerHas
<1>. QED  BY <1>1, <1>2 DEF AllHeld

(* A worker gives its packet the verdict. *)
LEMMA HeldFinishes ==
  ASSUME Inv, AllHeld, NEW t \in Thread, NEW v \in {"accept", "drop"}, w[t].has, Finish(t, v),
         f'.pc = f.pc, f'.pkt = f.pkt, queue' = queue, data' = data, starved' = starved,
         \A u \in Thread \ {t} : w'[u].has = w[u].has /\ w'[u].buf = w[u].buf
  PROVE  AllHeld'
<1>1. verdict' = [verdict EXCEPT ![w[t].pkt.id] = v]
  BY Zenon DEF Finish, nfq_set_verdict
<1>2. w[t].buf \in Buffer /\ data[w[t].buf].id = w[t].pkt.id
  BY Zenon DEF Inv, WorkerPhase, BufferKeepsPacket
<1>3. ASSUME NEW i \in Id, verdict'[i] = "pending"
      PROVE  verdict[i] = "pending" /\ i # w[t].pkt.id
  BY <1>1, <1>3, Zenon DEF Inv, Types
<1>4. ASSUME NEW b \in Buffer, Live(b), b # w[t].buf PROVE Live(b)'
  <2>1. PICK u \in Thread : Queued(b, u) \/ WorkerHas(b, u)
    BY <1>4, Zenon DEF Live
  <2>2. CASE Queued(b, u)
    BY <2>2, Zenon DEF Live, Queued
  <2>3. CASE WorkerHas(b, u)
    BY <1>4, <2>3, Zenon DEF Live, WorkerHas
  <2>. QED  BY <2>1, <2>2, <2>3, Zenon
<1>5. \A i : WithFetcher(i) => WithFetcher(i)'
  BY Zenon DEF WithFetcher
<1>. QED  BY <1>2, <1>3, <1>4, <1>5 DEF AllHeld

(* The steps of the fetcher. *)
LEMMA CallbackHeld ==
  ASSUME Inv, AllHeld, NEW a \in Arrival, fetcher_callback(a)
  PROVE  AllHeld'
<1> DEFINE p == [a EXCEPT !.id = count + 1]
           i == count + 1
<1>1. f.pc = "idle" /\ w' = w /\ data' = data /\ queue' = queue /\ starved' = starved
  BY Zenon DEF fetcher_callback
<1>2. p.id = i
  BY DataPathAssumption, Zenon DEF PacketType
<1>3. \/ verdict' = [verdict EXCEPT ![i] = "accept"]
      \/ /\ verdict' = [verdict EXCEPT ![i] = "pending"]
         /\ f'.pc # "idle" /\ f'.pkt = p
  BY <1>2 DEF fetcher_callback, Fetch, nfq_set_verdict
<1>. HIDE DEF p, i
<1>4. \A b \in Buffer : Live(b)' <=> Live(b)
  BY <1>1, Zenon DEF Live, Queued, WorkerHas
<1>5. ASSUME NEW j \in Id, verdict'[j] = "pending"
      PROVE  verdict[j] = "pending" \/ WithFetcher(j)'
  BY <1>2, <1>3, <1>5, Zenon DEF Inv, Types, WithFetcher
<1>6. \A j : ~ WithFetcher(j)
  BY <1>1, Zenon DEF WithFetcher
<1>. QED  BY <1>1, <1>4, <1>5, <1>6, Zenon DEF AllHeld

(* A packet of the handshake is accepted at once. *)
LEMMA HandshakeHeld ==
  ASSUME Inv, AllHeld, NEW s, AcceptHandshake(s)
  PROVE  AllHeld'
<1>1. /\ verdict' = [verdict EXCEPT ![f.pkt.id] = "accept"]
      /\ w' = w /\ data' = data /\ queue' = queue /\ starved' = starved
  BY Zenon DEF AcceptHandshake, nfq_set_verdict
<1>2. \A b \in Buffer : Live(b)' <=> Live(b)
  BY <1>1, Zenon DEF Live, Queued, WorkerHas
<1>3. ASSUME NEW j \in Id, verdict'[j] = "pending"
      PROVE  verdict[j] = "pending" /\ ~ WithFetcher(j)
  BY <1>1, <1>3, Zenon DEF Inv, Types, WithFetcher
<1>. QED  BY <1>1, <1>2, <1>3, Zenon DEF AllHeld

(* A packet the fetcher queues is held by a worker's queue. *)
LEMMA QueueHeld ==
  ASSUME Inv, Sess, AllHeld, NEW how \in {"opt", "deopt"}, f.ref = "live",
         f.pc \in {"route", "route2", "deoptimize"}, QueueTo(how)
  PROVE  AllHeld'
<1>1. PICK t \in Thread : t = <<session[f.pkt.key].queue, how>>
  <2>1. session[f.pkt.key].queue \in Worker
    BY Zenon DEF Sess, SessionType
  <2>. QED  BY <2>1, Zenon DEF Thread
<1>2. /\ queue' = [queue EXCEPT ![t] = Append(queue[t], f.buf)]
      /\ w' = w /\ data' = data /\ verdict' = verdict /\ starved' = starved
  BY <1>1, Zenon DEF QueueTo
<1>3. f.buf \in Buffer /\ data[f.buf] = f.pkt /\ queue \in [Thread -> Seq(Buffer)]
  BY Zenon DEF Inv, FetcherPhase, Types
<1>4. \A b \in Buffer, u \in Thread :
         /\ WorkerHas(b, u)' <=> WorkerHas(b, u)
         /\ Queued(b, u) => Queued(b, u)'
  <2>1. \A u \in Thread : u # t => queue'[u] = queue[u]
    BY <1>2, <1>3, Zenon
  <2>2. queue'[t] = Append(queue[t], f.buf)
    BY <1>2, <1>3, Zenon
  <2>. QED  BY <1>2, <1>3, <2>1, <2>2, Put DEF Queued, WorkerHas
<1>5. PICK b \in Buffer : b = f.buf
  BY <1>3, Zenon
<1>6. Queued(b, t)'
  <2>1. queue'[t] = Append(queue[t], b)
    BY <1>2, <1>3, <1>5, Zenon
  <2>. QED  BY <1>3, <1>5, <2>1, Put DEF Queued
<1>7. Live(b)' /\ \A c \in Buffer : Live(c) => Live(c)'
  BY <1>4, <1>6 DEF Live
<1>8. \A i : WithFetcher(i) => data'[b].id = i
  BY <1>2, <1>3, <1>5, Zenon DEF WithFetcher
<1>. QED  BY <1>2, <1>7, <1>8, Zenon DEF AllHeld

(* The use of freed memory. *)
LEMMA UndefinedAcc ==
  ASSUME Inv, Acc, BecomeUndefined
  PROVE  Acc'
<1>1. f'.pc = "undefined" /\ f'.pkt = f.pkt
  BY Zenon DEF BecomeUndefined, Inv, Types, FetcherType
<1>2. w \in [Thread -> WorkerType]
  BY Zenon DEF Inv, Types
<1>3. \A t \in Thread : w'[t].has = w[t].has /\ w'[t].buf = w[t].buf
  BY <1>2, Zenon DEF BecomeUndefined, WorkerType
<1>. QED  BY <1>1, <1>3, HeldStays, Zenon DEF BecomeUndefined, Acc, Asked

(* No step of the fetcher forgets a packet there is a buffer for. *)
LEMMA FetcherAcc ==
  ASSUME Inv, Sess, Acc, FetcherStep
  PROVE  Acc'
<1>0. f \in FetcherType /\ w \in [Thread -> WorkerType]
  BY Zenon DEF Inv, Types
<1>1. CASE fetcher_verify \/ fetcher_verify_again
  <2>1. PICK s : AcceptHandshake(s)
    BY <1>1, Zenon DEF fetcher_verify, fetcher_verify_again
  <2>2. raced' = raced /\ f'.pc = "idle"
    BY <2>1, Zenon DEF AcceptHandshake, IdleFetcher
  <2>. QED  BY <2>1, <2>2, HandshakeHeld, Zenon DEF Acc, Asked
<1>2. CASE fetcher_verified
  <2>1. /\ f'.pkt = f.pkt /\ f'.pc # "idle" /\ up' = up /\ raced' = raced
        /\ verify_neighbor_in_domain(f.pkt.tag)
        /\ w' = w /\ queue' = queue /\ data' = data /\ verdict' = verdict
        /\ starved' = starved
    BY <1>0, <1>2, Zenon DEF fetcher_verified, FetcherType
  <2>. QED  BY <2>1, HeldStays, Zenon DEF Acc, Asked, verify_neighbor_in_domain
<1>3. CASE fetcher_insert
  <2>1. f.pkt \in PacketType
    BY <1>3, Zenon DEF Inv, FetcherPhase, Busy, fetcher_insert
  <2>2. PICK id : f' = [f EXCEPT !.pc = "get", !.pkt.tag = id]
    BY <1>3, Zenon DEF fetcher_insert
  <2>3. f'.pc = "get" /\ f'.pkt.id = f.pkt.id
    BY <1>0, <2>1, <2>2, Zenon DEF FetcherType, PacketType
  <2>. QED  BY <1>3, <2>3, HeldStays, Zenon DEF fetcher_insert, Acc, Asked
<1>4. CASE fetcher_get
  <2>1. PICK b \in free : /\ data' = [data EXCEPT ![b] = Zero]
                          /\ f' = [f EXCEPT !.pc = "save", !.buf = b]
    BY <1>4, Zenon DEF fetcher_get
  <2>2. f'.pc = "save" /\ f'.pkt = f.pkt
    BY <1>0, <2>1, Zenon DEF FetcherType
  <2>3. b \in Buffer /\ ~ Live(b)
    BY Zenon DEF Inv, Types, Users, Live
  <2>4. \A c \in Buffer : Live(c) => data'[c] = data[c]
    BY <2>1, <2>3, Zenon DEF Inv, Types
  <2>. QED  BY <1>4, <2>2, <2>4, HeldStays, Zenon DEF fetcher_get, Acc, Asked
<1>5. CASE fetcher_save
  <2>1. f'.pc \in {"deoptimize", "route"} /\ f'.pkt = f.pkt
    BY <1>0, <1>5, Zenon DEF fetcher_save, FetcherType
  <2>2. f.buf \in Buffer /\ ~ Live(f.buf)
    BY <1>5, Zenon DEF fetcher_save, Inv, FetcherPhase, Users, FetcherHas, Live
  <2>3. \A c \in Buffer : Live(c) => data'[c] = data[c]
    BY <1>5, <2>2, Zenon DEF fetcher_save, Inv, Types
  <2>. QED  BY <1>5, <2>1, <2>3, HeldStays, Zenon DEF fetcher_save, Acc, Asked
<1>6. CASE fetcher_route \/ fetcher_deoptimize
  <2>1. PICK how \in {"opt", "deopt"} :
           f.pc \in {"route", "route2", "deoptimize"} /\ f.ref = "live" /\ QueueTo(how)
    BY <1>6, Zenon DEF fetcher_route, fetcher_deoptimize
  <2>2. raced' = raced /\ f'.pc = "idle"
    BY <2>1, Zenon DEF QueueTo, IdleFetcher
  <2>. QED  BY <2>1, <2>2, QueueHeld, Zenon DEF Acc, Asked
<1>7. CASE fetcher_abandon
  <2>1. raced /\ raced' = raced
    BY <1>7, Zenon DEF fetcher_abandon, Acc, Asked, Sess
  <2>. QED  BY <2>1, Zenon DEF Acc, Asked
<1>8. CASE fetcher_get_fails
  <2>1. /\ f'.pc = "idle" /\ raced' = raced /\ starved' = starved \cup {f.pkt.id}
        /\ w' = w /\ queue' = queue /\ data' = data /\ verdict' = verdict
    BY <1>8, Zenon DEF fetcher_get_fails, IdleFetcher
  <2>2. \A b \in Buffer : Live(b)' <=> Live(b)
    BY <2>1, Zenon DEF Live, Queued, WorkerHas
  <2>3. \A i \in Id \ starved' : i \in Id \ starved /\ ~ WithFetcher(i)
    BY <2>1, Zenon DEF WithFetcher
  <2>. QED  BY <2>1, <2>2, <2>3, Zenon DEF Acc, Asked, AllHeld
<1>9. CASE fetcher_uses_freed \/ fetcher_uses_closed
  <2>1. BecomeUndefined
    BY <1>9, Zenon DEF fetcher_uses_freed, fetcher_uses_closed
  <2>. QED  BY <2>1, UndefinedAcc, Zenon
<1>. QED  BY <1>1, <1>2, <1>3, <1>4, <1>5, <1>6, <1>7, <1>8, <1>9, Zenon DEF FetcherStep

(* The steps of a worker. *)
LEMMA DequeueHeld ==
  ASSUME Inv, AllHeld, NEW t \in Thread, worker_dequeue(t)
  PROVE  AllHeld'
<1>1. PICK b : b = Head(queue[t])
  BY Zenon
<1>2. /\ queue[t] # <<>> /\ queue[t] \in Seq(Buffer) /\ w \in [Thread -> WorkerType]
      /\ w[t].pc = "idle" /\ ~ w[t].has
  BY Zenon DEF worker_dequeue, Inv, Types, WorkerPhase
<1>3. /\ f' = f /\ data' = data /\ verdict' = verdict /\ starved' = starved
      /\ queue'[t] = Tail(queue[t]) /\ w'[t].has /\ w'[t].buf = b
      /\ \A u \in Thread : u # t => queue'[u] = queue[u] /\ w'[u] = w[u]
  BY <1>1, <1>2, Zenon DEF worker_dequeue, Inv, Types
<1>4. \A n \in 1 .. Len(queue[t]) :
         queue[t][n] = b \/ \E m \in 1 .. Len(Tail(queue[t])) : Tail(queue[t])[m] = queue[t][n]
  <2>1. /\ Len(queue[t]) \in Nat /\ b = queue[t][1] /\ Len(Tail(queue[t])) = Len(queue[t]) - 1
        /\ \A n \in 1 .. Len(Tail(queue[t])) : Tail(queue[t])[n] = queue[t][n + 1]
    BY <1>1, <1>2
  <2>2. ASSUME NEW n \in 1 .. Len(queue[t]), n # 1
        PROVE  n - 1 \in 1 .. Len(Tail(queue[t])) /\ Tail(queue[t])[n - 1] = queue[t][n]
    BY <2>1, <2>2
  <2>. QED  BY <2>1, <2>2, Zenon
<1>5. \A c \in Buffer, u \in Thread :
         /\ WorkerHas(c, u) => WorkerHas(c, u)'
         /\ Queued(c, u) => Queued(c, u)' \/ WorkerHas(c, t)'
  <2>1. ASSUME NEW c \in Buffer, NEW u \in Thread, WorkerHas(c, u) PROVE WorkerHas(c, u)'
    BY <1>2, <1>3, <2>1, Zenon DEF WorkerHas
  <2>2. ASSUME NEW c \in Buffer, NEW u \in Thread, Queued(c, u), u # t PROVE Queued(c, u)'
    BY <1>3, <2>2, Zenon DEF Queued
  <2>3. ASSUME NEW c \in Buffer, Queued(c, t) PROVE Queued(c, t)' \/ WorkerHas(c, t)'
    BY <1>3, <1>4, <2>3 DEF Queued, WorkerHas
  <2>. QED  BY <2>1, <2>2, <2>3, Zenon
<1>6. \A c \in Buffer : Live(c) => Live(c)'
  BY <1>5, Zenon DEF Live
<1>7. \A i : WithFetcher(i)' <=> WithFetcher(i)
  BY <1>3, Zenon DEF WithFetcher
<1>. QED  BY <1>3, <1>6, <1>7, Zenon DEF AllHeld

(* No step of a worker forgets a packet. *)
LEMMA WorkerAcc ==
  ASSUME Inv, Sess, Acc, NEW t \in Thread, WorkerStep(t)
  PROVE  Acc'
<1>0. /\ f \in FetcherType /\ w \in [Thread -> WorkerType]
      /\ data \in [Buffer -> PacketType \cup {Zero}]
  BY Zenon DEF Inv, Types
<1>1. up' = up /\ raced' = raced /\ starved' = starved
  BY Zenon DEF WorkerStep, worker_dequeue, worker_getsession, worker_optimize, worker_verified,
         worker_deoptimize, worker_neither, worker_flags, worker_uses_freed, worker_uses_closed,
         BecomeUndefined
<1>2. ASSUME f'.pc = f.pc, f'.pkt = f.pkt, AllHeld => AllHeld' PROVE Acc'
  BY <1>1, <1>2, Zenon DEF Acc, Asked, verify_neighbor_in_domain
<1>3. CASE worker_dequeue(t)
  BY <1>2, <1>3, DequeueHeld, Zenon DEF worker_dequeue
<1>4. CASE worker_getsession(t)
  <2>1. w[t].has /\ f' = f /\ queue' = queue /\ data' = data
    BY <1>4, Zenon DEF worker_getsession, Inv, WorkerPhase
  <2>2. CASE Exists(w[t].pkt.key)
    <3>1. /\ verdict' = verdict
          /\ \A u \in Thread : w'[u].has = w[u].has /\ w'[u].buf = w[u].buf
      BY <1>0, <1>4, <2>2 DEF worker_getsession, WorkerType
    <3>. QED  BY <1>1, <1>2, <2>1, <3>1, HeldStays, Zenon
  <2>3. CASE ~ Exists(w[t].pkt.key)
    <3>1. Finish(t, "accept") /\ \A u \in Thread \ {t} : w'[u] = w[u]
      BY <1>0, <1>4, <2>3, Zenon DEF worker_getsession
    <3>. QED  BY <1>1, <1>2, <2>1, <3>1, HeldFinishes, Zenon
  <2>. QED  BY <2>2, <2>3, Zenon
<1>5. CASE worker_optimize(t)
  <2>1. /\ f' = f /\ queue' = queue /\ verdict' = verdict /\ w[t].has
        /\ \A u \in Thread : w'[u].has = w[u].has /\ w'[u].buf = w[u].buf
    BY <1>0, <1>5 DEF worker_optimize, WorkerType, Inv, WorkerPhase
  <2>2. w[t].buf \in Buffer /\ data[w[t].buf] \in PacketType
    BY <2>1, Zenon DEF Inv, WorkerPhase, Packets, Live, WorkerHas
  <2>3. PICK c : data' = [data EXCEPT ![w[t].buf] =
                            [data[w[t].buf] EXCEPT !.tag = Local, !.comp = @ \/ c]]
    BY <1>5, Zenon DEF worker_optimize
  <2>4. \A b \in Buffer : data'[b].id = data[b].id
    BY <1>0, <2>2, <2>3, Zenon DEF PacketType
  <2>. QED  BY <1>1, <1>2, <2>1, <2>4, HeldStays, Zenon
<1>6. CASE worker_deoptimize(t)
  <2>1. f' = f /\ queue' = queue /\ w[t].has
    BY <1>6, Zenon DEF worker_deoptimize, Inv, WorkerPhase
  <2>2. CASE worker_drop(t) /\ data' = data
    <3>1. Finish(t, "drop") /\ \A u \in Thread \ {t} : w'[u] = w[u]
      BY <1>0, <2>2, Zenon DEF worker_drop
    <3>. QED  BY <1>1, <1>2, <2>1, <2>2, <3>1, HeldFinishes, Zenon
  <2>3. CASE /\ \E c : data' = [data EXCEPT ![w[t].buf] = [data[w[t].buf] EXCEPT !.comp = @ /\ c]]
             /\ w' = [w EXCEPT ![t].pc = "flags"] /\ verdict' = verdict
    <3>1. \A u \in Thread : w'[u].has = w[u].has /\ w'[u].buf = w[u].buf
      BY <1>0, <2>3 DEF WorkerType
    <3>2. w[t].buf \in Buffer /\ data[w[t].buf] \in PacketType
      BY <2>1, Zenon DEF Inv, WorkerPhase, Packets, Live, WorkerHas
    <3>3. PICK c : data' = [data EXCEPT ![w[t].buf] = [data[w[t].buf] EXCEPT !.comp = @ /\ c]]
      BY <2>3, Zenon
    <3>4. \A b \in Buffer : data'[b].id = data[b].id
      BY <1>0, <3>2, <3>3 DEF PacketType
    <3>. QED  BY <1>1, <1>2, <2>1, <2>3, <3>1, <3>4, HeldStays, Zenon
  <2>. QED  BY <1>6, <2>2, <2>3, Zenon DEF worker_deoptimize
<1>7. CASE worker_verified(t) \/ worker_neither(t)
  <2>1. /\ f' = f /\ queue' = queue /\ data' = data /\ verdict' = verdict
        /\ \A u \in Thread : w'[u].has = w[u].has /\ w'[u].buf = w[u].buf
    BY <1>0, <1>7 DEF worker_verified, worker_neither, WorkerType
  <2>. QED  BY <1>1, <1>2, <2>1, HeldStays, Zenon
<1>8. CASE worker_flags(t)
  <2> DEFINE done == [w EXCEPT ![t] = IdleWorker]
             k == w[t].pkt.key
  <2>1. /\ done \in [Thread -> WorkerType] /\ ~ done[t].has
        /\ \A u \in Thread \ {t} : done[u] = w[u]
    BY <1>0, Idle, Zenon DEF IdleWorker
  <2>2. \/ w' = done /\ f' = f
        \/ w' = [u \in Thread |-> Freed(done[u], k)] /\ f' = Freed(f, k)
    BY <1>8, Zenon DEF worker_flags, clearsession
  <2>3. queue' = queue /\ data' = data
    BY <1>8, Zenon DEF worker_flags
  <2>. HIDE DEF done, k
  <2>4. /\ f'.pc = f.pc /\ f'.pkt = f.pkt
        /\ \A u \in Thread \ {t} : w'[u].has = w[u].has /\ w'[u].buf = w[u].buf
        /\ ~ w'[t].has
    BY <1>0, <2>1, <2>2, FreedFetcher, FreedWorker
  <2>5. CASE w[t].has
    <3>1. Finish(t, "accept")
      BY <1>8, <2>5, Zenon DEF worker_flags
    <3>. QED  BY <1>1, <1>2, <2>3, <2>4, <2>5, <3>1, HeldFinishes, Zenon
  <2>6. CASE ~ w[t].has
    <3>1. verdict' = verdict
      BY <1>8, <2>6, Zenon DEF worker_flags
    <3>2. \A b \in Buffer, u \in Thread :
            (Queued(b, u)' <=> Queued(b, u)) /\ (WorkerHas(b, u)' <=> WorkerHas(b, u))
      BY <2>3, <2>4, <2>6, Zenon DEF Queued, WorkerHas
    <3>3. \A b \in Buffer : Live(b)' <=> Live(b)
      BY <3>2, Zenon DEF Live
    <3>4. \A i : WithFetcher(i)' <=> WithFetcher(i)
      BY <2>4, Zenon DEF WithFetcher
    <3>5. AllHeld => AllHeld'
      BY <1>1, <2>3, <3>1, <3>3, <3>4, Zenon DEF AllHeld
    <3>. QED  BY <1>2, <2>4, <3>5, Zenon
  <2>. QED  BY <2>5, <2>6, Zenon
<1>9. CASE worker_uses_freed(t) \/ worker_uses_closed(t)
  <2>1. BecomeUndefined
    BY <1>9, Zenon DEF worker_uses_freed, worker_uses_closed
  <2>. QED  BY <2>1, UndefinedAcc, Zenon
<1>. QED  BY <1>3, <1>4, <1>5, <1>6, <1>7, <1>8, <1>9, Zenon DEF WorkerStep

(* No step forgets a packet there is a buffer for. *)
LEMMA AccNext == Inv /\ Sess /\ Acc /\ [Next]_vars => Acc'
<1>. SUFFICES ASSUME Inv, Sess, Acc, [Next]_vars PROVE Acc'
  BY Zenon
<1>0. f \in FetcherType /\ w \in [Thread -> WorkerType]
  BY Zenon DEF Inv, Types
<1>1. ASSUME NEW p \in Arrival, fetcher_callback(p) PROVE Acc'
  <2>1. raced' = raced /\ f'.pc # "route2"
    BY <1>1 DEF fetcher_callback, Fetch
  <2>. QED  BY <1>1, <2>1, CallbackHeld, Zenon DEF Acc, Asked
<1>2. CASE FetcherStep
  BY <1>2, FetcherAcc, Zenon
<1>3. ASSUME NEW t \in Thread, WorkerStep(t) PROVE Acc'
  BY <1>3, WorkerAcc, Zenon
<1>4. ASSUME NEW k \in Key, cleanup(k) PROVE Acc'
  <2>1. /\ f'.pc = f.pc /\ f'.pkt = f.pkt
        /\ \A t \in Thread : w'[t].has = w[t].has /\ w'[t].buf = w[t].buf
    BY <1>0, <1>4, FreedFetcher, FreedWorker DEF cleanup, clearsession
  <2>. QED  BY <1>4, <2>1, HeldStays, Zenon DEF cleanup, Acc, Asked, verify_neighbor_in_domain
<1>5. CASE neighbor_changes
  BY <1>5, HeldStays, Zenon DEF neighbor_changes, Acc, Asked, Sess
<1>6. CASE signal_handler \/ fetcher_graceful_exit \/ UNCHANGED vars
  BY <1>6, HeldStays, Zenon
  DEF signal_handler, fetcher_graceful_exit, vars, Acc, Asked, verify_neighbor_in_domain
<1>7. CASE fetcher_function_ends
  <2>1. f.pc = "idle" /\ f'.pc = "ended"
    BY <1>0, <1>7, Zenon DEF fetcher_function_ends, FetcherType
  <2>. QED  BY <1>7, <2>1, HeldStays, Zenon DEF fetcher_function_ends, Acc, Asked
<1>8. CASE handler_uses_closed
  BY <1>8, UndefinedAcc, Zenon DEF handler_uses_closed
<1>. QED  BY <1>1, <1>2, <1>3, <1>4, <1>5, <1>6, <1>7, <1>8, Zenon DEF Next

(* All the parts of the invariant together. *)
LEMMA FullInvariant == Spec => [](Inv /\ Sess /\ Flags /\ Acc)
<1>1. Init => Sess
  <2>. SUFFICES ASSUME Init PROVE Sess
    BY Zenon
  <2>1. OpenSession \subseteq SessionType
    BY Zenon DEF OpenSession, SessionType
  <2>2. f.ref = "none" /\ \A t \in Thread : w[t].ref = "none"
    BY Zenon DEF Init, IdleFetcher, IdleWorker
  <2>. QED  BY <2>1, <2>2, Zenon DEF Init, Sess
<1>2. Init => Acc
  BY DEF Init, Acc, Asked, AllHeld, IdleFetcher
<1>3. Init => Flags
  BY Zenon DEF Init, Flags
<1>. QED  BY <1>1, <1>2, <1>3, InitInv, NextKeeps, SessNext, FlagsNext, AccNext, PTL DEF Spec

-----------------------------------------------------------------------------

(* The types, for every number of workers, buffers, keys and packets; in   *)
(* particular a session pointer that is not dangling leads to a session.   *)
THEOREM TypesAreRight == Spec => []TypeOK
<1>1. Inv /\ Sess /\ Flags => TypeOK
  BY Zenon DEF Inv, Types, FetcherType, WorkerType, Sess, Flags, TypeOK
<1>. QED  BY <1>1, FullInvariant, PTL

(* A packet without a verdict is with the fetcher, in a queue or with a    *)
(* worker, unless there was no buffer for it or the neighbor has changed   *)
(* between the fetcher's two questions: those are the two places of the    *)
(* daemon where a packet can be forgotten.                                 *)
THEOREM PacketsAccounted == Spec => []Accounted
<1>1. Inv /\ Acc => Accounted
  <2>. SUFFICES ASSUME Inv, AllHeld, NEW i \in Id \ starved, verdict[i] = "pending", ~ WithFetcher(i)
                PROVE  \E t \in Thread : WithWorker(i, t) \/ Waiting(i, t)
    BY Zenon DEF Acc, Accounted, NeverForgotten
  <2>1. PICK b \in Buffer : Live(b) /\ data[b].id = i
    BY Zenon DEF AllHeld
  <2>2. PICK t \in Thread : Queued(b, t) \/ WorkerHas(b, t)
    BY <2>1, Zenon DEF Live
  <2>3. CASE Queued(b, t)
    BY <2>1, <2>3, Zenon DEF Queued, Waiting
  <2>4. CASE WorkerHas(b, t)
    BY <2>1, <2>4, Zenon DEF WorkerHas, WithWorker, Inv, BufferKeepsPacket
  <2>. QED  BY <2>2, <2>3, <2>4, Zenon
<1>. QED  BY <1>1, FullInvariant, PTL

=============================================================================
