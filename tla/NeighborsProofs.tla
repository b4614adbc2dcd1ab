--------------------------- MODULE NeighborsProofs ---------------------------
(***************************************************************************)
(* Proofs about Neighbors, for any number of neighbors, descriptors,       *)
(* messages and commands, and any lengths of the timers.                   *)
(*                                                                         *)
(* The IPC thread loses no event of its edge-triggered epoll: epoll_wait   *)
(* replaces the events of the round before, so EdgeInv adds that all of    *)
(* them have been handled when the thread waits.                           *)
(*                                                                         *)
(* Rest has what the other promises need.  A neighbor's socket leads to it *)
(* (Home), as long as no descriptor was used again under a neighbor that   *)
(* still had it; only its own messages are in its socket (OwnMessages);    *)
(* and a neighbor that serves answered not long ago (Recent), which        *)
(* depends on how far hello_neighbors has come in the list in this round   *)
(* (Ages).                                                                 *)
(***************************************************************************)
EXTENDS Neighbors, TLAPS

Socket == [peer : Peer, in : Seq(Message), end : {"open", "eof", "reset"}]
Shape == ipc = [pc |-> ipc.pc, cur |-> ipc.cur, events |-> ipc.events]
WaitsWithNone == At("wait") => ipc.events = {}
Unread(fd) == Open(fd) /\ (conn[fd].in # <<>> \/ conn[fd].end # "open")
Reported(fd) == fd \in ready \/ \E err \in BOOLEAN : <<fd, err>> \in ipc.events
EdgeInv ==
  /\ conn \in [Fd -> Socket \cup {Closed}]
  /\ Shape /\ WaitsWithNone /\ NoEdgeLost /\ deaf \in BOOLEAN

(* Going on with the list of neighbors keeps the events. *)
LEMMA VisitKeeps ==
  ASSUME NEW rest, NEW table, NEW late, NEW events, Visit(rest, table, late, events)
  PROVE  Shape' /\ ipc'.events = events /\ ipc'.pc \in {"hello", "events"}
BY DEF Visit, Shape

(* A new socket has nothing to report. *)
LEMMA NewSocketQuiet ==
  ASSUME NEW p \in Peer
  PROVE  NewSocket(p) \in Socket /\ NewSocket(p).in = <<>> /\ NewSocket(p).end = "open"
BY DEF NewSocket, Socket

(* A step that opens a socket at most, and keeps the events and what is    *)
(* ready.                                                                  *)
LEMMA OpensOnly ==
  ASSUME EdgeInv, Shape', ipc'.events = ipc.events, ~ Undefined, ~ At("wait"), ipc'.pc # "wait",
         ready' = ready, backlog' \subseteq backlog, deaf' = deaf,
         \/ conn' = conn
         \/ \E fd \in Fd, p \in Peer : conn' = [conn EXCEPT ![fd] = NewSocket(p)]
  PROVE  EdgeInv'
<1>1. WaitsWithNone'
  BY Zenon DEF WaitsWithNone, At
<1>2. CASE conn' = conn
  BY <1>1, <1>2, Zenon DEF EdgeInv, NoEdgeLost, Undefined, At, Open
<1>3. CASE \E fd \in Fd, p \in Peer : conn' = [conn EXCEPT ![fd] = NewSocket(p)]
  <2>1. PICK fd \in Fd, p \in Peer : conn' = [conn EXCEPT ![fd] = NewSocket(p)]
    BY <1>3, Zenon
  <2>2. conn' \in [Fd -> Socket \cup {Closed}]
    BY <2>1, NewSocketQuiet, Zenon DEF EdgeInv
  <2>3. conn'[fd].in = <<>> /\ conn'[fd].end = "open" /\ \A e \in Fd \ {fd} : conn'[e] = conn[e]
    BY <2>1, NewSocketQuiet, Zenon DEF EdgeInv
  <2> QED
    BY <1>1, <2>2, <2>3, Zenon DEF EdgeInv, NoEdgeLost, Undefined, At, Open
<1> QED
  BY <1>2, <1>3, Zenon

(* A step that closes a socket, or has emptied it. *)
LEMMA QuietsOne ==
  ASSUME EdgeInv, Shape', ~ Undefined, ~ At("wait"), ipc'.pc # "wait", backlog' = backlog, deaf' = deaf,
         NEW fd \in Fd, ready' = ready \ {fd},
         conn' \in [Fd -> Socket \cup {Closed}], \A e \in Fd \ {fd} : conn'[e] = conn[e],
         ~ Unread(fd)',
         \A e \in {Listener} \cup (Fd \ {fd}), err \in BOOLEAN :
           <<e, err>> \in ipc.events => <<e, err>> \in ipc'.events
  PROVE  EdgeInv'
<1>1. WaitsWithNone'
  BY Zenon DEF WaitsWithNone, At
<1>2. fd # Listener
  BY NeighborsAssumption DEF Fd, Listener
<1> QED
  BY <1>1, <1>2, Zenon DEF EdgeInv, NoEdgeLost, Undefined, At, Open, Unread

(* The events are handed over: the ones before have been handled. *)
LEMMA WaitKeeps == EdgeInv /\ epoll_wait => EdgeInv'
<1> SUFFICES ASSUME EdgeInv, epoll_wait PROVE EdgeInv'
  BY Zenon
<1> DEFINE Err(fd) == fd # Listener /\ conn[fd].end = "reset"
           Events == {<<fd, Err(fd)>> : fd \in ready}
<1>1. Shape' /\ ipc'.events = Events /\ ipc'.pc \in {"hello", "events"}
  BY VisitKeeps, Zenon DEF epoll_wait
<1>2. \A fd \in ready : <<fd, Err(fd)>> \in Events /\ Err(fd) \in BOOLEAN
  BY Zenon
<1>3. ipc.events = {} /\ ~ Undefined
  BY Zenon DEF epoll_wait, EdgeInv, WaitsWithNone, At, Undefined
<1>4. conn' = conn /\ backlog' = backlog /\ deaf' = deaf
  BY Zenon DEF epoll_wait
<1>5. ASSUME NEW fd \in Fd, Unread(fd)
      PROVE  \E err \in BOOLEAN : <<fd, err>> \in ipc'.events
  <2>1. fd \in ready
    BY <1>3, <1>5, Zenon DEF EdgeInv, NoEdgeLost, Unread
  <2> QED
    BY <2>1, <1>1, <1>2, Zenon
<1>6. backlog # {} /\ ~ deaf => <<Listener, FALSE>> \in ipc'.events
  <2> SUFFICES ASSUME backlog # {}, ~ deaf PROVE <<Listener, FALSE>> \in Events
    BY <1>1, Zenon
  <2>1. Listener \in ready
    BY <1>3, Zenon DEF EdgeInv, NoEdgeLost
  <2>2. Err(Listener) = FALSE
    BY Zenon
  <2> QED
    BY <2>1, <2>2, <1>2, Zenon
<1>7. WaitsWithNone'
  BY <1>1, Zenon DEF WaitsWithNone, At
<1>8. NoEdgeLost'
  BY <1>4, <1>5, <1>6, Zenon DEF NoEdgeLost, Unread, Open
<1> QED
  BY <1>1, <1>4, <1>7, <1>8, Zenon DEF EdgeInv

(* One neighbor of hello_neighbors. *)
LEMMA HelloKeeps ==
  ASSUME EdgeInv, NEW p \in Peer,
         \/ hello_attempt(p) \/ hello_connect(p) \/ connected(p) \/ hello_sent(p)
  PROVE  EdgeInv'
<1>0. ~ Undefined /\ ~ At("wait") /\ ready' = ready /\ backlog' = backlog /\ deaf' = deaf
  BY Zenon DEF hello_attempt, hello_connect, connected, hello_sent, Undefined, At
<1>1. Shape' /\ ipc'.events = ipc.events /\ ipc'.pc # "wait"
  <2>1. CASE hello_connect(p)
    BY <2>1, Zenon DEF hello_connect, EdgeInv, Shape
  <2>2. CASE hello_attempt(p) \/ connected(p) \/ hello_sent(p)
    <3>1. Advance(p, nb')
      BY <2>2, Zenon DEF hello_attempt, connected, hello_sent
    <3> QED
      BY <3>1, VisitKeeps, Zenon DEF Advance
  <2> QED
    BY <2>1, <2>2, Zenon
<1>2. \/ conn' = conn
      \/ \E fd \in Fd : conn' = [conn EXCEPT ![fd] = NewSocket(p)]
  BY Zenon DEF hello_attempt, hello_connect, connected, hello_sent
<1> QED
  BY <1>0, <1>1, <1>2, OpensOnly, Zenon

(* A hello that fails closes its socket, also when it was reported.        *)
(* Without a socket there is no hello.                                     *)
LEMMA FailKeeps ==
  ASSUME EdgeInv, NEW p \in Peer, hello_fails(p), nb[p].sock \in {NoSocket} \cup Fd
  PROVE  EdgeInv'
<1>1. PICK fd \in Fd : fd = nb[p].sock
  BY Zenon DEF hello_fails, Greets
<1>0. /\ ~ Undefined /\ ~ At("wait") /\ backlog' = backlog /\ deaf' = deaf
      /\ close(fd) /\ Advance(p, nb')
  BY <1>1, Zenon DEF hello_fails, Undefined, At
<1>2. Shape' /\ ipc'.events = ipc.events /\ ipc'.pc # "wait"
  BY <1>0, VisitKeeps, Zenon DEF Advance
<1>3. /\ ready' = ready \ {fd}
      /\ conn' \in [Fd -> Socket \cup {Closed}]
      /\ conn'[fd] = Closed /\ \A e \in Fd \ {fd} : conn'[e] = conn[e]
  BY <1>0, Zenon DEF close, EdgeInv
<1>4. ~ Unread(fd)'
  BY <1>3, Zenon DEF Unread, Open
<1> QED
  BY <1>0, <1>2, <1>3, <1>4, QuietsOne, Zenon

(* The events of a round. *)
LEMMA EventsKeep ==
  ASSUME EdgeInv,
         \/ epoll_accepted \/ accept_fails \/ events_done
         \/ \E p \in Peer : epoll_accept(p)
         \/ \E fd \in Fd : epoll_error(fd) \/ epoll_data(fd)
  PROVE  EdgeInv'
<1>1. ASSUME NEW p \in Peer, epoll_accept(p) PROVE EdgeInv'
  <2>1. /\ ~ Undefined /\ ~ At("wait") /\ ready' = ready /\ backlog' \subseteq backlog
        /\ ipc' = ipc /\ deaf' = deaf
    BY <1>1, Zenon DEF epoll_accept, Undefined, At
  <2>2. Shape' /\ ipc'.events = ipc.events /\ ipc'.pc # "wait"
    BY <2>1, Zenon DEF EdgeInv, Shape, At
  <2>3. \/ conn' = conn
        \/ \E e \in Fd : conn' = [conn EXCEPT ![e] = NewSocket(p)]
    BY <1>1, Zenon DEF epoll_accept
  <2> QED
    BY <2>1, <2>2, <2>3, OpensOnly, Zenon
<1>2. CASE epoll_accepted \/ accept_fails
  <2>1. Shape' /\ ipc'.events = ipc.events \ {<<Listener, FALSE>>} /\ ipc'.pc = ipc.pc
    BY <1>2, Zenon DEF epoll_accepted, accept_fails, Handled, EdgeInv, Shape
  <2>2. /\ conn' = conn /\ ready' = ready /\ ~ At("wait") /\ ~ Undefined
        /\ backlog' = {} \/ deaf' \/ Listener \in ready'
        /\ deaf' \in BOOLEAN
    BY <1>2, Zenon DEF epoll_accepted, accept_fails, At, Undefined, EdgeInv
  <2>3. ASSUME NEW e \in Fd, NEW err \in BOOLEAN
        PROVE  <<e, err>> # <<Listener, FALSE>>
    <3>1. e # Listener
      BY NeighborsAssumption DEF Fd, Listener
    <3> QED
      BY <3>1, Zenon
  <2>4. NoEdgeLost'
    BY <2>1, <2>2, <2>3, Zenon DEF EdgeInv, NoEdgeLost, Undefined, At, Open
  <2> QED
    BY <2>1, <2>2, <2>4, Zenon DEF EdgeInv, WaitsWithNone, At
<1>3. ASSUME NEW fd \in Fd, epoll_error(fd) PROVE EdgeInv'
  <2>1. Shape' /\ ipc'.events = ipc.events \ {<<fd, TRUE>>} /\ ipc'.pc = ipc.pc
    BY <1>3, Zenon DEF epoll_error, Handled, EdgeInv, Shape
  <2>2. ~ At("wait") /\ ~ Undefined /\ backlog' = backlog /\ deaf' = deaf /\ close(fd)
    BY <1>3, Zenon DEF epoll_error, At, Undefined
  <2>3. /\ ready' = ready \ {fd}
        /\ conn' \in [Fd -> Socket \cup {Closed}]
        /\ conn'[fd] = Closed /\ \A e \in Fd \ {fd} : conn'[e] = conn[e]
    BY <2>2, Zenon DEF close, EdgeInv
  <2>4. ~ Unread(fd)' /\ fd # Listener
    BY <2>3, NeighborsAssumption DEF Unread, Open, Fd, Listener
  <2> QED
    BY <2>1, <2>2, <2>3, <2>4, QuietsOne, Zenon DEF At
<1>4. ASSUME NEW fd \in Fd, epoll_data(fd) PROVE EdgeInv'
  <2>1. Shape' /\ ipc'.events = ipc.events \ {<<fd, FALSE>>} /\ ipc'.pc = ipc.pc
    BY <1>4, Zenon DEF epoll_data, Handled, EdgeInv, Shape
  <2>2. ~ At("wait") /\ ~ Undefined /\ backlog' = backlog /\ deaf' = deaf /\ fd # Listener
    BY <1>4, Zenon DEF epoll_data, At, Undefined
  <2>3. /\ ready' = ready \ {fd}
        /\ conn' \in [Fd -> Socket \cup {Closed}]
        /\ \A e \in Fd \ {fd} : conn'[e] = conn[e]
        /\ ~ Unread(fd)'
    <3>1. CASE Open(fd) /\ conn[fd].end = "open"
      <4>1. conn' = [conn EXCEPT ![fd] = [conn[fd] EXCEPT !.in = <<>>]] /\ ready' = ready \ {fd}
        BY <1>4, <3>1, Zenon DEF epoll_data
      <4>2. conn[fd] \in Socket
        BY <3>1, Zenon DEF EdgeInv, Open
      <4>3. [conn[fd] EXCEPT !.in = <<>>] \in Socket
        <5>1. <<>> \in Seq(Message)
          OBVIOUS
        <5> QED
          BY <4>2, <5>1, Zenon DEF Socket
      <4>4. conn'[fd].in = <<>> /\ conn'[fd].end = "open"
        BY <3>1, <4>1, <4>2, Zenon DEF Socket, EdgeInv
      <4> QED
        BY <4>1, <4>3, <4>4, Zenon DEF EdgeInv, Unread
    <3>2. CASE ~ (Open(fd) /\ conn[fd].end = "open")
      BY <1>4, <3>2 DEF epoll_data, close, EdgeInv, Unread, Open
    <3> QED
      BY <3>1, <3>2, Zenon
  <2> QED
    BY <2>1, <2>2, <2>3, QuietsOne, Zenon DEF At
<1>5. CASE events_done
  <2>1. Shape' /\ ipc'.events = {} /\ ipc.events = {} /\ At("events")
    BY <1>5, Zenon DEF events_done, EdgeInv, Shape
  <2> QED
    BY <1>5, <2>1, Zenon DEF events_done, EdgeInv, NoEdgeLost, WaitsWithNone, Undefined, At, Open
<1> QED
  BY <1>1, <1>2, <1>3, <1>4, <1>5, Zenon

-----------------------------------------------------------------------------
(* The types, as far as the sockets of the neighbors need them *)

NbInv ==
  /\ nb \in [Peer -> Neighbor \cup {Absent}]
  /\ conn \in [Fd -> Socket \cup {Closed}]
  /\ lag \in Nat /\ buf \in Message \cup {Zeros}

(* One neighbor gets other values of its type. *)
LEMMA NeighborUpdates ==
  ASSUME NEW n \in Neighbor
  PROVE  /\ \A s \in {DOWN, ATTEMPT, UP} : [n EXCEPT !.state = s] \in Neighbor
         /\ \A f \in {NoSocket} \cup Fd : [n EXCEPT !.sock = f] \in Neighbor
         /\ \A i \in Peer : [n EXCEPT !.id = i] \in Neighbor
         /\ \A k \in Key : [n EXCEPT !.key = k] \in Neighbor
         /\ \A h \in Nat : [n EXCEPT !.hello = h] \in Neighbor
         /\ \A t \in Nat : [n EXCEPT !.timer = t] \in Neighbor
BY Zenon DEF Neighbor

(* Setting the state of the neighbor with a socket keeps the types. *)
LEMMA SetStateTyped ==
  ASSUME NbInv, NEW table \in [Peer -> Neighbor \cup {Absent}], NEW fd \in Fd,
         \A p \in Peer : table[p] = Absent => nb[p] = Absent
  PROVE  ipc_set_neighbor_state(table, fd, DOWN) \in [Peer -> Neighbor \cup {Absent}]
<1> DEFINE n == find_neighbor_by_socket(fd)
<1>1. CASE n = Nobody
  BY <1>1, Zenon DEF ipc_set_neighbor_state
<1>2. CASE n # Nobody
  <2>1. n \in Peer /\ table[n] \in Neighbor
    BY <1>2, Zenon DEF find_neighbor_by_socket, NbInv, Open, Listed, Socket
  <2>2. [[table[n] EXCEPT !.state = DOWN] EXCEPT !.timer = 0] \in Neighbor
    BY <2>1, NeighborUpdates, Zenon
  <2>3. ipc_set_neighbor_state(table, fd, DOWN)
          = [table EXCEPT ![n] = [[table[n] EXCEPT !.state = DOWN] EXCEPT !.timer = 0]]
    BY <1>2, Zenon DEF ipc_set_neighbor_state
  <2> QED
    BY <2>1, <2>2, <2>3, Zenon
<1> QED
  BY <1>1, <1>2, Zenon

(* The table when a hello is sent. *)
LEMMA GreetingTyped ==
  ASSUME NbInv, NEW p \in Peer, Listed(p), Greets(nb[p], lag)
  PROVE  /\ nb[p].sock \in Fd
         /\ Greeting(p) \in [Peer -> Neighbor \cup {Absent}]
         /\ Greeting(p)[p] \in Neighbor
<1> DEFINE table == [nb EXCEPT ![p] = [nb[p] EXCEPT !.hello = lag]]
<1>1. nb[p] \in Neighbor /\ nb[p].sock \in Fd
  BY Zenon DEF NbInv, Listed, Greets, Neighbor
<1>2. [nb[p] EXCEPT !.hello = lag] \in Neighbor
  BY <1>1, NeighborUpdates, Zenon DEF NbInv
<1>3. /\ table \in [Peer -> Neighbor \cup {Absent}] /\ table[p] \in Neighbor
      /\ \A q \in Peer : table[q] = Absent => nb[q] = Absent
  <2>1. Absent \notin Neighbor
    BY DEF Absent, Neighbor
  <2> QED
    BY <1>2, <2>1, Zenon DEF NbInv
<1>4. Greeting(p) \in {table, ipc_set_neighbor_state(table, nb[p].sock, DOWN)}
  BY Zenon DEF Greeting
<1>5. ipc_set_neighbor_state(table, nb[p].sock, DOWN)[p] \in Neighbor
  <2> DEFINE n == find_neighbor_by_socket(nb[p].sock)
  <2>1. CASE n = p /\ n # Nobody
    <3>1. ipc_set_neighbor_state(table, nb[p].sock, DOWN)
            = [table EXCEPT ![p] = [[table[p] EXCEPT !.state = DOWN] EXCEPT !.timer = 0]]
      BY <2>1, Zenon DEF ipc_set_neighbor_state
    <3> HIDE DEF table
    <3>2. [[table[p] EXCEPT !.state = DOWN] EXCEPT !.timer = 0] \in Neighbor
      BY <1>3, NeighborUpdates, Zenon
    <3> QED
      BY <1>3, <3>1, <3>2, Zenon
  <2>2. CASE n = Nobody
    BY <1>3, <2>2, Zenon DEF ipc_set_neighbor_state
  <2>3. CASE n # p /\ n # Nobody
    <3>1. ipc_set_neighbor_state(table, nb[p].sock, DOWN)
            = [table EXCEPT ![n] = [[table[n] EXCEPT !.state = DOWN] EXCEPT !.timer = 0]]
      BY <2>3, Zenon DEF ipc_set_neighbor_state
    <3> HIDE DEF table, n
    <3> QED
      BY <1>3, <2>3, <3>1, Zenon
  <2> QED
    BY <2>1, <2>2, <2>3, Zenon
<1> HIDE DEF table
<1>6. ipc_set_neighbor_state(table, nb[p].sock, DOWN) \in [Peer -> Neighbor \cup {Absent}]
  BY <1>1, <1>3, SetStateTyped, Zenon
<1> QED
  BY <1>1, <1>3, <1>4, <1>5, <1>6, Zenon

(* One neighbor of hello_neighbors. *)
LEMMA HelloTyped ==
  ASSUME NbInv, NEW p \in Peer,
         \/ hello_attempt(p) \/ hello_connect(p) \/ connected(p)
         \/ hello_sent(p) \/ hello_fails(p)
  PROVE  NbInv'
<1>0. lag' = lag /\ buf' = buf
  BY Zenon DEF hello_attempt, hello_connect, connected, hello_sent, hello_fails
<1>1. nb[p] \in Neighbor
  BY Zenon DEF NbInv, Listed, hello_attempt, hello_connect, connected, hello_sent, hello_fails
<1>2. CASE hello_attempt(p) \/ hello_connect(p)
  <2>1. [nb[p] EXCEPT !.hello = lag] \in Neighbor
    BY <1>1, NeighborUpdates, Zenon DEF NbInv
  <2>2. [[nb[p] EXCEPT !.hello = lag] EXCEPT !.state = ATTEMPT] \in Neighbor
    BY <2>1, NeighborUpdates, Zenon
  <2>3. /\ conn' = conn
        /\ \/ nb' = [nb EXCEPT ![p] = [nb[p] EXCEPT !.hello = lag]]
           \/ nb' = [nb EXCEPT ![p] = [[nb[p] EXCEPT !.hello = lag] EXCEPT !.state = ATTEMPT]]
    BY <1>2, Zenon DEF hello_attempt, hello_connect
  <2> QED
    BY <1>0, <2>1, <2>2, <2>3, Zenon DEF NbInv
<1>3. CASE connected(p)
  <2>1. CASE conn' = conn /\ nb' = nb
    BY <1>0, <2>1, Zenon DEF NbInv
  <2>2. CASE ~ (conn' = conn /\ nb' = nb)
    <3>0. PICK fd \in Fd : /\ conn' = [conn EXCEPT ![fd] = NewSocket(p)]
                           /\ nb' = [nb EXCEPT ![p].sock = fd, ![p].state = ATTEMPT]
      BY <1>3, <2>2, Zenon DEF connected
    <3>1. nb' = [nb EXCEPT ![p] = [[nb[p] EXCEPT !.sock = fd] EXCEPT !.state = ATTEMPT]]
      BY <3>0, Zenon DEF NbInv
    <3>2. [nb[p] EXCEPT !.sock = fd] \in Neighbor
      BY <1>1, NeighborUpdates, Zenon
    <3>3. [[nb[p] EXCEPT !.sock = fd] EXCEPT !.state = ATTEMPT] \in Neighbor
      BY <3>2, NeighborUpdates, Zenon
    <3> QED
      BY <1>0, <3>0, <3>1, <3>3, NewSocketQuiet DEF NbInv
  <2> QED
    BY <2>1, <2>2, Zenon
<1>4. CASE hello_sent(p)
  <2>1. nb' = Greeting(p) /\ conn' = conn /\ Listed(p) /\ Greets(nb[p], lag)
    BY <1>4, Zenon DEF hello_sent
  <2> QED
    BY <1>0, <2>1, GreetingTyped, Zenon DEF NbInv
<1>5. CASE hello_fails(p)
  <2> DEFINE n == [[Greeting(p)[p] EXCEPT !.state = DOWN] EXCEPT !.sock = NoSocket]
  <2>1. /\ nb' = [Greeting(p) EXCEPT ![p] = n]
        /\ Listed(p) /\ Greets(nb[p], lag) /\ close(nb[p].sock)
    BY <1>5, Zenon DEF hello_fails
  <2>2. /\ Greeting(p) \in [Peer -> Neighbor \cup {Absent}] /\ Greeting(p)[p] \in Neighbor
        /\ nb[p].sock \in Fd
    BY <2>1, GreetingTyped, Zenon
  <2>3. [Greeting(p)[p] EXCEPT !.state = DOWN] \in Neighbor
    BY <2>2, NeighborUpdates, Zenon
  <2>4. n \in Neighbor
    BY <2>3, NeighborUpdates, Zenon
  <2>5. conn' \in [Fd -> Socket \cup {Closed}]
    BY <2>1, <2>2, Zenon DEF close, NbInv
  <2> HIDE DEF n
  <2> QED
    BY <1>0, <2>1, <2>2, <2>4, <2>5, Zenon DEF NbInv
<1> QED
  BY <1>2, <1>3, <1>4, <1>5, Zenon

(* A message of its type, handled, leaves the types. *)
LEMMA HandlerTyped ==
  ASSUME NbInv, NEW fd \in Fd, NEW m \in Message \cup {Zeros}, NEW fresh \in BOOLEAN,
         ipc_handler(fd, m, fresh)
  PROVE  nb' \in [Peer -> Neighbor \cup {Absent}] /\ buf' \in Message \cup {Zeros}
<1> DEFINE p == find_neighbor_by_socket(fd)
<1>1. CASE m = Zeros \/ p = Nobody
  BY <1>1, Zenon DEF ipc_handler, NbInv
<1>2. CASE m # Zeros /\ p # Nobody
  <2>1. m \in Message /\ p \in Peer /\ nb[p] \in Neighbor
    BY <1>2, Zenon DEF find_neighbor_by_socket, NbInv, Open, Listed, Socket
  <2>2. buf' = Checked(p, m) /\ (nb' = nb \/ process_message(p, m))
    BY <1>2, Zenon DEF ipc_handler
  <2> HIDE DEF p
  <2>3. Checked(p, m) \in Message
    BY <2>1, Zenon DEF Checked, Message, Neighbor
  <2>4. ASSUME process_message(p, m) PROVE nb' \in [Peer -> Neighbor \cup {Absent}]
    <3> DEFINE n == [nb[p] EXCEPT !.id = m.id]
               q == IF m.type = "I_SEE_YOU"
                    THEN [nb[p] EXCEPT !.id = m.id, !.state = UP, !.timer = 0] ELSE n
    <3>1. n \in Neighbor
      BY <2>1, NeighborUpdates, Zenon DEF Message
    <3>2. q \in Neighbor
      <4>1. m.id \in Peer
        BY <2>1, Zenon DEF Message
      <4>2. [nb[p] EXCEPT !.id = m.id, !.state = UP, !.timer = 0] \in Neighbor
        BY <2>1, <4>1, Zenon DEF Neighbor
      <4> QED
        BY <3>1, <4>2, Zenon
    <3>3. nb' = [nb EXCEPT ![p] = q]
      BY <2>1, <2>4, Zenon DEF process_message, NbInv
    <3> HIDE DEF q
    <3> QED
      BY <2>1, <3>2, <3>3, Zenon DEF NbInv
  <2> QED
    BY <2>2, <2>3, <2>4, Zenon DEF NbInv
<1> QED
  BY <1>1, <1>2, Zenon

(* The events of a round. *)
LEMMA EventsTyped ==
  ASSUME NbInv,
         \/ epoll_wait \/ epoll_accepted \/ accept_fails \/ events_done
         \/ \E p \in Peer : epoll_accept(p)
         \/ \E fd \in Fd : epoll_error(fd) \/ epoll_data(fd)
  PROVE  NbInv'
<1>1. CASE epoll_wait \/ epoll_accepted \/ accept_fails \/ events_done
  BY <1>1 DEF epoll_wait, epoll_accepted, accept_fails, events_done, NbInv
<1>2. ASSUME NEW p \in Peer, epoll_accept(p) PROVE NbInv'
  <2>1. lag' = lag /\ buf' = buf
    BY <1>2, Zenon DEF epoll_accept
  <2>2. CASE ~ Listed(p)
    BY <1>2, <2>1, <2>2, Zenon DEF epoll_accept, NbInv
  <2>3. CASE Listed(p)
    <3>1. PICK e \in Fd : conn' = [conn EXCEPT ![e] = NewSocket(p)] /\ ipc_check_neighbor(p, e)
      BY <1>2, <2>3, Zenon DEF epoll_accept
    <3> DEFINE n == [nb[p] EXCEPT !.sock = e]
               o == [n EXCEPT !.state = ATTEMPT]
               q == [o EXCEPT !.timer = 0]
    <3>2. n \in Neighbor
      BY <2>3, NeighborUpdates, Zenon DEF NbInv, Listed
    <3>3. o \in Neighbor
      BY <3>2, NeighborUpdates, Zenon
    <3>4. q \in Neighbor
      BY <3>3, NeighborUpdates, Zenon
    <3>5. nb' = [nb EXCEPT ![p] = q]
      BY <3>1, Zenon DEF ipc_check_neighbor, NbInv
    <3> HIDE DEF q
    <3> QED
      BY <2>1, <3>1, <3>4, <3>5, NewSocketQuiet, Zenon DEF NbInv
  <2> QED
    BY <2>2, <2>3, Zenon
<1>3. ASSUME NEW fd \in Fd, epoll_error(fd) PROVE NbInv'
  BY <1>3, Zenon DEF epoll_error, close, NbInv
<1>4. ASSUME NEW fd \in Fd, epoll_data(fd) PROVE NbInv'
  <2>1. lag' = lag
    BY <1>4, Zenon DEF epoll_data
  <2>2. \E m \in Message \cup {Zeros}, fresh \in BOOLEAN : ipc_handler(fd, m, fresh)
    <3>1. CASE Open(fd) /\ conn[fd].in # <<>>
      <4>1. PICK i \in 1 .. Len(conn[fd].in) : ipc_handler(fd, conn[fd].in[i], TRUE)
        BY <1>4, <3>1, Zenon DEF epoll_data
      <4>2. conn[fd].in \in Seq(Message)
        BY <3>1, Zenon DEF NbInv, Open, Socket
      <4>3. conn[fd].in[i] \in Message
        BY <4>2
      <4> QED
        BY <4>1, <4>3, Zenon
    <3>2. CASE ~ (Open(fd) /\ conn[fd].in # <<>>)
      <4>1. ipc_handler(fd, buf, FALSE)
        BY <1>4, <3>2, Zenon DEF epoll_data
      <4> QED
        BY <4>1, Zenon DEF NbInv
    <3> QED
      BY <3>1, <3>2, Zenon
  <2>3. nb' \in [Peer -> Neighbor \cup {Absent}] /\ buf' \in Message \cup {Zeros}
    BY <2>2, HandlerTyped, Zenon
  <2>4. conn' \in [Fd -> Socket \cup {Closed}]
    <3>1. CASE Open(fd) /\ conn[fd].end = "open"
      <4>1. conn' = [conn EXCEPT ![fd] = [conn[fd] EXCEPT !.in = <<>>]]
        BY <1>4, <3>1, Zenon DEF epoll_data
      <4>2. conn[fd] \in Socket /\ <<>> \in Seq(Message)
        BY <3>1 DEF NbInv, Open
      <4>3. [conn[fd] EXCEPT !.in = <<>>] \in Socket
        BY <4>2, Zenon DEF Socket
      <4> QED
        BY <4>1, <4>3, Zenon DEF NbInv
    <3>2. CASE ~ (Open(fd) /\ conn[fd].end = "open")
      BY <1>4, <3>2, Zenon DEF epoll_data, close, NbInv
    <3> QED
      BY <3>1, <3>2, Zenon
  <2> QED
    BY <2>1, <2>3, <2>4, Zenon DEF NbInv
<1> QED
  BY <1>1, <1>2, <1>3, <1>4, Zenon

-----------------------------------------------------------------------------
(* The peers, the CLI and time *)

(* What a peer does is reported, and has its type. *)
LEMMA PeersKeep ==
  ASSUME EdgeInv, NbInv, NEW p, NEW fd, NEW end \in {"eof", "reset"},
         NEW type \in {"HERE_I_AM", "I_SEE_YOU"}, NEW k \in Key,
         \/ peer_connects(p)
         \/ fd \in Fd /\ (peer_sends(fd, type, k) \/ peer_closes(fd, end))
  PROVE  EdgeInv' /\ NbInv'
<1>1. nb' = nb /\ ipc' = ipc /\ buf' = buf /\ lag' = lag
  BY Zenon DEF peer_connects, peer_sends, peer_closes
<1>2. CASE peer_connects(p)
  <2>1. conn' = conn /\ ready' = ready \cup {Listener} /\ deaf' = FALSE
    BY <1>2, Zenon DEF peer_connects
  <2>2. NoEdgeLost'
    BY <1>1, <2>1, Zenon DEF EdgeInv, NoEdgeLost, Undefined, At, Open
  <2> QED
    BY <1>1, <2>1, <2>2, Zenon DEF EdgeInv, NbInv, Shape, WaitsWithNone, At
<1>3. CASE fd \in Fd /\ (peer_sends(fd, type, k) \/ peer_closes(fd, end))
  <2>1. PICK s \in Socket : conn' = [conn EXCEPT ![fd] = s]
    <3>1. conn[fd] \in Socket
      BY <1>3, Zenon DEF peer_sends, peer_closes, Open, NbInv
    <3>2. CASE peer_sends(fd, type, k)
      <4> DEFINE m == [type |-> type, id |-> conn[fd].peer, mac |-> k]
                 s == [conn[fd] EXCEPT !.in = Append(conn[fd].in, m)]
      <4>1. m \in Message
        BY <3>1, Zenon DEF Message, Socket
      <4> HIDE DEF m
      <4>2. Append(conn[fd].in, m) \in Seq(Message)
        BY <3>1, <4>1 DEF Socket
      <4>3. s \in Socket
        BY <3>1, <4>2, Zenon DEF Socket
      <4>4. conn' = [conn EXCEPT ![fd] = s]
        BY <3>2, Zenon DEF peer_sends, m
      <4> QED
        BY <4>3, <4>4, Zenon
    <3>3. CASE peer_closes(fd, end)
      <4> DEFINE t == [conn[fd] EXCEPT !.end = end]
                 in == IF end = "reset" THEN <<>> ELSE t.in
                 s == [t EXCEPT !.in = in]
      <4>1. t \in Socket
        BY <3>1, Zenon DEF Socket
      <4>2. in \in Seq(Message)
        <5>1. t.in \in Seq(Message) /\ <<>> \in Seq(Message)
          BY <4>1 DEF Socket
        <5> QED
          BY <5>1, Zenon
      <4>3. s \in Socket
        <5> HIDE DEF t, in
        <5> QED
          BY <4>1, <4>2, Zenon DEF Socket
      <4>4. conn' = [conn EXCEPT ![fd] = s]
        BY <3>1, <3>3, Zenon DEF peer_closes, Socket
      <4> QED
        BY <4>3, <4>4, Zenon
    <3> QED
      BY <1>3, <3>2, <3>3, Zenon
  <2>2. ready' = ready \cup {fd} /\ backlog' = backlog /\ deaf' = deaf
    BY <1>3, Zenon DEF peer_sends, peer_closes
  <2>3. conn' \in [Fd -> Socket \cup {Closed}] /\ \A e \in Fd \ {fd} : conn'[e] = conn[e]
    BY <2>1, Zenon DEF NbInv
  <2>4. NoEdgeLost'
    BY <1>1, <2>2, <2>3, Zenon DEF EdgeInv, NoEdgeLost, Undefined, At, Open
  <2> QED
    BY <1>1, <2>2, <2>3, <2>4, Zenon DEF EdgeInv, NbInv, Shape, WaitsWithNone, At
<1> QED
  BY <1>2, <1>3, Zenon

(* The CLI touches the list, not the sockets. *)
LEMMA CliKeeps ==
  ASSUME EdgeInv, NbInv, NEW p \in Peer, NEW k \in Key,
         add_update_neighbor(p, k) \/ del_neighbor(p)
  PROVE  EdgeInv' /\ NbInv'
<1>1. UNCHANGED <<conn, ready, backlog, deaf, buf, lag>>
  BY Zenon DEF add_update_neighbor, del_neighbor
<1>2. NbInv'
  <2>1. CASE add_update_neighbor(p, k)
    <3>1. CASE Listed(p)
      <4>1. [nb[p] EXCEPT !.key = k] \in Neighbor
        BY <3>1, NeighborUpdates, Zenon DEF NbInv, Listed
      <4> QED
        BY <1>1, <2>1, <3>1, <4>1, Zenon DEF add_update_neighbor, NbInv
    <3>2. CASE ~ Listed(p)
      <4>1. [state |-> DOWN, sock |-> NoSocket, id |-> Garbage, key |-> k, hello |-> 0, timer |-> 0]
              \in Neighbor
        BY Zenon DEF Neighbor
      <4> QED
        BY <1>1, <2>1, <3>2, <4>1, Zenon DEF add_update_neighbor, NbInv
    <3> QED
      BY <3>1, <3>2, Zenon
  <2>2. CASE del_neighbor(p)
    BY <1>1, <2>2, Zenon DEF del_neighbor, NbInv
  <2> QED
    BY <2>1, <2>2, Zenon
<1>3. \/ ipc' = ipc
      \/ ipc' = [pc |-> "undefined", cur |-> Nobody, events |-> {}]
      \/ At("hello") /\ Advance(p, nb)
  BY Zenon DEF add_update_neighbor, del_neighbor
<1>4. EdgeInv'
  <2>1. CASE ipc' = ipc
    BY <1>1, <2>1, Zenon DEF EdgeInv, Shape, WaitsWithNone, NoEdgeLost, Undefined, At, Open
  <2>2. CASE ipc' = [pc |-> "undefined", cur |-> Nobody, events |-> {}]
    BY <1>1, <2>2, Zenon DEF EdgeInv, Shape, WaitsWithNone, NoEdgeLost, Undefined, At
  <2>3. CASE At("hello") /\ Advance(p, nb)
    <3>1. Shape' /\ ipc'.events = ipc.events /\ ipc'.pc # "wait"
      BY <2>3, VisitKeeps, Zenon DEF Advance
    <3> QED
      BY <1>1, <2>3, <3>1, OpensOnly, Zenon DEF At, Undefined
  <2> QED
    BY <1>3, <2>1, <2>2, <2>3, Zenon
<1> QED
  BY <1>2, <1>4, Zenon

(* Time passing closes no socket and reports nothing. *)
LEMMA TickKeeps == EdgeInv /\ NbInv /\ tick => EdgeInv' /\ NbInv'
<1> SUFFICES ASSUME EdgeInv, NbInv, tick PROVE EdgeInv' /\ NbInv'
  BY Zenon
<1>0. UNCHANGED <<conn, ready, backlog, deaf, ipc, buf>>
  BY Zenon DEF tick
<1>1. lag' \in Nat
  <2>1. lag' = lag + 1 /\ lag \in Nat
    BY Zenon DEF tick, NbInv
  <2> QED
    BY <2>1
<1>2. EdgeInv'
  BY <1>0, Zenon DEF EdgeInv, Shape, WaitsWithNone, NoEdgeLost, Undefined, At, Open
<1>3. nb' \in [Peer -> Neighbor \cup {Absent}]
  <2> DEFINE h(p) == Older(nb[p].hello, Retry + ConnectTicks - 1)
             t(p) == IF nb[p].state = UP THEN Older(nb[p].timer, Dead + Hello + 2 * ConnectTicks)
                     ELSE nb[p].timer
             n(p) == [[nb[p] EXCEPT !.hello = h(p)] EXCEPT !.timer = t(p)]
  <2>1. ASSUME NEW p \in Peer, Listed(p) PROVE n(p) \in Neighbor
    <3>1. nb[p] \in Neighbor
      BY <2>1, Zenon DEF Listed, NbInv
    <3>2. h(p) \in Nat /\ t(p) \in Nat
      BY <3>1 DEF Neighbor, Older
    <3> HIDE DEF h, t
    <3>3. [nb[p] EXCEPT !.hello = h(p)] \in Neighbor
      BY <3>1, <3>2, NeighborUpdates, Zenon
    <3> QED
      BY <3>2, <3>3, NeighborUpdates, Zenon
  <2>2. nb' = [p \in Peer |-> IF ~ Listed(p) THEN Absent ELSE n(p)]
    <3>1. \A p \in Peer : [nb[p] EXCEPT !.hello = h(p)].timer = nb[p].timer
      OBVIOUS
    <3> QED
      BY <3>1, Zenon DEF tick
  <2> HIDE DEF n
  <2> QED
    BY <2>1, <2>2, Zenon
<1> QED
  BY <1>0, <1>1, <1>2, <1>3, Zenon DEF NbInv

-----------------------------------------------------------------------------

(* Every step keeps EdgeInv and the types of the neighbors. *)
LEMMA StepKeeps == EdgeInv /\ NbInv /\ [Next]_vars => EdgeInv' /\ NbInv'
<1> SUFFICES ASSUME EdgeInv, NbInv, [Next]_vars PROVE EdgeInv' /\ NbInv'
  BY Zenon
<1>1. CASE epoll_wait \/ events_done \/ epoll_accepted \/ accept_fails
  BY <1>1, WaitKeeps, EventsKeep, EventsTyped, Zenon
<1>2. ASSUME NEW p \in Peer,
             hello_attempt(p) \/ hello_connect(p) \/ connected(p) \/ hello_sent(p)
      PROVE  EdgeInv' /\ NbInv'
  BY <1>2, HelloKeeps, HelloTyped, Zenon
<1>3. ASSUME NEW p \in Peer, hello_fails(p) PROVE EdgeInv' /\ NbInv'
  <2>1. nb[p].sock \in {NoSocket} \cup Fd
    BY <1>3, GreetingTyped, Zenon DEF hello_fails
  <2> QED
    BY <1>3, <2>1, FailKeeps, HelloTyped, Zenon
<1>4. ASSUME NEW p \in Peer, epoll_accept(p) PROVE EdgeInv' /\ NbInv'
  BY <1>4, EventsKeep, EventsTyped, Zenon
<1>5. ASSUME NEW fd \in Fd, epoll_error(fd) \/ epoll_data(fd) PROVE EdgeInv' /\ NbInv'
  BY <1>5, EventsKeep, EventsTyped, Zenon
<1>6. ASSUME NEW p \in Peer, peer_connects(p) PROVE EdgeInv' /\ NbInv'
  BY <1>6, PeersKeep, NeighborsAssumption, Zenon
<1>7. ASSUME NEW fd \in Fd, NEW type \in {"HERE_I_AM", "I_SEE_YOU"}, NEW k \in Key,
             peer_sends(fd, type, k)
      PROVE  EdgeInv' /\ NbInv'
  BY <1>7, PeersKeep, Zenon
<1>8. ASSUME NEW fd \in Fd, NEW end \in {"eof", "reset"}, peer_closes(fd, end)
      PROVE  EdgeInv' /\ NbInv'
  BY <1>8, PeersKeep, NeighborsAssumption, Zenon
<1>9. ASSUME NEW p \in Peer, NEW k \in Key, add_update_neighbor(p, k) \/ del_neighbor(p)
      PROVE  EdgeInv' /\ NbInv'
  BY <1>9, CliKeeps, Zenon
<1>10. CASE tick
  BY <1>10, TickKeeps, Zenon
<1>11. CASE UNCHANGED vars
  BY <1>11, Zenon DEF vars, EdgeInv, NbInv, Shape, WaitsWithNone, NoEdgeLost, Undefined, At, Open
<1> QED
  <2>1. ASSUME NEW p \in Peer, del_neighbor(p) PROVE EdgeInv' /\ NbInv'
    BY <2>1, <1>9, NeighborsAssumption, Zenon
  <2> QED
    BY <1>1, <1>2, <1>3, <1>4, <1>5, <1>6, <1>7, <1>8, <1>9, <1>10, <1>11, <2>1, Zenon
       DEF Next, IpcStep

(* At first no socket is open and nothing waits. *)
LEMMA InitKeeps == Init => EdgeInv /\ NbInv
<1> SUFFICES ASSUME Init PROVE EdgeInv /\ NbInv
  BY Zenon
<1>1. Shape /\ WaitsWithNone /\ NbInv
  BY NeighborsAssumption DEF Init, NbInv, Shape, WaitsWithNone, At
<1>2. backlog = {} /\ (\A fd \in Fd : ~ Open(fd)) /\ deaf \in BOOLEAN
  BY Zenon DEF Init, Open
<1> QED
  BY <1>1, <1>2, Zenon DEF EdgeInv, NbInv, NoEdgeLost

(* Whatever the neighbors and the CLI do, and however many there are, what *)
(* has come on a socket or waits to be accepted is still to be reported or *)
(* handled: epoll_handler does not lose an edge, also when hello_neighbors *)
(* closes and opens sockets between the wait and the events.  Connections  *)
(* for which accept fails wait for the next one to come.                   *)
THEOREM EveryEdgeHandled == Spec => []NoEdgeLost
<1>1. Init => EdgeInv /\ NbInv
  BY InitKeeps, Zenon
<1>2. EdgeInv => NoEdgeLost
  BY Zenon DEF EdgeInv
<1> QED
  BY <1>1, <1>2, StepKeeps, PTL DEF Spec

-----------------------------------------------------------------------------
(* The list of neighbors, and how hello_neighbors goes along it *)

\* The list has every neighbor once.
ListInv ==
  /\ list \in Seq(Peer)
  /\ \A i, j \in 1 .. Len(list) : list[i] = list[j] => i = j
  /\ \A p \in Peer : Listed(p) <=> \E i \in 1 .. Len(list) : list[i] = p

\* Where the thread is, and what epoll has for it.
ThreadInv ==
  /\ backlog \subseteq Peer
  /\ ready \subseteq {Listener} \cup {fd \in Fd : Open(fd)}
  /\ ipc.pc \in {"wait", "hello", "connect", "events", "undefined"}
  /\ IF ipc.pc \in {"hello", "connect"} THEN ipc.cur \in Peer /\ Listed(ipc.cur) ELSE ipc.cur = Nobody
  /\ ipc.pc = "connect" => nb[ipc.cur].state = DOWN
  /\ ipc.events \subseteq ({Listener} \cup Fd) \X BOOLEAN
  /\ came \in 0 .. MaxPeer /\ cli \in 0 .. MaxCli
  /\ stale \subseteq Peer /\ reused \in BOOLEAN

\* A neighbor's socket, if open, is a connection to that neighbor.
Home ==
  \A p \in Peer :
    Listed(p) /\ nb[p].sock # NoSocket /\ Open(nb[p].sock) => conn[nb[p].sock].peer = p

\* What a peer has sent carries its ID.
OwnMessages ==
  \A fd \in Fd : Open(fd) => \A i \in 1 .. Len(conn[fd].in) : conn[fd].in[i].id = conn[fd].peer

\* hello_neighbors has come by p in this round.
Passed(p) == \E i, j \in 1 .. Len(list) : i < j /\ list[i] = p /\ list[j] = ipc.cur

Serves(p) == Listed(p) /\ nb[p].state = UP /\ nb[p].sock # NoSocket

\* How long ago the last answer of p came: after hello_neighbors has come by
\* it was no more than Dead at the beginning of the round.
Answered(p) == nb[p].timer <= Dead + lag
Due(p) == lag <= nb[p].hello /\ (nb[p].hello = lag => Answered(p))
AgeFits(p) ==
  /\ nb[p].hello = 0 => nb[p].timer <= Dead
  /\ At("wait") => nb[p].timer <= Dead + ConnectTicks + lag
  /\ ~ At("wait") => nb[p].timer <= Dead + Hello + ConnectTicks + lag
  /\ At("events") => Answered(p)
  /\ At("hello") \/ At("connect") => IF Passed(p) THEN Answered(p) ELSE Due(p)

Recent ==
  /\ lag <= IF At("wait") THEN Hello ELSE ConnectTicks
  /\ ~ reused => \A p \in Peer : Serves(p) => AgeFits(p)

(* Nothing listed is Absent, and nothing open is Closed. *)
LEMMA Fields ==
  /\ Absent \notin Neighbor /\ Closed \notin Socket
  /\ Hello = 1 /\ DOWN # UP /\ ATTEMPT # UP /\ DOWN < ATTEMPT /\ ATTEMPT < UP
<1>1. Absent \notin Neighbor
  BY DEF Absent, Neighbor
<1>2. Closed \notin Socket
  BY DEF Closed, Socket
<1> QED
  BY <1>1, <1>2 DEF Hello, DOWN, ATTEMPT, UP

(* Two lists in one. *)
LEMMA Joined ==
  ASSUME NEW S, NEW a \in Seq(S), NEW b \in Seq(S)
  PROVE  /\ a \o b \in Seq(S) /\ Len(a \o b) = Len(a) + Len(b)
         /\ \A j \in 1 .. Len(a) + Len(b) : (a \o b)[j] = IF j <= Len(a) THEN a[j] ELSE b[j - Len(a)]
<1>1. a \o b \in Seq(S)
  OBVIOUS
<1>2. Len(a \o b) = Len(a) + Len(b)
  OBVIOUS
<1>3. ASSUME NEW j \in 1 .. Len(a) + Len(b)
      PROVE  (a \o b)[j] = IF j <= Len(a) THEN a[j] ELSE b[j - Len(a)]
  OBVIOUS
<1> QED
  BY <1>1, <1>2, <1>3, Zenon

(* The part of a list behind its i-th item. *)
LEMMA Behind ==
  ASSUME NEW S, NEW s \in Seq(S), NEW i \in 0 .. Len(s)
  PROVE  /\ SubSeq(s, i + 1, Len(s)) \in Seq(S) /\ Len(SubSeq(s, i + 1, Len(s))) = Len(s) - i
         /\ \A j \in 1 .. Len(s) - i : SubSeq(s, i + 1, Len(s))[j] = s[i + j]
OBVIOUS

(* What comes after p in the list. *)
LEMMA AfterPlace ==
  ASSUME ListInv, NEW p \in Peer, Listed(p)
  PROVE  /\ Place(p) \in 1 .. Len(list) /\ list[Place(p)] = p
         /\ After(p) \in Seq(Peer) /\ Len(After(p)) = Len(list) - Place(p)
         /\ \A j \in 1 .. Len(list) - Place(p) : After(p)[j] = list[Place(p) + j]
<1>1. \E i \in 1 .. Len(list) : list[i] = p
  BY Zenon DEF ListInv
<1>2. Place(p) \in 1 .. Len(list) /\ list[Place(p)] = p
  BY <1>1, Zenon DEF Place
<1>3. Place(p) \in 0 .. Len(list) /\ list \in Seq(Peer)
  BY <1>2 DEF ListInv
<1> QED
  BY <1>2, <1>3, Behind, Zenon DEF After

(* del_neighbor leaves the others in their order. *)
LEMMA Unlisted ==
  ASSUME ListInv, NEW p \in Peer, Listed(p)
  PROVE  LET rest == SubSeq(list, 1, Place(p) - 1) \o After(p)
         IN  /\ rest \in Seq(Peer) /\ Len(rest) = Len(list) - 1
             /\ \A j \in 1 .. Len(list) - 1 :
                  rest[j] = IF j < Place(p) THEN list[j] ELSE list[j + 1]
<1> DEFINE k == Place(p)
           a == SubSeq(list, 1, k - 1)
           b == After(p)
<1>0. /\ k \in 1 .. Len(list) /\ list \in Seq(Peer) /\ Len(list) \in Nat
      /\ b \in Seq(Peer) /\ Len(b) = Len(list) - k
      /\ \A j \in 1 .. Len(list) - k : b[j] = list[k + j]
  BY AfterPlace DEF ListInv
<1> HIDE DEF k, b
<1>1. a \in Seq(Peer) /\ Len(a) = k - 1 /\ \A j \in 1 .. k - 1 : a[j] = list[j]
  BY <1>0
<1> HIDE DEF a
<1>2. /\ a \o b \in Seq(Peer) /\ Len(a \o b) = Len(a) + Len(b)
      /\ \A j \in 1 .. Len(a) + Len(b) : (a \o b)[j] = IF j <= Len(a) THEN a[j] ELSE b[j - Len(a)]
  BY <1>0, <1>1, Joined, Zenon
<1>3. Len(a) + Len(b) = Len(list) - 1
  BY <1>0, <1>1
<1>4. ASSUME NEW j \in 1 .. Len(list) - 1 PROVE (a \o b)[j] = IF j < k THEN list[j] ELSE list[j + 1]
  <2>1. (a \o b)[j] = IF j <= Len(a) THEN a[j] ELSE b[j - Len(a)]
    BY <1>2, <1>3, Zenon
  <2>2. CASE j < k
    BY <1>0, <1>1, <2>1, <2>2
  <2>3. CASE ~ j < k
    <3>1. j - (k - 1) \in 1 .. Len(list) - k /\ k + (j - (k - 1)) = j + 1 /\ ~ j <= k - 1
      BY <1>0, <2>3
    <3> QED
      BY <1>0, <1>1, <2>1, <2>3, <3>1, Zenon
  <2> QED
    BY <2>2, <2>3, Zenon
<1> QED
  BY <1>2, <1>3, <1>4, Zenon DEF k, a, b

\* Coming from the k-th of the neighbors L, hello_neighbors stops at the next
\* busy one or, without one, goes on to the events.
StopsIn(L, k, table, late, events) ==
  \/ /\ ipc' = [pc |-> "events", cur |-> Nobody, events |-> events]
     /\ \A j \in k + 1 .. Len(L) : ~ Busy(table[L[j]], late)
  \/ \E c \in k + 1 .. Len(L) :
       /\ ipc' = [pc |-> "hello", cur |-> L[c], events |-> events]
       /\ \A j \in k + 1 .. c - 1 : ~ Busy(table[L[j]], late)

(* Where Visit stops, going along a list from its k-th item. *)
LEMMA VisitStops ==
  ASSUME NEW L \in Seq(Peer), NEW k \in 0 .. Len(L), NEW rest, Len(rest) = Len(L) - k,
         \A j \in 1 .. Len(L) - k : rest[j] = L[k + j],
         NEW table, NEW late, NEW events, Visit(rest, table, late, events)
  PROVE  StopsIn(L, k, table, late, events)
<1> DEFINE B(i) == Busy(table[rest[i]], late)
<1>0. Len(L) \in Nat /\ \A j \in k + 1 .. Len(L) : j - k \in 1 .. Len(rest) /\ rest[j - k] = L[j]
  OBVIOUS
<1>1. CASE \E i \in 1 .. Len(rest) :
             /\ \A j \in 1 .. Len(rest) : B(j) => i <= j
             /\ ipc' = [pc |-> "hello", cur |-> rest[i], events |-> events]
  <2>1. PICK i \in 1 .. Len(rest) :
             /\ \A j \in 1 .. Len(rest) : B(j) => i <= j
             /\ ipc' = [pc |-> "hello", cur |-> rest[i], events |-> events]
    BY <1>1, Zenon
  <2>2. k + i \in k + 1 .. Len(L) /\ rest[i] = L[k + i]
    BY <1>0
  <2>3. ASSUME NEW j \in k + 1 .. k + i - 1 PROVE ~ Busy(table[L[j]], late)
    <3>0. j \in k + 1 .. Len(L) /\ ~ (i <= j - k)
      BY <2>2
    <3>1. j - k \in 1 .. Len(rest) /\ rest[j - k] = L[j] /\ ~ (i <= j - k)
      BY <1>0, <3>0, Zenon
    <3> QED
      BY <2>1, <3>1, Zenon
  <2> QED
    BY <2>1, <2>2, <2>3 DEF StopsIn
<1>2. CASE /\ \A j \in 1 .. Len(rest) : ~ B(j)
           /\ ipc' = [pc |-> "events", cur |-> Nobody, events |-> events]
  BY <1>0, <1>2, Zenon DEF StopsIn
<1> QED
  BY <1>1, <1>2, Zenon DEF Visit

-----------------------------------------------------------------------------
(* How long ago the neighbors have answered *)

\* The ages when hello_neighbors has come by the first k neighbors.
Ages(k) ==
  \A i \in 1 .. Len(list) : Serves(list[i]) =>
    /\ nb[list[i]].hello = 0 => nb[list[i]].timer <= Dead
    /\ nb[list[i]].timer <= Dead + Hello + ConnectTicks + lag
    /\ IF i <= k THEN Answered(list[i]) ELSE Due(list[i])

Stops(k, events) == StopsIn(list', k, nb', lag', events)

(* A neighbor that serves and gets no hello has got one in this tick. *)
LEMMA NotBusy ==
  ASSUME NEW n \in Neighbor, NEW late \in Nat, n.state = UP, n.sock # NoSocket,
         ~ Busy(n, late), late <= n.hello
  PROVE  n.hello = late
<1>1. n.hello \in Nat /\ n.state >= ATTEMPT
  BY DEF Neighbor, UP, ATTEMPT
<1>2. ~ n.hello >= 1 + late
  BY <1>1, Zenon DEF Busy, Greets, Hello
<1> QED
  BY <1>1, <1>2

(* Where hello_neighbors stops, the ages fit. *)
LEMMA StopsFit ==
  ASSUME ListInv', NbInv', lag' <= ConnectTicks, NEW k \in 0 .. Len(list'), NEW events,
         Stops(k, events), ~ reused' => Ages(k)'
  PROVE  Recent'
<1>0. lag' <= IF At("wait")' THEN Hello ELSE ConnectTicks
  BY DEF Stops, StopsIn, At
<1> SUFFICES ASSUME ~ reused', NEW p \in Peer, Serves(p)' PROVE AgeFits(p)'
  BY <1>0, Zenon DEF Recent
<1>1. PICK i \in 1 .. Len(list') : list'[i] = p
  BY Zenon DEF ListInv, Serves
<1>2. /\ nb'[p].hello = 0 => nb'[p].timer <= Dead
      /\ nb'[p].timer <= Dead + Hello + ConnectTicks + lag'
      /\ IF i <= k THEN Answered(p)' ELSE Due(p)'
  BY <1>1, Zenon DEF Ages
<1>3. ASSUME i > k, ~ Busy(nb'[p], lag') PROVE Answered(p)'
  <2>1. Due(p)'
    BY <1>1, <1>2, <1>3
  <2>2. nb'[p] \in Neighbor /\ lag' \in Nat /\ nb'[p].state = UP /\ nb'[p].sock # NoSocket
    BY Zenon DEF NbInv, Serves, Listed
  <2>3. nb'[p].hello = lag'
    BY <1>3, <2>1, <2>2, NotBusy, Zenon DEF Due
  <2> QED
    BY <2>1, <2>3, Zenon DEF Due
<1>4. Len(list') \in Nat /\ k \in Int /\ i \in Int
  BY DEF ListInv
<1>5. CASE /\ ipc' = [pc |-> "events", cur |-> Nobody, events |-> events]
           /\ \A j \in k + 1 .. Len(list') : ~ Busy(nb'[list'[j]], lag')
  <2>1. Answered(p)'
    <3>1. CASE i <= k
      BY <1>2, <3>1, Zenon
    <3>2. CASE i > k
      BY <1>1, <1>3, <1>4, <1>5, <3>2
    <3> QED
      BY <1>4, <3>1, <3>2
  <2> QED
    BY <1>2, <1>5, <2>1, Zenon DEF AgeFits, At
<1>6. ASSUME NEW c \in k + 1 .. Len(list'),
             ipc' = [pc |-> "hello", cur |-> list'[c], events |-> events],
             \A j \in k + 1 .. c - 1 : ~ Busy(nb'[list'[j]], lag')
      PROVE  AgeFits(p)'
  <2>0. c \in 1 .. Len(list') /\ ipc'.cur = list'[c] /\ ipc'.pc = "hello"
    BY <1>6
  <2>1. CASE i < c
    <3>1. Answered(p)'
      <4>1. CASE i <= k
        BY <1>2, <4>1, Zenon
      <4>2. CASE i > k
        BY <1>1, <1>3, <1>4, <1>6, <2>1, <4>2
      <4> QED
        BY <1>4, <4>1, <4>2
    <3>2. Passed(p)'
      BY <1>1, <2>0, <2>1, Zenon DEF Passed
    <3> QED
      BY <1>2, <2>0, <3>1, <3>2, Zenon DEF AgeFits, At
  <2>2. CASE ~ i < c
    <3>1. Due(p)'
      BY <1>2, <1>4, <1>6, <2>2
    <3>2. ~ Passed(p)'
      <4>1. ASSUME NEW a \in 1 .. Len(list'), NEW b \in 1 .. Len(list'),
                   a < b, list'[a] = p, list'[b] = ipc'.cur
            PROVE  FALSE
        <5>1. a = i /\ b = c
          BY <1>1, <2>0, <4>1 DEF ListInv
        <5> QED
          BY <2>2, <4>1, <5>1, Zenon
      <4> QED
        BY <4>1, Zenon DEF Passed
    <3> QED
      BY <1>2, <2>0, <3>1, <3>2, Zenon DEF AgeFits, At
  <2> QED
    BY <2>1, <2>2, Zenon
<1> QED
  BY <1>5, <1>6, Zenon DEF Stops, StopsIn

(* Where hello_neighbors is, by the list. *)
LEMMA AgesHere ==
  ASSUME ListInv, Recent, ~ reused, At("hello") \/ At("connect"), NEW p \in Peer, ipc.cur = p,
         Listed(p)
  PROVE  Ages(Place(p) - 1)
<1> DEFINE c == Place(p)
<1>0. c \in 1 .. Len(list) /\ list[c] = p /\ list \in Seq(Peer) /\ Len(list) \in Nat
  BY AfterPlace DEF ListInv
<1> HIDE DEF c
<1> SUFFICES ASSUME NEW i \in 1 .. Len(list), Serves(list[i])
             PROVE  /\ nb[list[i]].hello = 0 => nb[list[i]].timer <= Dead
                    /\ nb[list[i]].timer <= Dead + Hello + ConnectTicks + lag
                    /\ IF i <= c - 1 THEN Answered(list[i]) ELSE Due(list[i])
  BY Zenon DEF Ages, c
<1>1. list[i] \in Peer
  BY <1>0
<1>2. AgeFits(list[i])
  BY <1>1, Zenon DEF Recent
<1>3. Passed(list[i]) <=> i < c
  <2>1. ASSUME i < c PROVE Passed(list[i])
    BY <1>0, <2>1, Zenon DEF Passed
  <2>2. ASSUME Passed(list[i]) PROVE i < c
    <3>1. PICK a \in 1 .. Len(list), b \in 1 .. Len(list) : a < b /\ list[a] = list[i] /\ list[b] = ipc.cur
      BY <2>2, Zenon DEF Passed
    <3>2. a = i /\ b = c
      BY <1>0, <3>1 DEF ListInv
    <3> QED
      BY <3>1, <3>2, Zenon
  <2> QED
    BY <2>1, <2>2, Zenon
<1>4. i <= c - 1 <=> i < c
  BY <1>0
<1>5. ~ At("wait")
  BY Zenon DEF At
<1> QED
  BY <1>2, <1>3, <1>4, <1>5, Zenon DEF AgeFits

(* From there it goes on: the others are as they were, and this one has    *)
(* answered if it still serves.                                            *)
LEMMA AgesMove ==
  ASSUME ListInv, NbInv, NbInv', list' = list, lag' = lag, NEW c \in 1 .. Len(list), Ages(c - 1),
         \A q \in Peer : q # list[c] /\ Serves(q)'
           => Serves(q) /\ nb'[q].hello = nb[q].hello /\ nb'[q].timer = nb[q].timer,
         Serves(list[c])' => /\ nb'[list[c]].hello = 0 => nb'[list[c]].timer <= Dead
                             /\ nb'[list[c]].timer <= Dead + lag
  PROVE  Ages(c)'
<1> SUFFICES ASSUME NEW i \in 1 .. Len(list), Serves(list[i])'
             PROVE  /\ nb'[list[i]].hello = 0 => nb'[list[i]].timer <= Dead
                    /\ nb'[list[i]].timer <= Dead + Hello + ConnectTicks + lag
                    /\ IF i <= c THEN Answered(list[i])' ELSE Due(list[i])'
  BY Zenon DEF Ages
<1>0. list[i] \in Peer /\ Len(list) \in Nat /\ lag \in Nat /\ ConnectTicks \in Nat /\ Dead \in Nat
  BY NeighborsAssumption DEF ListInv, NbInv
<1>1. CASE i = c
  <2>1. nb'[list[i]] \in Neighbor
    BY <1>0, Zenon DEF Serves, Listed, NbInv
  <2>2. nb'[list[i]].timer \in Nat
    BY <2>1, Zenon DEF Neighbor
  <2> QED
    BY <1>0, <1>1, <2>2 DEF Answered, Hello
<1>2. CASE i # c
  <2>1. list[i] # list[c]
    BY <1>2, Zenon DEF ListInv
  <2>2. Serves(list[i]) /\ nb'[list[i]].hello = nb[list[i]].hello /\ nb'[list[i]].timer = nb[list[i]].timer
    BY <1>0, <2>1, Zenon
  <2>3. i <= c <=> i <= c - 1
    BY <1>2
  <2>4. Answered(list[i])' <=> Answered(list[i])
    BY <2>2, Zenon DEF Answered
  <2>5. Due(list[i])' <=> Due(list[i])
    BY <2>2, <2>4, Zenon DEF Due
  <2> QED
    BY <2>2, <2>3, <2>4, <2>5, Zenon DEF Ages
<1> QED
  BY <1>1, <1>2, Zenon

(* A step during which the thread stays where it is.  An answer that comes *)
(* is handled among the events.                                            *)
LEMMA AgesStay ==
  ASSUME Recent, NbInv, NbInv', list' = list, lag' = lag, ipc'.cur = ipc.cur,
         ipc'.pc = ipc.pc \/ (ipc.pc = "hello" /\ ipc'.pc = "connect"),
         ~ reused' => ~ reused,
         \A q \in Peer : Serves(q)'
           => \/ At("events") /\ nb'[q].timer = 0
              \/ Serves(q) /\ nb'[q].hello = nb[q].hello /\ nb'[q].timer = nb[q].timer
  PROVE  Recent'
<1>1. lag' <= IF At("wait")' THEN Hello ELSE ConnectTicks
  BY Zenon DEF Recent, At
<1> SUFFICES ASSUME ~ reused', NEW q \in Peer, Serves(q)' PROVE AgeFits(q)'
  BY <1>1, Zenon DEF Recent
<1>2. CASE At("events") /\ nb'[q].timer = 0
  <2>1. lag \in Nat /\ Dead \in Nat /\ ConnectTicks \in Nat
    BY NeighborsAssumption, Zenon DEF NbInv
  <2>2. 0 <= Dead /\ 0 <= Dead + lag /\ 0 <= Dead + 1 + ConnectTicks + lag
    BY <2>1
  <2>3. ipc'.pc = "events"
    BY <1>2, Zenon DEF At
  <2> QED
    BY <1>2, <2>2, <2>3, Zenon DEF AgeFits, Answered, Hello, At
<1>3. CASE Serves(q) /\ nb'[q].hello = nb[q].hello /\ nb'[q].timer = nb[q].timer
  <2>1. AgeFits(q)
    BY <1>3, Zenon DEF Recent
  <2>2. (Passed(q)' <=> Passed(q)) /\ (Answered(q)' <=> Answered(q)) /\ (Due(q)' <=> Due(q))
    BY <1>3 DEF Passed, Answered, Due
  <2> QED
    BY <1>3, <2>1, <2>2, Zenon DEF AgeFits, At
<1> QED
  BY <1>2, <1>3, Zenon

-----------------------------------------------------------------------------
(* What the steps do to the table and the sockets *)

\* The others keep what they have, apart from their state, and p its ID; nobody
\* comes UP.
Quiet(p) ==
  \A q \in Peer :
    /\ Listed(q)' <=> Listed(q)
    /\ Listed(q) => /\ nb'[q].id = nb[q].id
                    /\ nb'[q].state = UP => nb[q].state = UP
                    /\ q # p => nb'[q].sock = nb[q].sock
                    /\ q # p /\ nb'[q].state = UP
                         => nb'[q].hello = nb[q].hello /\ nb'[q].timer = nb[q].timer

(* The entry of p is written. *)
LEMMA EntrySet ==
  ASSUME NbInv, NEW p \in Peer, Listed(p), NEW n \in Neighbor, nb' = [nb EXCEPT ![p] = n],
         n.id = nb[p].id, n.state = UP => nb[p].state = UP
  PROVE  nb'[p] = n /\ Quiet(p)
<1>1. nb'[p] = n /\ \A q \in Peer \ {p} : nb'[q] = nb[q]
  BY Zenon DEF NbInv
<1> QED
  BY <1>1, Fields, Zenon DEF Quiet, Listed

(* The hello to p: a neighbor that has not answered for too long goes DOWN.*)
(* That is p, if its socket leads to it.                                   *)
LEMMA Greeted ==
  ASSUME NbInv, NEW p \in Peer, Listed(p), Greets(nb[p], lag)
  PROVE  /\ \A q \in Peer : Greeting(p)[q] = Absent <=> nb[q] = Absent
         /\ \A q \in Peer : Listed(q) =>
              /\ Greeting(p)[q].sock = nb[q].sock /\ Greeting(p)[q].id = nb[q].id
              /\ Greeting(p)[q].state = UP
                   => nb[q].state = UP /\ Greeting(p)[q].timer = nb[q].timer
              /\ q # p => Greeting(p)[q].hello = nb[q].hello
         /\ Greeting(p)[p].hello = lag
         /\ Overdue(p) /\ find_neighbor_by_socket(nb[p].sock) = p => Greeting(p)[p].state = DOWN
<1> DEFINE u == [nb[p] EXCEPT !.hello = lag]
           t == [nb EXCEPT ![p] = u]
           k == find_neighbor_by_socket(nb[p].sock)
           d == [[t[k] EXCEPT !.state = DOWN] EXCEPT !.timer = 0]
<1>1. nb[p] \in Neighbor /\ lag \in Nat /\ nb[p].sock \in Fd
  BY GreetingTyped, Zenon DEF NbInv, Listed
<1>2. /\ u \in Neighbor /\ u.hello = lag /\ u.state = nb[p].state /\ u.sock = nb[p].sock
      /\ u.id = nb[p].id /\ u.timer = nb[p].timer
  BY <1>1, Zenon DEF Neighbor
<1> HIDE DEF u
<1>3. /\ t \in [Peer -> Neighbor \cup {Absent}] /\ t[p] = u
      /\ \A q \in Peer \ {p} : t[q] = nb[q]
      /\ \A q \in Peer : t[q] = Absent <=> nb[q] = Absent
  BY <1>2, Fields, Zenon DEF NbInv, Listed
<1>4. t = [nb EXCEPT ![p].hello = lag]
  BY Zenon DEF u
<1> HIDE DEF t
<1>5. CASE ~ Overdue(p) \/ k = Nobody
  <2>1. Greeting(p) = t
    BY <1>4, <1>5, Zenon DEF Greeting, ipc_set_neighbor_state
  <2>2. k # p \/ ~ Overdue(p)
    BY <1>5, NeighborsAssumption, Zenon
  <2> QED
    BY <1>2, <1>3, <2>1, <2>2, Zenon
<1>6. CASE Overdue(p) /\ k # Nobody
  <2>1. k \in Peer /\ Listed(k)
    BY <1>1, <1>6, Zenon DEF find_neighbor_by_socket, NbInv, Open, Socket
  <2>2. Greeting(p) = [t EXCEPT ![k] = d]
    <3>1. Greeting(p) = ipc_set_neighbor_state(t, nb[p].sock, DOWN)
      BY <1>4, <1>6, Zenon DEF Greeting
    <3>2. ipc_set_neighbor_state(t, nb[p].sock, DOWN) = [t EXCEPT ![k] = d]
      BY <1>3, <1>6, <2>1, Zenon DEF ipc_set_neighbor_state
    <3> QED
      BY <3>1, <3>2, Zenon
  <2>3. t[k] \in Neighbor
    BY <1>3, <2>1, Zenon DEF Listed
  <2> HIDE DEF k
  <2>4. /\ d \in Neighbor /\ d.state = DOWN /\ d.sock = t[k].sock /\ d.id = t[k].id
        /\ d.hello = t[k].hello
    BY <2>3, Zenon DEF Neighbor
  <2> HIDE DEF d
  <2>5. Greeting(p)[k] = d /\ \A q \in Peer \ {k} : Greeting(p)[q] = t[q]
    BY <1>3, <2>1, <2>2
  <2>6. \A q \in Peer : Greeting(p)[q] = Absent <=> nb[q] = Absent
    BY <1>3, <2>1, <2>4, <2>5, Fields DEF Listed
  <2>7. Overdue(p) /\ k = p => Greeting(p)[p].state = DOWN
    BY <2>4, <2>5, Zenon
  <2>8. \A q \in Peer : Listed(q) =>
              /\ t[q].sock = nb[q].sock /\ t[q].id = nb[q].id /\ t[q].state = nb[q].state
              /\ t[q].timer = nb[q].timer
              /\ q # p => t[q].hello = nb[q].hello
    BY <1>2, <1>3
  <2>9. t[p].hello = lag
    BY <1>2, <1>3, Zenon
  <2>10. ASSUME NEW q \in Peer, Listed(q)
         PROVE  /\ Greeting(p)[q].sock = nb[q].sock /\ Greeting(p)[q].id = nb[q].id
                /\ Greeting(p)[q].state = UP
                     => nb[q].state = UP /\ Greeting(p)[q].timer = nb[q].timer
                /\ q # p => Greeting(p)[q].hello = nb[q].hello
    <3>1. CASE q = k
      BY <2>4, <2>5, <2>8, <2>10, <3>1, Fields, Zenon
    <3>2. CASE q # k
      BY <2>5, <2>8, <2>10, <3>2
    <3> QED
      BY <3>1, <3>2, Zenon
  <2>11. Greeting(p)[p].hello = lag
    BY <2>4, <2>5, <2>9, Zenon
  <2> QED
    BY <2>6, <2>7, <2>10, <2>11, Zenon DEF k
<1> QED
  BY <1>5, <1>6, Zenon

(* No socket is opened: those that lead home still do. *)
LEMMA HomeKept ==
  ASSUME NbInv', Home, NEW p, Quiet(p),
         p \in Peer /\ Listed(p) => nb'[p].sock \in {nb[p].sock, NoSocket},
         \A fd \in Fd : Open(fd)' => Open(fd) /\ conn'[fd].peer = conn[fd].peer
  PROVE  Home'
<1> SUFFICES ASSUME NEW q \in Peer, Listed(q)', nb'[q].sock # NoSocket, Open(nb[q].sock)'
             PROVE  conn'[nb'[q].sock].peer = q
  BY Zenon DEF Home
<1>1. nb'[q].sock \in Fd
  BY Zenon DEF NbInv, Listed, Neighbor
<1>2. Listed(q) /\ nb'[q].sock = nb[q].sock
  BY Zenon DEF Quiet
<1> QED
  BY <1>1, <1>2, Zenon DEF Home, Open

(* A socket to p is opened, under a number that no neighbor has. *)
LEMMA HomeNew ==
  ASSUME NbInv, NbInv', Home, NEW p \in Peer, Quiet(p), Listed(p), NEW fd \in Fd,
         conn' = [conn EXCEPT ![fd] = NewSocket(p)], nb'[p].sock = fd, ~ Dangling(fd)
  PROVE  Home'
<1> SUFFICES ASSUME NEW q \in Peer, Listed(q)', nb'[q].sock # NoSocket, Open(nb[q].sock)'
             PROVE  conn'[nb'[q].sock].peer = q
  BY Zenon DEF Home
<1>1. conn'[fd].peer = p /\ \A e \in Fd \ {fd} : conn'[e] = conn[e]
  BY Zenon DEF NbInv, NewSocket
<1>2. nb'[q].sock \in Fd
  BY Zenon DEF NbInv, Listed, Neighbor
<1>3. CASE q = p
  BY <1>1, <1>3, Zenon
<1>4. CASE q # p
  <2>1. Listed(q) /\ nb'[q].sock = nb[q].sock
    BY <1>4, Zenon DEF Quiet
  <2>2. nb[q].sock # fd
    BY <2>1, Zenon DEF Dangling
  <2> QED
    BY <1>1, <1>2, <2>1, <2>2 DEF Home, Open
<1> QED
  BY <1>3, <1>4, Zenon

(* Nothing is sent. *)
LEMMA OwnKept ==
  ASSUME OwnMessages,
         \A fd \in Fd : Open(fd)' =>
           \/ conn'[fd].in = <<>>
           \/ Open(fd) /\ conn'[fd].peer = conn[fd].peer /\ conn'[fd].in = conn[fd].in
  PROVE  OwnMessages'
<1> SUFFICES ASSUME NEW fd \in Fd, Open(fd)', NEW i \in 1 .. Len(conn'[fd].in)
             PROVE  conn'[fd].in[i].id = conn'[fd].peer
  BY Zenon DEF OwnMessages
<1>1. CASE conn'[fd].in = <<>>
  BY <1>1
<1>2. CASE Open(fd) /\ conn'[fd].peer = conn[fd].peer /\ conn'[fd].in = conn[fd].in
  BY <1>2, Zenon DEF OwnMessages
<1> QED
  BY <1>1, <1>2, Zenon

(* A new socket, and a closed one. *)
LEMMA OpenedOne ==
  ASSUME NbInv, NEW p \in Peer, NEW fd \in Fd, conn' = [conn EXCEPT ![fd] = NewSocket(p)]
  PROVE  /\ \A e \in Fd : Open(e) => Open(e)'
         /\ \A e \in Fd : Open(e)' =>
              \/ conn'[e].in = <<>>
              \/ Open(e) /\ conn'[e].peer = conn[e].peer /\ conn'[e].in = conn[e].in
<1>1. NewSocket(p).in = <<>> /\ NewSocket(p) # Closed
  BY Fields, NewSocketQuiet, Zenon
<1>2. conn'[fd] = NewSocket(p) /\ \A e \in Fd \ {fd} : conn'[e] = conn[e]
  BY Zenon DEF NbInv
<1> QED
  BY <1>1, <1>2, Zenon DEF Open

(* close ends one socket; the others keep their peers and what has come    *)
(* over them.                                                              *)
LEMMA ClosedOne ==
  ASSUME NbInv, NEW fd \in Fd, close(fd)
  PROVE  /\ \A e \in Fd \ {fd} : Open(e) => Open(e)'
         /\ \A e \in Fd : Open(e)' =>
              Open(e) /\ conn'[e].peer = conn[e].peer /\ conn'[e].in = conn[e].in
<1>1. conn'[fd] = Closed /\ \A e \in Fd \ {fd} : conn'[e] = conn[e]
  BY Zenon DEF close, NbInv
<1> QED
  BY <1>1, Zenon DEF Open

(* The list stays when nobody comes or goes. *)
LEMMA ListKept ==
  ASSUME ListInv, list' = list, \A q \in Peer : Listed(q)' <=> Listed(q)
  PROVE  ListInv'
BY Zenon DEF ListInv

(* And the IDs stay. *)
LEMMA IdsKept ==
  ASSUME IdIsItsOwn, NEW p, Quiet(p), stale' = stale
  PROVE  IdIsItsOwn'
BY Zenon DEF IdIsItsOwn, Quiet

-----------------------------------------------------------------------------
(* hello_neighbors *)

Rest ==
  /\ ListInv /\ ThreadInv /\ OwnMessages /\ IdIsItsOwn /\ Recent
  /\ ~ reused => Home

ReadyOpen == ready \subseteq {Listener} \cup {fd \in Fd : Open(fd)}

\* hello_neighbors is done with p: if p still serves, it has answered.
Moved(p) ==
  /\ Quiet(p) /\ OwnMessages' /\ ReadyOpen' /\ reused' \in BOOLEAN
  /\ ~ reused' => ~ reused /\ Home'
  /\ ~ reused' /\ Serves(p)' => /\ nb'[p].hello = 0 => nb'[p].timer <= Dead
                                /\ nb'[p].timer <= Dead + lag

(* The sockets stay as they are. *)
LEMMA SocketsKept ==
  ASSUME Rest, NbInv', NEW p, Quiet(p),
         p \in Peer /\ Listed(p) => nb'[p].sock \in {nb[p].sock, NoSocket},
         UNCHANGED <<conn, ready, reused>>
  PROVE  OwnMessages' /\ ReadyOpen' /\ reused' \in BOOLEAN /\ (~ reused' => ~ reused /\ Home')
<1>1. \A fd \in Fd : Open(fd)' => Open(fd) /\ conn'[fd].peer = conn[fd].peer
  BY Zenon DEF Open
<1>2. ~ reused' => ~ reused /\ Home'
  BY <1>1, HomeKept, Zenon DEF Rest
<1>3. OwnMessages'
  BY Zenon DEF OwnMessages, Open, Rest
<1> QED
  BY <1>2, <1>3, Zenon DEF ReadyOpen, Open, Rest, ThreadInv

(* One is opened for p, or closed. *)
LEMMA SocketOpened ==
  ASSUME Rest, NbInv, NbInv', NEW p \in Peer, Quiet(p), Listed(p), NEW fd \in Fd,
         conn' = [conn EXCEPT ![fd] = NewSocket(p)], nb'[p].sock = fd,
         reused' = (reused \/ Dangling(fd)), ready' = ready
  PROVE  OwnMessages' /\ ReadyOpen' /\ reused' \in BOOLEAN /\ (~ reused' => ~ reused /\ Home')
<1>1. ~ reused' => ~ reused /\ Home'
  BY HomeNew, Zenon DEF Rest
<1>2. /\ \A e \in Fd : Open(e) => Open(e)'
      /\ OwnMessages'
  BY OpenedOne, OwnKept, Zenon DEF Rest
<1>3. ReadyOpen'
  BY <1>2, Zenon DEF ReadyOpen, Rest, ThreadInv
<1>4. reused' \in BOOLEAN
  BY Zenon DEF Rest, ThreadInv
<1> QED
  BY <1>1, <1>2, <1>3, <1>4, Zenon

(* A step that closes one socket, and may take it from a neighbor that is  *)
(* quiet, leaves every other socket where it leads.                        *)
LEMMA SocketClosed ==
  ASSUME Rest, NbInv, NbInv', NEW p, Quiet(p), NEW fd \in Fd, close(fd),
         p \in Peer /\ Listed(p) => nb'[p].sock \in {nb[p].sock, NoSocket}, reused' = reused
  PROVE  OwnMessages' /\ ReadyOpen' /\ reused' \in BOOLEAN /\ (~ reused' => ~ reused /\ Home')
<1>1. /\ \A e \in Fd \ {fd} : Open(e) => Open(e)'
      /\ \A e \in Fd : Open(e)' =>
           Open(e) /\ conn'[e].peer = conn[e].peer /\ conn'[e].in = conn[e].in
  BY ClosedOne, Zenon
<1>2. OwnMessages'
  BY <1>1, OwnKept, Zenon DEF Rest
<1>3. ~ reused' => ~ reused /\ Home'
  BY <1>1, HomeKept, Zenon DEF Rest
<1>4. ready' = ready \ {fd} /\ ready \subseteq {Listener} \cup {e \in Fd : Open(e)}
  BY Zenon DEF close, Rest, ThreadInv
<1>5. ReadyOpen'
  BY <1>1, <1>4, Zenon DEF ReadyOpen
<1> QED
  BY <1>2, <1>3, <1>5, Zenon DEF Rest, ThreadInv

(* What a first attempt to connect, or a failed one, does to a neighbor. *)
LEMMA AttemptMoves ==
  ASSUME Rest, NbInv, NbInv', NEW p \in Peer, hello_attempt(p) \/ hello_connect(p)
  PROVE  Moved(p) /\ nb'[p].state # UP /\ (hello_connect(p) => nb'[p].state = DOWN)
<1> DEFINE u == [nb[p] EXCEPT !.hello = lag]
           v == [u EXCEPT !.state = ATTEMPT]
<1>1. /\ nb[p] \in Neighbor /\ lag \in Nat /\ nb[p].state = DOWN
      /\ UNCHANGED <<conn, ready, reused>> /\ Listed(p)
  BY Zenon DEF hello_attempt, hello_connect, NbInv, Listed, Retries
<1>2. /\ u \in Neighbor /\ u.id = nb[p].id /\ u.state = DOWN /\ u.sock = nb[p].sock
      /\ v \in Neighbor /\ v.id = nb[p].id /\ v.state = ATTEMPT /\ v.sock = nb[p].sock
  BY <1>1, Zenon DEF Neighbor
<1>3. (hello_attempt(p) /\ nb' = [nb EXCEPT ![p] = v]) \/ (hello_connect(p) /\ nb' = [nb EXCEPT ![p] = u])
  BY <1>1, Zenon DEF hello_attempt, hello_connect, NbInv
<1>4. hello_connect(p) => nb' = [nb EXCEPT ![p] = u]
  BY <1>1 DEF hello_connect, NbInv
<1> HIDE DEF u, v
<1>5. /\ Quiet(p) /\ nb'[p].state # UP /\ nb'[p].sock = nb[p].sock
      /\ hello_connect(p) => nb'[p].state = DOWN
  <2>1. CASE nb' = [nb EXCEPT ![p] = v]
    <3>1. nb'[p] = v /\ Quiet(p)
      BY <1>1, <1>2, <2>1, EntrySet, Fields, Zenon
    <3>2. hello_connect(p) => nb'[p] = u
      BY <1>4, Zenon DEF NbInv
    <3> QED
      BY <1>2, <3>1, <3>2, Fields
  <2>2. CASE nb' = [nb EXCEPT ![p] = u]
    <3>1. nb'[p] = u /\ Quiet(p)
      BY <1>1, <1>2, <2>2, EntrySet, Fields
    <3> QED
      BY <1>2, <3>1, Fields, Zenon
  <2> QED
    BY <1>3, <2>1, <2>2
<1>6. OwnMessages' /\ ReadyOpen' /\ reused' \in BOOLEAN /\ (~ reused' => ~ reused /\ Home')
  BY <1>1, <1>5, SocketsKept, Zenon
<1> QED
  BY <1>5, <1>6, Zenon DEF Moved, Serves

(* What a connect that succeeds does: the new socket is this neighbor's    *)
(* alone.                                                                  *)
LEMMA ConnectedMoves ==
  ASSUME Rest, NbInv, NbInv', NEW p \in Peer, connected(p)
  PROVE  Moved(p)
<1>1. nb[p] \in Neighbor /\ nb[p].state = DOWN /\ ready' = ready /\ Listed(p)
  BY Zenon DEF connected, NbInv, Listed, Rest, ThreadInv, At
<1>2. CASE UNCHANGED <<conn, reused, nb>>
  <2>1. Quiet(p)
    BY <1>2, Zenon DEF Quiet, Listed
  <2>2. OwnMessages' /\ ReadyOpen' /\ reused' \in BOOLEAN /\ (~ reused' => ~ reused /\ Home')
    BY <1>1, <1>2, <2>1, SocketsKept, Zenon
  <2> QED
    BY <1>1, <1>2, <2>1, <2>2, Fields, Zenon DEF Moved, Serves
<1>3. ASSUME NEW fd \in Fd, conn' = [conn EXCEPT ![fd] = NewSocket(p)],
             reused' = (reused \/ Dangling(fd)),
             nb' = [nb EXCEPT ![p].sock = fd, ![p].state = ATTEMPT]
      PROVE  Moved(p)
  <2> DEFINE v == [[nb[p] EXCEPT !.sock = fd] EXCEPT !.state = ATTEMPT]
  <2>1. v \in Neighbor /\ v.id = nb[p].id /\ v.state = ATTEMPT /\ v.sock = fd
    BY <1>1, Zenon DEF Neighbor
  <2>2. nb' = [nb EXCEPT ![p] = v]
    BY <1>3, Zenon DEF NbInv
  <2> HIDE DEF v
  <2>3. nb'[p] = v /\ Quiet(p)
    BY <1>1, <2>1, <2>2, EntrySet, Fields, Zenon
  <2>4. OwnMessages' /\ ReadyOpen' /\ reused' \in BOOLEAN /\ (~ reused' => ~ reused /\ Home')
    BY <1>1, <1>3, <2>1, <2>3, SocketOpened
  <2> QED
    BY <2>1, <2>3, <2>4, Fields, Zenon DEF Moved, Serves
<1> QED
  BY <1>2, <1>3, Zenon DEF connected

(* A hello that is sent: p has answered, or its socket leads to p, which   *)
(* goes DOWN.                                                              *)
LEMMA SentMoves ==
  ASSUME Rest, NbInv, NbInv', NEW p \in Peer, hello_sent(p)
  PROVE  Moved(p)
<1> DEFINE fd == nb[p].sock
<1>1. /\ Listed(p) /\ Greets(nb[p], lag) /\ nb' = Greeting(p) /\ UNCHANGED <<conn, ready, reused>>
      /\ Open(fd) /\ conn[fd].end # "reset" /\ fd # NoSocket
  BY Zenon DEF hello_sent, Greets
<1>2. /\ \A q \in Peer : nb'[q] = Absent <=> nb[q] = Absent
      /\ \A q \in Peer : Listed(q) =>
           /\ nb'[q].sock = nb[q].sock /\ nb'[q].id = nb[q].id
           /\ nb'[q].state = UP => nb[q].state = UP /\ nb'[q].timer = nb[q].timer
           /\ q # p => nb'[q].hello = nb[q].hello
      /\ nb'[p].hello = lag
      /\ Overdue(p) /\ find_neighbor_by_socket(fd) = p => nb'[p].state = DOWN
  BY <1>1, Greeted
<1>3. Quiet(p) /\ nb'[p].sock = fd
  BY <1>1, <1>2, Zenon DEF Quiet, Listed
<1>4. OwnMessages' /\ ReadyOpen' /\ reused' \in BOOLEAN /\ (~ reused' => ~ reused /\ Home')
  BY <1>1, <1>3, SocketsKept, Zenon
<1>5. ASSUME ~ reused', Serves(p)'
      PROVE  /\ nb'[p].hello = 0 => nb'[p].timer <= Dead
             /\ nb'[p].timer <= Dead + lag
  <2>1. find_neighbor_by_socket(fd) = p
    BY <1>1, <1>5, Zenon DEF find_neighbor_by_socket, Rest, Home
  <2>2. nb'[p].state = UP
    BY <1>5, Zenon DEF Serves
  <2>3. ~ Overdue(p) /\ nb[p].state = UP /\ nb'[p].timer = nb[p].timer
    BY <1>1, <1>2, <2>1, <2>2, Fields, Zenon
  <2>4. nb[p] \in Neighbor
    BY <1>1, Zenon DEF NbInv, Listed
  <2>5. nb[p].timer \in Nat /\ lag \in Nat /\ Dead \in Nat
    BY <2>4, NeighborsAssumption, Zenon DEF Neighbor, NbInv
  <2>6. ~ nb[p].timer > Dead + lag
    BY <2>3, Zenon DEF Overdue
  <2> QED
    BY <1>2, <2>3, <2>5, <2>6
<1> QED
  BY <1>3, <1>4, <1>5, Zenon DEF Moved

(* What a failed hello does: the socket is closed and forgotten. *)
LEMMA FailMoves ==
  ASSUME Rest, NbInv, NbInv', NEW p \in Peer, hello_fails(p)
  PROVE  Moved(p)
<1> DEFINE fd == nb[p].sock
           g == Greeting(p)
           v == [[g[p] EXCEPT !.state = DOWN] EXCEPT !.sock = NoSocket]
<1>1. Listed(p) /\ Greets(nb[p], lag) /\ close(fd) /\ reused' = reused
  BY Zenon DEF hello_fails
<1>2. fd \in Fd /\ g \in [Peer -> Neighbor \cup {Absent}] /\ g[p] \in Neighbor
  BY <1>1, GreetingTyped, Zenon
<1>3. /\ \A q \in Peer : g[q] = Absent <=> nb[q] = Absent
      /\ \A q \in Peer : Listed(q) =>
           /\ g[q].sock = nb[q].sock /\ g[q].id = nb[q].id
           /\ g[q].state = UP => nb[q].state = UP /\ g[q].timer = nb[q].timer
           /\ q # p => g[q].hello = nb[q].hello
  BY <1>1, Greeted, Zenon
<1>4. nb' = [g EXCEPT ![p].state = DOWN, ![p].sock = NoSocket]
  BY Zenon DEF hello_fails
<1> HIDE DEF g, fd
<1>5. v \in Neighbor /\ v.state = DOWN /\ v.sock = NoSocket /\ v.id = g[p].id
  BY <1>2, Zenon DEF Neighbor
<1>6. nb' = [g EXCEPT ![p] = v]
  BY <1>2, <1>4, Zenon
<1> HIDE DEF v
<1>7. nb'[p] = v /\ \A q \in Peer \ {p} : nb'[q] = g[q]
  BY <1>2, <1>6, Zenon
<1>8. Quiet(p)
  <2> SUFFICES ASSUME NEW q \in Peer
               PROVE  /\ Listed(q)' <=> Listed(q)
                      /\ Listed(q) => /\ nb'[q].id = nb[q].id
                                      /\ nb'[q].state = UP => nb[q].state = UP
                                      /\ q # p => nb'[q].sock = nb[q].sock
                                      /\ q # p /\ nb'[q].state = UP
                                           => nb'[q].hello = nb[q].hello /\ nb'[q].timer = nb[q].timer
    BY Zenon DEF Quiet
  <2>1. CASE q = p
    BY <1>1, <1>3, <1>5, <1>7, <2>1, Fields DEF Listed
  <2>2. CASE q # p
    BY <1>3, <1>7, <2>2 DEF Listed
  <2> QED
    BY <2>1, <2>2, Zenon
<1>9. nb'[p].sock = NoSocket
  BY <1>5, <1>7, Zenon
<1>10. OwnMessages' /\ ReadyOpen' /\ reused' \in BOOLEAN /\ (~ reused' => ~ reused /\ Home')
  BY <1>1, <1>2, <1>8, <1>9, SocketClosed, Zenon
<1> QED
  BY <1>8, <1>9, <1>10, Zenon DEF Moved, Serves

(* Where Advance goes. *)
LEMMA AdvanceStops ==
  ASSUME ListInv, NEW p \in Peer, Listed(p), list' = list, lag' = lag, Advance(p, nb')
  PROVE  Place(p) \in 1 .. Len(list) /\ list[Place(p)] = p /\ Stops(Place(p), ipc.events)
<1>1. /\ Place(p) \in 1 .. Len(list) /\ list[Place(p)] = p
      /\ Len(After(p)) = Len(list) - Place(p)
      /\ \A j \in 1 .. Len(list) - Place(p) : After(p)[j] = list[Place(p) + j]
  BY AfterPlace, Zenon
<1>2. Place(p) \in 0 .. Len(list) /\ list \in Seq(Peer)
  BY <1>1 DEF ListInv
<1>3. Visit(After(p), nb', lag, ipc.events)
  BY Zenon DEF Advance
<1>4. StopsIn(list, Place(p), nb', lag, ipc.events)
  BY <1>1, <1>2, <1>3, VisitStops, Zenon
<1> QED
  BY <1>1, <1>4, Zenon DEF Stops

(* Where Stops takes the thread: to a listed neighbor, or to the events. *)
LEMMA StopsThread ==
  ASSUME ListInv', NEW k \in 0 .. Len(list'), NEW events, Stops(k, events)
  PROVE  /\ ipc'.pc \in {"hello", "events"} /\ ipc'.events = events
         /\ IF ipc'.pc = "hello" THEN ipc'.cur \in Peer /\ Listed(ipc.cur)' ELSE ipc'.cur = Nobody
<1>1. CASE ipc' = [pc |-> "events", cur |-> Nobody, events |-> events]
  BY <1>1, Zenon
<1>2. ASSUME NEW c \in k + 1 .. Len(list'), ipc' = [pc |-> "hello", cur |-> list'[c], events |-> events]
      PROVE  /\ ipc'.pc = "hello" /\ ipc'.events = events
             /\ ipc'.cur \in Peer /\ Listed(ipc.cur)'
  <2>1. c \in 1 .. Len(list') /\ list' \in Seq(Peer)
    BY DEF ListInv
  <2>2. ipc'.pc = "hello" /\ ipc'.events = events /\ ipc'.cur = list'[c]
    BY <1>2, Zenon
  <2>3. list'[c] \in Peer
    BY <2>1
  <2>4. nb'[list'[c]] # Absent
    BY <2>1, <2>3, Zenon DEF ListInv, Listed
  <2> QED
    BY <2>2, <2>3, <2>4, Zenon DEF Listed
<1> QED
  BY <1>1, <1>2, Zenon DEF Stops, StopsIn

(* One neighbor of hello_neighbors. *)
LEMMA HelloRest ==
  ASSUME EdgeInv, NbInv, NbInv', Rest, NEW p \in Peer,
         \/ hello_attempt(p) \/ hello_connect(p) \/ connected(p)
         \/ hello_sent(p) \/ hello_fails(p)
  PROVE  Rest'
<1>1. /\ Listed(p) /\ ipc.cur = p /\ (At("hello") \/ At("connect"))
      /\ UNCHANGED <<list, lag, backlog, came, cli, stale>>
  BY Zenon DEF hello_attempt, hello_connect, connected, hello_sent, hello_fails
<1>2. Moved(p)
  BY AttemptMoves, ConnectedMoves, SentMoves, FailMoves, Zenon
<1>3. Quiet(p) /\ OwnMessages' /\ ReadyOpen' /\ reused' \in BOOLEAN /\ (~ reused' => ~ reused /\ Home')
  BY <1>2, Zenon DEF Moved
<1>4. ListInv' /\ IdIsItsOwn'
  BY <1>1, <1>3, ListKept, IdsKept DEF Rest, Quiet
<1>5. lag <= ConnectTicks
  BY <1>1, Zenon DEF Rest, Recent, At
<1>6. ASSUME ~ hello_connect(p) PROVE Recent' /\ ThreadInv'
  <2>1. Advance(p, nb')
    BY <1>6, Zenon DEF hello_attempt, connected, hello_sent, hello_fails
  <2>2. PICK c \in 1 .. Len(list) : c = Place(p) /\ list[c] = p /\ Stops(c, ipc.events)
    BY <1>1, <2>1, AdvanceStops, Zenon DEF Rest
  <2>3. c \in 0 .. Len(list')
    BY <1>1
  <2>4. ASSUME ~ reused' PROVE Ages(c)'
    <3>1. Ages(c - 1)
      BY <1>1, <1>3, <2>2, <2>4, AgesHere, Zenon DEF Rest
    <3>2. \A q \in Peer : q # list[c] /\ Serves(q)'
            => Serves(q) /\ nb'[q].hello = nb[q].hello /\ nb'[q].timer = nb[q].timer
      BY <1>3, <2>2, Zenon DEF Quiet, Serves
    <3>3. Serves(p)' => /\ nb'[p].hello = 0 => nb'[p].timer <= Dead
                        /\ nb'[p].timer <= Dead + lag
      BY <1>2, <2>4, Zenon DEF Moved
    <3> QED
      BY <1>1, <2>2, <3>1, <3>2, <3>3, AgesMove, Zenon DEF Rest
  <2>5. Recent'
    BY <1>1, <1>4, <1>5, <2>2, <2>3, <2>4, StopsFit, Zenon
  <2>6. /\ ipc'.pc \in {"hello", "events"} /\ ipc'.events = ipc.events
        /\ IF ipc'.pc = "hello" THEN ipc'.cur \in Peer /\ Listed(ipc.cur)' ELSE ipc'.cur = Nobody
    BY <1>4, <2>2, <2>3, StopsThread, Zenon
  <2> QED
    BY <1>1, <1>3, <2>5, <2>6, Zenon DEF ThreadInv, Rest, ReadyOpen
<1>7. CASE hello_connect(p)
  <2>1. ipc'.pc = "connect" /\ ipc'.cur = p /\ ipc'.events = ipc.events /\ ipc.pc = "hello"
    BY <1>7, Zenon DEF hello_connect, EdgeInv, Shape, At
  <2>2. nb'[p].state = DOWN /\ reused' = reused
    BY <1>7, AttemptMoves, Zenon DEF hello_connect
  <2>3. \A q \in Peer : Serves(q)'
          => Serves(q) /\ nb'[q].hello = nb[q].hello /\ nb'[q].timer = nb[q].timer
    BY <1>3, <2>2, Fields, Zenon DEF Quiet, Serves
  <2>4. Recent'
    BY <1>1, <2>1, <2>2, <2>3, AgesStay, Zenon DEF Rest
  <2>5. Listed(p)'
    BY <1>1, <1>3, Zenon DEF Quiet
  <2>6. ThreadInv'
    BY <1>1, <1>3, <2>1, <2>2, <2>5, Zenon DEF ThreadInv, Rest, ReadyOpen, Listed
  <2> QED
    BY <1>3, <1>4, <2>4, <2>6, Zenon DEF Rest
<1> QED
  BY <1>3, <1>4, <1>6, <1>7, Zenon DEF Rest

-----------------------------------------------------------------------------
(* The wait and the events *)

(* hello_neighbors begins: nobody has been passed. *)
LEMMA WaitRest ==
  ASSUME EdgeInv, NbInv, NbInv', Rest, epoll_wait
  PROVE  Rest'
<1> DEFINE Err(fd) == fd # Listener /\ conn[fd].end = "reset"
           events == {<<fd, Err(fd)>> : fd \in ready}
<1>1. /\ At("wait") /\ Visit(list, nb, 0, events) /\ ready' = {} /\ lag' = 0
      /\ UNCHANGED <<list, nb, conn, backlog, buf, came, cli, stale, reused>>
  BY Zenon DEF epoll_wait
<1>2. ListInv' /\ IdIsItsOwn' /\ OwnMessages' /\ (~ reused' => Home')
  BY <1>1 DEF Rest, ListInv, Listed, IdIsItsOwn, OwnMessages, Home, Open
<1>3. events \subseteq ({Listener} \cup Fd) \X BOOLEAN
  <2>1. ready \subseteq {Listener} \cup Fd
    BY Zenon DEF Rest, ThreadInv
  <2>2. \A fd \in ready : Err(fd) \in BOOLEAN
    BY Zenon
  <2> HIDE DEF Err
  <2> QED
    BY <2>1, <2>2
<1> HIDE DEF events
<1>4. list \in Seq(Peer) /\ Len(list) \in Nat /\ 0 \in 0 .. Len(list) /\ Len(list) = Len(list) - 0
      /\ \A j \in 1 .. Len(list) - 0 : list[j] = list[0 + j]
  BY DEF Rest, ListInv
<1>5. StopsIn(list, 0, nb, 0, events)
  BY <1>1, <1>4, VisitStops, Zenon
<1>6. Stops(0, events) /\ 0 \in 0 .. Len(list')
  BY <1>1, <1>4, <1>5, Zenon DEF Stops
<1>7. ASSUME ~ reused' PROVE Ages(0)'
  <2> SUFFICES ASSUME NEW i \in 1 .. Len(list), Serves(list[i])'
               PROVE  /\ nb[list[i]].hello = 0 => nb[list[i]].timer <= Dead
                      /\ nb[list[i]].timer <= Dead + Hello + ConnectTicks + 0
                      /\ Due(list[i])'
    BY <1>1 DEF Ages
  <2>1. list[i] \in Peer /\ Serves(list[i])
    BY <1>1, <1>4 DEF Serves, Listed
  <2>2. AgeFits(list[i])
    BY <1>1, <1>7, <2>1, Zenon DEF Rest, Recent
  <2>3. nb[list[i]] \in Neighbor
    BY <2>1, Zenon DEF NbInv, Serves, Listed
  <2>4. /\ nb[list[i]].hello \in Nat /\ nb[list[i]].timer \in Nat /\ lag \in Nat
        /\ Dead \in Nat /\ ConnectTicks \in Nat /\ lag <= Hello
    BY <1>1, <2>3, NeighborsAssumption DEF Neighbor, NbInv, Rest, Recent
  <2>5. /\ nb[list[i]].hello = 0 => nb[list[i]].timer <= Dead
        /\ nb[list[i]].timer <= Dead + ConnectTicks + lag
    BY <1>1, <2>2, Zenon DEF AgeFits
  <2> QED
    BY <1>1, <2>4, <2>5 DEF Due, Answered, Hello
<1>8. lag' <= ConnectTicks
  BY <1>1, NeighborsAssumption
<1>9. Recent'
  BY <1>2, <1>6, <1>7, <1>8, StopsFit, Zenon
<1>10. /\ ipc'.pc \in {"hello", "events"} /\ ipc'.events = events
       /\ IF ipc'.pc = "hello" THEN ipc'.cur \in Peer /\ Listed(ipc.cur)' ELSE ipc'.cur = Nobody
  BY <1>2, <1>6, StopsThread, Zenon
<1>11. ThreadInv'
  BY <1>1, <1>3, <1>10, Zenon DEF ThreadInv, Rest
<1> QED
  BY <1>2, <1>9, <1>11, Zenon DEF Rest

(* The round is over: everybody who serves has answered. *)
LEMMA DoneRest ==
  ASSUME EdgeInv, NbInv, NbInv', Rest, events_done
  PROVE  Rest'
<1>1. /\ ipc.pc = "events" /\ ipc'.pc = "wait" /\ ipc'.cur = ipc.cur /\ ipc'.events = ipc.events /\ lag' = 0
      /\ UNCHANGED <<list, nb, conn, backlog, ready, came, cli, stale, reused>>
  BY Zenon DEF events_done, At, EdgeInv, Shape
<1>2. ListInv' /\ IdIsItsOwn' /\ OwnMessages' /\ (~ reused' => Home')
  BY <1>1 DEF Rest, ListInv, Listed, IdIsItsOwn, OwnMessages, Home, Open
<1>3. ThreadInv'
  BY <1>1, Zenon DEF Rest, ThreadInv, Open
<1>4. ASSUME ~ reused', NEW q \in Peer, Serves(q)' PROVE AgeFits(q)'
  <2>1. Serves(q) /\ ~ reused
    BY <1>1, <1>4, Zenon DEF Serves, Listed
  <2>2. AgeFits(q) /\ nb[q] \in Neighbor
    BY <2>1, Zenon DEF Rest, Recent, Serves, Listed, NbInv
  <2>3. nb[q].timer \in Nat /\ lag \in Nat /\ Dead \in Nat /\ ConnectTicks \in Nat /\ lag <= ConnectTicks
    BY <1>1, <2>2, NeighborsAssumption, Zenon DEF Neighbor, NbInv, Rest, Recent, At
  <2>4. (nb[q].hello = 0 => nb[q].timer <= Dead) /\ nb[q].timer <= Dead + lag
    BY <1>1, <2>2, Zenon DEF AgeFits, Answered, At
  <2>5. nb[q].timer <= Dead + ConnectTicks + 0
    BY <2>3, <2>4
  <2> QED
    BY <1>1, <2>4, <2>5, Zenon DEF AgeFits, At
<1>5. Recent'
  BY <1>1, <1>4 DEF Recent, At, Hello
<1> QED
  BY <1>2, <1>3, <1>5, Zenon DEF Rest

(* Events that do not touch the table. *)
LEMMA EventRest ==
  ASSUME EdgeInv, NbInv, NbInv', Rest,
         epoll_accepted \/ accept_fails \/ \E fd \in Fd : epoll_error(fd)
  PROVE  Rest'
<1>1. /\ UNCHANGED <<list, nb, backlog, lag, came, cli, stale, reused>>
      /\ ipc'.pc = ipc.pc /\ ipc'.cur = ipc.cur /\ ipc'.events \subseteq ipc.events
  BY DEF epoll_accepted, accept_fails, epoll_error, Handled, EdgeInv, Shape
<1>3. \A q \in Peer : Listed(q)' <=> Listed(q)
  BY <1>1, Zenon DEF Listed
<1>4. ListInv' /\ IdIsItsOwn'
  BY <1>1, <1>3, ListKept, Zenon DEF Rest, IdIsItsOwn, Listed
<1>5. \A q \in Peer : Serves(q)' => Serves(q) /\ nb'[q].hello = nb[q].hello /\ nb'[q].timer = nb[q].timer
  BY <1>1 DEF Serves, Listed
<1>6. Recent'
  BY <1>1, <1>5, AgesStay, Zenon DEF Rest
<1>7. OwnMessages' /\ ReadyOpen' /\ (~ reused' => Home')
  <2>1. CASE epoll_accepted \/ accept_fails
    BY <1>1, <2>1 DEF epoll_accepted, accept_fails, Rest, OwnMessages, ReadyOpen, ThreadInv, Home, Listed, Open
  <2>2. ASSUME NEW fd \in Fd, epoll_error(fd) PROVE OwnMessages' /\ ReadyOpen' /\ (~ reused' => Home')
    <3>1. close(fd)
      BY <2>2, Zenon DEF epoll_error
    <3>2. Quiet(Nobody)
      BY <1>1, Zenon DEF Quiet, Listed
    <3> QED
      BY <1>1, <3>1, <3>2, SocketClosed, NeighborsAssumption, Zenon
  <2> QED
    BY <2>1, <2>2, Zenon
<1>8. ThreadInv'
  BY <1>1, <1>7, ZenonT(30) DEF Rest, ThreadInv, ReadyOpen, Listed
<1> QED
  BY <1>4, <1>6, <1>7, <1>8, Zenon DEF Rest

(* A connection is accepted. *)
LEMMA AcceptRest ==
  ASSUME EdgeInv, NbInv, NbInv', Rest, NEW p \in Peer, epoll_accept(p)
  PROVE  Rest'
<1>1. /\ UNCHANGED <<list, ready, ipc, buf, lag, came, cli, stale>> /\ backlog' \subseteq backlog
      /\ At("events")
  BY Zenon DEF epoll_accept
<1>2. /\ Quiet(p) /\ OwnMessages' /\ ReadyOpen' /\ reused' \in BOOLEAN
      /\ (~ reused' => ~ reused /\ Home')
      /\ Serves(p)' => Serves(p) /\ nb'[p].hello = nb[p].hello /\ nb'[p].timer = nb[p].timer
  <2>1. CASE ~ Listed(p)
    <3>1. UNCHANGED <<conn, reused, nb>>
      BY <2>1, Zenon DEF epoll_accept
    <3>2. Quiet(p)
      BY <3>1, Zenon DEF Quiet, Listed
    <3>3. OwnMessages' /\ ReadyOpen' /\ reused' \in BOOLEAN /\ (~ reused' => ~ reused /\ Home')
      BY <1>1, <2>1, <3>1, <3>2, SocketsKept
    <3> QED
      BY <3>1, <3>2, <3>3, Zenon DEF Serves, Listed
  <2>2. CASE Listed(p)
    <3>1. PICK fd \in Fd : /\ conn' = [conn EXCEPT ![fd] = NewSocket(p)]
                           /\ reused' = (reused \/ Dangling(fd))
                           /\ ipc_check_neighbor(p, fd)
      BY <2>2, Zenon DEF epoll_accept
    <3> DEFINE v == [[[nb[p] EXCEPT !.sock = fd] EXCEPT !.state = ATTEMPT] EXCEPT !.timer = 0]
    <3>2. nb[p] \in Neighbor
      BY <2>2, Zenon DEF NbInv, Listed
    <3>3. v \in Neighbor /\ v.id = nb[p].id /\ v.state = ATTEMPT /\ v.sock = fd
      BY <3>2, Zenon DEF Neighbor
    <3>4. nb' = [nb EXCEPT ![p] = v]
      BY <3>1, Zenon DEF ipc_check_neighbor, NbInv
    <3> HIDE DEF v
    <3>5. nb'[p] = v /\ Quiet(p)
      BY <2>2, <3>3, <3>4, EntrySet, Fields, ZenonT(30)
    <3>6. OwnMessages' /\ ReadyOpen' /\ reused' \in BOOLEAN /\ (~ reused' => ~ reused /\ Home')
      BY <1>1, <2>2, <3>1, <3>3, <3>5, SocketOpened, ZenonT(30)
    <3> QED
      BY <3>3, <3>5, <3>6, Fields, Zenon DEF Serves
  <2> QED
    BY <2>1, <2>2, Zenon
<1>3. ListInv' /\ IdIsItsOwn'
  BY <1>1, <1>2, ListKept, IdsKept DEF Rest, Quiet
<1>4. \A q \in Peer : Serves(q)' => Serves(q) /\ nb'[q].hello = nb[q].hello /\ nb'[q].timer = nb[q].timer
  BY <1>2, Zenon DEF Quiet, Serves
<1>5. Recent'
  BY <1>1, <1>2, <1>4, AgesStay, Zenon DEF Rest
<1>6. ThreadInv'
  BY <1>1, <1>2, ZenonT(30) DEF Rest, ThreadInv, ReadyOpen, At
<1> QED
  BY <1>2, <1>3, <1>5, <1>6 DEF Rest

(* ipc_handler: the ID in a message that was read from the socket is the   *)
(* one of the peer; one that was in the buffer may be another's.           *)
LEMMA HandlerRest ==
  ASSUME NbInv, Rest, NEW fd \in Fd, NEW m \in Message \cup {Zeros}, NEW fresh \in BOOLEAN,
         ipc_handler(fd, m, fresh), fresh => m.id = conn[fd].peer
  PROVE  /\ IdIsItsOwn' /\ stale' \subseteq Peer
         /\ \A q \in Peer : /\ Listed(q)' <=> Listed(q)
                            /\ Listed(q) => nb'[q].sock = nb[q].sock
                            /\ Serves(q)' =>
                                 \/ nb'[q].timer = 0
                                 \/ Serves(q) /\ nb'[q].hello = nb[q].hello /\ nb'[q].timer = nb[q].timer
<1>1. CASE nb' = nb /\ stale' = stale
  BY <1>1, ZenonT(30) DEF IdIsItsOwn, Listed, Serves, Rest, ThreadInv
<1>2. CASE ~ (nb' = nb /\ stale' = stale)
  <2> DEFINE n == find_neighbor_by_socket(fd)
  <2>0. /\ m # Zeros /\ n # Nobody /\ process_message(n, m)
        /\ stale' = IF fresh \/ m.id = n THEN stale \ {n} ELSE stale \cup {n}
    BY <1>2, Zenon DEF ipc_handler
  <2>1. n \in Peer /\ Listed(n) /\ conn[fd].peer = n
    BY <2>0, Zenon DEF find_neighbor_by_socket, NbInv, Open, Socket
  <2> HIDE DEF n
  <2>2. PICK p \in Peer :
          /\ Listed(p) /\ conn[fd].peer = p /\ m # Zeros /\ process_message(p, m)
          /\ stale' = IF fresh \/ m.id = p THEN stale \ {p} ELSE stale \cup {p}
    BY <2>0, <2>1, Zenon
  <2>3. m \in Message /\ m.id \in Peer /\ nb[p] \in Neighbor
    BY <2>2, Zenon DEF Message, NbInv, Listed
  <2> DEFINE u == [nb[p] EXCEPT !.id = m.id]
             v == [nb[p] EXCEPT !.id = m.id, !.state = UP, !.timer = 0]
  <2>4. /\ u \in Neighbor /\ u.id = m.id /\ u.state = nb[p].state /\ u.sock = nb[p].sock
        /\ u.hello = nb[p].hello /\ u.timer = nb[p].timer
        /\ v \in Neighbor /\ v.id = m.id /\ v.sock = nb[p].sock /\ v.timer = 0
    BY <2>3, Zenon DEF Neighbor
  <2>5. nb' = [nb EXCEPT ![p] = v] \/ nb' = [nb EXCEPT ![p] = u]
    BY <2>2, Zenon DEF process_message, NbInv
  <2> HIDE DEF u, v
  <2>6. (nb'[p] = v \/ nb'[p] = u) /\ \A q \in Peer \ {p} : nb'[q] = nb[q]
    BY <2>2, <2>5 DEF NbInv
  <2>7. nb'[p] # Absent /\ nb'[p].id = m.id /\ nb'[p].sock = nb[p].sock
    BY <2>4, <2>6, Fields, Zenon
  <2>8. stale' \subseteq Peer /\ \A q \in Peer \ {p} : q \in stale' <=> q \in stale
    BY <2>2, Zenon DEF Rest, ThreadInv
  <2>9. p \in stale' \/ nb'[p].id = p
    BY <2>2, <2>7
  <2>10. m.id # Garbage
    BY <2>3, NeighborsAssumption, Zenon
  <2>11. IdIsItsOwn'
    BY <2>6, <2>7, <2>8, <2>9, <2>10, SMTT(30) DEF IdIsItsOwn, Listed, Rest
  <2>12. Serves(p)' =>
            \/ nb'[p].timer = 0
            \/ Serves(p) /\ nb'[p].hello = nb[p].hello /\ nb'[p].timer = nb[p].timer
    BY <2>2, <2>4, <2>6 DEF Serves
  <2>13. \A q \in Peer : Listed(q)' <=> Listed(q)
    BY <2>2, <2>6, <2>7 DEF Listed
  <2>14. \A q \in Peer : Listed(q) => nb'[q].sock = nb[q].sock
    BY <2>6, <2>7, Zenon
  <2>15. \A q \in Peer : Serves(q)' =>
            \/ nb'[q].timer = 0
            \/ Serves(q) /\ nb'[q].hello = nb[q].hello /\ nb'[q].timer = nb[q].timer
    BY <2>6, <2>12, <2>13, Zenon DEF Serves
  <2> QED
    BY <2>8, <2>11, <2>13, <2>14, <2>15
<1> QED
  BY <1>1, <1>2

(* Data that comes over a socket answers only for the neighbor at its      *)
(* other end.                                                              *)
LEMMA DataRest ==
  ASSUME EdgeInv, NbInv, NbInv', Rest, NEW fd \in Fd, epoll_data(fd)
  PROVE  Rest'
<1>1. /\ UNCHANGED <<list, backlog, lag, came, cli, reused>> /\ At("events")
      /\ ipc'.pc = ipc.pc /\ ipc'.cur = ipc.cur /\ ipc'.events \subseteq ipc.events
  BY Zenon DEF epoll_data, Handled, EdgeInv, Shape
<1>2. PICK m \in Message \cup {Zeros}, fresh \in BOOLEAN :
        ipc_handler(fd, m, fresh) /\ (fresh => m.id = conn[fd].peer)
  <2>1. CASE Open(fd) /\ conn[fd].in # <<>>
    <3>1. PICK i \in 1 .. Len(conn[fd].in) : ipc_handler(fd, conn[fd].in[i], TRUE)
      BY <2>1, Zenon DEF epoll_data
    <3>2. conn[fd].in \in Seq(Message)
      BY <2>1, Zenon DEF NbInv, Open, Socket
    <3>3. conn[fd].in[i] \in Message /\ conn[fd].in[i].id = conn[fd].peer
      BY <2>1, <3>2 DEF Rest, OwnMessages
    <3> QED
      BY <3>1, <3>3, Zenon
  <2>2. CASE ~ (Open(fd) /\ conn[fd].in # <<>>)
    <3>1. ipc_handler(fd, buf, FALSE)
      BY <2>2, Zenon DEF epoll_data
    <3> QED
      BY <3>1, Zenon DEF NbInv
  <2> QED
    BY <2>1, <2>2, Zenon
<1>3. /\ IdIsItsOwn' /\ stale' \subseteq Peer
      /\ \A q \in Peer : /\ Listed(q)' <=> Listed(q)
                         /\ Listed(q) => nb'[q].sock = nb[q].sock
                         /\ Serves(q)' =>
                              \/ nb'[q].timer = 0
                              \/ Serves(q) /\ nb'[q].hello = nb[q].hello /\ nb'[q].timer = nb[q].timer
  BY <1>2, HandlerRest, Zenon
<1>4. ListInv'
  BY <1>1, <1>3, ListKept, Zenon DEF Rest
<1>5. Recent'
  BY <1>1, <1>3, AgesStay, Zenon DEF Rest
<1>6. /\ \A e \in Fd \ {fd} : Open(e) => Open(e)'
      /\ \A e \in Fd : Open(e)' => Open(e) /\ conn'[e].peer = conn[e].peer
      /\ \A e \in Fd : Open(e)' => conn'[e].in = <<>> \/ conn'[e].in = conn[e].in
      /\ ready' = ready \ {fd}
  <2>1. CASE Open(fd) /\ conn[fd].end = "open"
    <3> DEFINE s == [conn[fd] EXCEPT !.in = <<>>]
    <3>1. conn' = [conn EXCEPT ![fd] = s] /\ ready' = ready \ {fd}
      BY <2>1, Zenon DEF epoll_data
    <3>2. conn[fd] \in Socket
      BY <2>1, Zenon DEF NbInv, Open
    <3>3. s.in = <<>> /\ s.peer = conn[fd].peer
      BY <3>2, Zenon DEF Socket
    <3> HIDE DEF s
    <3>4. conn'[fd] = s /\ \A e \in Fd \ {fd} : conn'[e] = conn[e]
      BY <3>1, Zenon DEF NbInv
    <3> QED
      BY <2>1, <3>1, <3>3, <3>4, Zenon DEF Open
  <2>2. CASE ~ (Open(fd) /\ conn[fd].end = "open")
    <3>1. close(fd)
      BY <2>2, Zenon DEF epoll_data
    <3> QED
      BY <3>1, ClosedOne, Zenon DEF close
  <2> QED
    BY <2>1, <2>2, Zenon
<1>7. OwnMessages'
  BY <1>6, OwnKept, Zenon DEF Rest
<1>8. ASSUME ~ reused' PROVE Home'
  <2> SUFFICES ASSUME NEW q \in Peer, Listed(q)', nb'[q].sock # NoSocket, Open(nb[q].sock)'
               PROVE  conn'[nb'[q].sock].peer = q
    BY Zenon DEF Home
  <2>1. nb'[q].sock \in Fd
    BY Zenon DEF NbInv, Listed, Neighbor
  <2>2. Listed(q) /\ nb'[q].sock = nb[q].sock
    BY <1>3, Zenon
  <2> QED
    BY <1>1, <1>6, <1>8, <2>1, <2>2 DEF Home, Open, Rest
<1>9. ThreadInv'
  <2>1. ReadyOpen'
    BY <1>6, Zenon DEF ReadyOpen, Rest, ThreadInv
  <2> QED
    BY <1>1, <1>3, <2>1 DEF Rest, ThreadInv, ReadyOpen, At
<1> QED
  BY <1>3, <1>4, <1>5, <1>7, <1>8, <1>9, Zenon DEF Rest

-----------------------------------------------------------------------------
(* The peers, the CLI and time *)

(* What a peer sends carries its own ID. *)
LEMMA PeersRest ==
  ASSUME EdgeInv, NbInv, NbInv', Rest,
         \/ \E p \in Peer : peer_connects(p)
         \/ \E fd \in Fd, type \in {"HERE_I_AM", "I_SEE_YOU"}, k \in Key : peer_sends(fd, type, k)
         \/ \E fd \in Fd, end \in {"eof", "reset"} : peer_closes(fd, end)
  PROVE  Rest'
<1>1. /\ UNCHANGED <<list, nb, ipc, lag, cli, stale, reused>>
      /\ came' = came + 1 /\ came < MaxPeer /\ backlog' \subseteq Peer
  BY Zenon DEF peer_connects, peer_sends, peer_closes, Rest, ThreadInv
<1>2. ListInv' /\ IdIsItsOwn'
  BY <1>1 DEF Rest, ListInv, Listed, IdIsItsOwn
<1>3. \A q \in Peer : Serves(q)' => Serves(q) /\ nb'[q].hello = nb[q].hello /\ nb'[q].timer = nb[q].timer
  BY <1>1, Zenon DEF Serves, Listed
<1>4. Recent'
  BY <1>1, <1>3, AgesStay, Zenon DEF Rest
<1>5. came' \in 0 .. MaxPeer
  BY <1>1, NeighborsAssumption DEF Rest, ThreadInv
<1>6. ASSUME NEW fd \in Fd, NEW s \in Socket, Open(fd), conn' = [conn EXCEPT ![fd] = s],
             s.peer = conn[fd].peer, ready' = ready \cup {fd},
             \A i \in 1 .. Len(s.in) : s.in[i].id = s.peer
      PROVE  OwnMessages' /\ ReadyOpen' /\ (~ reused' => Home')
  <2>1. conn'[fd] = s /\ \A e \in Fd \ {fd} : conn'[e] = conn[e]
    BY <1>6, Zenon DEF NbInv
  <2>2. \A e \in Fd : /\ Open(e)' <=> Open(e)
                      /\ Open(e) => conn'[e].peer = conn[e].peer
    BY <1>6, <2>1, Fields, Zenon DEF Open
  <2>3. OwnMessages'
    BY <1>6, <2>1, <2>2 DEF OwnMessages, Rest, Open
  <2>4. ReadyOpen'
    BY <1>6, <2>2 DEF ReadyOpen, Rest, ThreadInv
  <2>5. Quiet(Nobody)
    BY <1>1, Zenon DEF Quiet, Listed
  <2>6. ~ reused' => Home'
    BY <1>1, <2>2, <2>5, HomeKept, NeighborsAssumption, Zenon DEF Rest
  <2> QED
    BY <2>3, <2>4, <2>6, Zenon
<1>7. OwnMessages' /\ ReadyOpen' /\ (~ reused' => Home')
  <2>1. ASSUME NEW p \in Peer, peer_connects(p) PROVE OwnMessages' /\ ReadyOpen' /\ (~ reused' => Home')
    <3>1. conn' = conn /\ ready' = ready \cup {Listener}
      BY <2>1, Zenon DEF peer_connects
    <3> QED
      BY <1>1, <3>1, Zenon DEF Rest, ThreadInv, OwnMessages, ReadyOpen, Home, Listed, Open
  <2>2. ASSUME NEW fd \in Fd, NEW type \in {"HERE_I_AM", "I_SEE_YOU"}, NEW k \in Key,
               peer_sends(fd, type, k)
        PROVE  OwnMessages' /\ ReadyOpen' /\ (~ reused' => Home')
    <3> DEFINE c == conn[fd]
               m == [type |-> type, id |-> c.peer, mac |-> k]
               s == [c EXCEPT !.in = Append(c.in, m)]
    <3>1. c \in Socket /\ Open(fd)
      BY <2>2 DEF peer_sends, Open, NbInv
    <3>2. m \in Message /\ m.id = c.peer
      BY <3>1, Zenon DEF Message, Socket
    <3>3. conn' = [conn EXCEPT ![fd] = s] /\ ready' = ready \cup {fd}
      BY <2>2, Zenon DEF peer_sends
    <3>4. \A i \in 1 .. Len(c.in) : c.in[i].id = c.peer
      BY <3>1, Zenon DEF Rest, OwnMessages
    <3> HIDE DEF m, c
    <3>5. c.in \in Seq(Message)
      BY <3>1, Zenon DEF Socket
    <3>6. /\ Append(c.in, m) \in Seq(Message)
          /\ \A i \in 1 .. Len(Append(c.in, m)) : Append(c.in, m)[i].id = c.peer
      BY <3>2, <3>4, <3>5
    <3>7. s \in Socket /\ s.in = Append(c.in, m) /\ s.peer = c.peer
      BY <3>1, <3>6, Zenon DEF Socket
    <3> HIDE DEF s
    <3>8. \A i \in 1 .. Len(s.in) : s.in[i].id = s.peer
      BY <3>6, <3>7, Zenon
    <3> QED
      BY <1>6, <3>1, <3>3, <3>7, <3>8, Zenon DEF c
  <2>3. ASSUME NEW fd \in Fd, NEW end \in {"eof", "reset"}, peer_closes(fd, end)
        PROVE  OwnMessages' /\ ReadyOpen' /\ (~ reused' => Home')
    <3> DEFINE c == conn[fd]
               t == [c EXCEPT !.end = end]
               s == [t EXCEPT !.in = IF end = "reset" THEN <<>> ELSE t.in]
    <3>1. c \in Socket /\ Open(fd)
      BY <2>3, Zenon DEF peer_closes, Open, NbInv
    <3>2. ready' = ready \cup {fd} /\ conn' = [conn EXCEPT ![fd] = s]
      <4>1. /\ ready' = ready \cup {fd}
            /\ conn' = [conn EXCEPT ![fd].end = end, ![fd].in = IF end = "reset" THEN <<>> ELSE @]
        BY <2>3, Zenon DEF peer_closes
      <4>2. conn \in [Fd -> Socket \cup {Closed}]
        BY Zenon DEF NbInv
      <4> QED
        BY <4>1, <4>2
    <3>3. \A i \in 1 .. Len(c.in) : c.in[i].id = c.peer
      BY <3>1, Zenon DEF Rest, OwnMessages
    <3> HIDE DEF c
    <3>4. t \in Socket /\ t.in = c.in /\ t.peer = c.peer
      BY <3>1, Zenon DEF Socket
    <3>5. t.in \in Seq(Message) /\ <<>> \in Seq(Message)
      BY <3>4 DEF Socket
    <3> HIDE DEF t
    <3>6. s \in Socket /\ s.peer = t.peer /\ s.in = IF end = "reset" THEN <<>> ELSE t.in
      BY <3>4, <3>5, Zenon DEF Socket
    <3> HIDE DEF s
    <3>7. \A i \in 1 .. Len(s.in) : s.in[i].id = s.peer
      <4>1. CASE end = "reset"
        <5>1. s.in = <<>>
          BY <3>6, <4>1, Zenon
        <5> QED
          BY <5>1
      <4>2. CASE end # "reset"
        BY <3>3, <3>4, <3>6, <4>2, Zenon
      <4> QED
        BY <4>1, <4>2, Zenon
    <3> QED
      BY <1>6, <3>1, <3>2, <3>4, <3>6, <3>7, Zenon DEF c
  <2> QED
    BY <2>1, <2>2, <2>3, Zenon
<1>8. ThreadInv'
  BY <1>1, <1>5, <1>7, Zenon DEF Rest, ThreadInv, ReadyOpen, Listed
<1> QED
  BY <1>2, <1>4, <1>7, <1>8, Zenon DEF Rest

(* A neighbor is added at the end of the list, DOWN; or gets another key. *)
LEMMA AddRest ==
  ASSUME EdgeInv, NbInv, NbInv', Rest, NEW p \in Peer, NEW k \in Key, add_update_neighbor(p, k)
  PROVE  Rest'
<1>1. /\ UNCHANGED <<conn, backlog, ready, ipc, buf, lag, came, stale, reused>>
      /\ cli' \in 0 .. MaxCli
  BY NeighborsAssumption DEF add_update_neighbor, Rest, ThreadInv
<1>2. OwnMessages' /\ ReadyOpen'
  BY <1>1, Zenon DEF Rest, ThreadInv, OwnMessages, ReadyOpen, Open
<1>3. CASE Listed(p)
  <2> DEFINE v == [nb[p] EXCEPT !.key = k]
  <2>1. nb[p] \in Neighbor
    BY <1>3, Zenon DEF NbInv, Listed
  <2>2. /\ v \in Neighbor /\ v.id = nb[p].id /\ v.state = nb[p].state /\ v.sock = nb[p].sock
        /\ v.hello = nb[p].hello /\ v.timer = nb[p].timer
    BY <2>1, Zenon DEF Neighbor
  <2>3. nb' = [nb EXCEPT ![p] = v] /\ list' = list
    BY <1>3, Zenon DEF add_update_neighbor
  <2> HIDE DEF v
  <2>4. nb'[p] = v /\ Quiet(p)
    BY <1>3, <2>2, <2>3, EntrySet, Zenon
  <2>5. ListInv' /\ IdIsItsOwn'
    BY <1>1, <2>3, <2>4, ListKept, IdsKept DEF Rest, Quiet
  <2>6. ~ reused' => Home'
    BY <1>1, <2>2, <2>4, SocketsKept, Zenon
  <2>7. \A q \in Peer : Serves(q)' => Serves(q) /\ nb'[q].hello = nb[q].hello /\ nb'[q].timer = nb[q].timer
    BY <2>2, <2>4, Zenon DEF Quiet, Serves
  <2>8. Recent'
    BY <1>1, <2>3, <2>7, AgesStay, Zenon DEF Rest
  <2>9. \A q \in Peer : (Listed(q)' <=> Listed(q)) /\ (Listed(q) => nb'[q].state = nb[q].state)
    BY <1>3, <2>2, <2>3, <2>4, Zenon DEF Quiet, NbInv
  <2>10. ThreadInv'
    BY <1>1, <1>2, <2>9, Zenon DEF Rest, ThreadInv, ReadyOpen
  <2> QED
    BY <1>2, <2>5, <2>6, <2>8, <2>10, Zenon DEF Rest
<1>4. CASE ~ Listed(p)
  <2> DEFINE v == [state |-> DOWN, sock |-> NoSocket, id |-> Garbage,
                   key |-> k, hello |-> 0, timer |-> 0]
  <2>1. v \in Neighbor /\ v.state = DOWN /\ v.sock = NoSocket
    BY Zenon DEF Neighbor
  <2>2. nb' = [nb EXCEPT ![p] = v] /\ list' = Append(list, p)
    BY <1>4, Zenon DEF add_update_neighbor
  <2> HIDE DEF v
  <2>3. nb'[p] = v /\ \A q \in Peer \ {p} : nb'[q] = nb[q]
    BY <2>2, Zenon DEF NbInv
  <2>4. Listed(p)' /\ \A q \in Peer \ {p} : Listed(q)' <=> Listed(q)
    BY <2>1, <2>3, Fields, Zenon DEF Listed
  <2>5. list \in Seq(Peer) /\ Len(list) \in Nat /\ \A i \in 1 .. Len(list) : list[i] # p /\ list[i] \in Peer
    BY <1>4 DEF Rest, ListInv
  <2>6. /\ list' \in Seq(Peer) /\ Len(list') = Len(list) + 1
        /\ list'[Len(list) + 1] = p /\ \A i \in 1 .. Len(list) : list'[i] = list[i]
    BY <2>2, <2>5
  <2>7. ListInv'
    <3>1. \A i, j \in 1 .. Len(list') : list'[i] = list'[j] => i = j
      BY <2>5, <2>6 DEF Rest, ListInv
    <3>2. \A q \in Peer : Listed(q)' <=> \E i \in 1 .. Len(list') : list'[i] = q
      <4>1. \E i \in 1 .. Len(list') : list'[i] = p
        BY <2>5, <2>6
      <4>2. ASSUME NEW q \in Peer \ {p}
            PROVE  Listed(q) <=> \E i \in 1 .. Len(list') : list'[i] = q
        BY <2>5, <2>6 DEF Rest, ListInv
      <4> QED
        BY <2>4, <4>1, <4>2, Zenon
    <3> QED
      BY <2>6, <3>1, <3>2 DEF ListInv
  <2>8. IdIsItsOwn' /\ (~ reused' => Home')
    BY <1>1, <2>1, <2>3, <2>4, Fields, Zenon DEF Rest, IdIsItsOwn, Home, Listed, Open
  <2>9. ASSUME ~ reused', NEW q \in Peer, Serves(q)' PROVE AgeFits(q)'
    <3>1. q # p /\ nb'[q] = nb[q] /\ Serves(q)
      BY <2>1, <2>3, <2>9, Fields, Zenon DEF Serves, Listed
    <3>2. AgeFits(q)
      BY <1>1, <2>9, <3>1, Zenon DEF Rest, Recent
    <3>3. ASSUME At("hello") \/ At("connect") PROVE Passed(q)' <=> Passed(q)
      <4>1. ipc.cur # p
        BY <1>4, <3>3, Zenon DEF Rest, ThreadInv, At
      <4>2. ASSUME Passed(q) PROVE Passed(q)'
        BY <1>1, <2>5, <2>6, <4>2 DEF Passed
      <4>3. ASSUME Passed(q)' PROVE Passed(q)
        <5>1. PICK i \in 1 .. Len(list'), j \in 1 .. Len(list') : i < j /\ list'[i] = q /\ list'[j] = ipc.cur
          BY <1>1, <4>3, Zenon DEF Passed
        <5>2. i \in 1 .. Len(list) /\ j \in 1 .. Len(list)
          BY <2>5, <2>6, <3>1, <4>1, <5>1
        <5> QED
          BY <2>6, <5>1, <5>2, Zenon DEF Passed
      <4> QED
        BY <4>2, <4>3, Zenon
    <3>4. (Answered(q)' <=> Answered(q)) /\ (Due(q)' <=> Due(q))
      BY <1>1, <3>1, Zenon DEF Answered, Due
    <3> QED
      BY <1>1, <3>1, <3>2, <3>3, <3>4, Zenon DEF AgeFits, At
  <2>10. Recent'
    BY <1>1, <2>9, Zenon DEF Rest, Recent, At
  <2>11. ThreadInv'
    BY <1>1, <1>2, <1>4, <2>3, <2>4, Zenon DEF Rest, ThreadInv, ReadyOpen
  <2> QED
    BY <1>2, <2>7, <2>8, <2>10, <2>11 DEF Rest
<1> QED
  BY <1>3, <1>4, Zenon

(* A neighbor is taken out of the list: the others keep their order, and   *)
(* hello_neighbors goes on behind it if it stood there.                    *)
LEMMA DelRest ==
  ASSUME EdgeInv, NbInv, NbInv', Rest, NEW p \in Peer, del_neighbor(p)
  PROVE  Rest'
<1>1. /\ UNCHANGED <<conn, backlog, ready, buf, lag, came, reused>> /\ Listed(p)
      /\ cli' \in 0 .. MaxCli /\ stale' = stale \ {p}
      /\ nb' = [nb EXCEPT ![p] = Absent]
  <2>1. cli' = cli + 1 /\ cli < MaxCli /\ cli \in 0 .. MaxCli /\ MaxCli \in Nat
    BY NeighborsAssumption, Zenon DEF del_neighbor, Rest, ThreadInv
  <2>2. cli' \in 0 .. MaxCli
    BY <2>1
  <2> QED
    BY <2>2, Zenon DEF del_neighbor
<1>2. nb'[p] = Absent /\ \A q \in Peer \ {p} : nb'[q] = nb[q]
  BY <1>1, Zenon DEF NbInv
<1>3. ~ Listed(p)' /\ \A q \in Peer \ {p} : Listed(q)' <=> Listed(q)
  BY <1>2, Zenon DEF Listed
<1>4. ListInv /\ list \in Seq(Peer) /\ Len(list) \in Nat
  BY DEF Rest, ListInv
<1>5. PICK d \in 1 .. Len(list) :
        /\ d = Place(p) /\ list[d] = p
        /\ Len(After(p)) = Len(list) - d
        /\ \A j \in 1 .. Len(list) - d : After(p)[j] = list[d + j]
  BY <1>1, <1>4, AfterPlace, Zenon
<1>6. /\ list' \in Seq(Peer) /\ Len(list') = Len(list) - 1
      /\ \A j \in 1 .. Len(list) - 1 : list'[j] = IF j < d THEN list[j] ELSE list[j + 1]
  BY <1>1, <1>4, <1>5, Unlisted DEF del_neighbor
\* Where the items of the one list are in the other.
<1> DEFINE old(j) == IF j < d THEN j ELSE j + 1
           new(j) == IF j < d THEN j ELSE j - 1
<1>7. \A j \in 1 .. Len(list') : old(j) \in 1 .. Len(list) /\ old(j) # d /\ list'[j] = list[old(j)]
  BY <1>4, <1>6
<1>8. \A j \in 1 .. Len(list) : j # d => new(j) \in 1 .. Len(list') /\ list'[new(j)] = list[j]
  <2>1. ASSUME NEW j \in 1 .. Len(list), j # d
        PROVE  /\ new(j) \in 1 .. Len(list) - 1
               /\ list[j] = IF new(j) < d THEN list[new(j)] ELSE list[new(j) + 1]
    <3>1. CASE j < d
      BY <1>4, <2>1, <3>1
    <3>2. CASE j > d
      <4>1. new(j) = j - 1 /\ j - 1 \in 1 .. Len(list) - 1 /\ ~ (j - 1 < d) /\ (j - 1) + 1 = j
        BY <1>4, <2>1, <3>2
      <4> HIDE DEF new
      <4> QED
        BY <4>1, Zenon
    <3> QED
      BY <2>1, <3>1, <3>2
  <2> HIDE DEF new
  <2> QED
    BY <1>6, <2>1, Zenon
<1>9. \A i, j \in 1 .. Len(list') : (i < j <=> old(i) < old(j)) /\ (old(i) = old(j) => i = j)
  BY <1>4, <1>6
<1>10. \A i, j \in 1 .. Len(list) : i # d /\ j # d /\ i < j => new(i) < new(j)
  BY <1>4
<1> HIDE DEF old, new
<1>11. ListInv'
  <2>1. \A i, j \in 1 .. Len(list') : list'[i] = list'[j] => i = j
    BY <1>4, <1>7, <1>9, SMTT(30) DEF ListInv
  <2>2. ASSUME NEW q \in Peer \ {p} PROVE Listed(q) <=> \E i \in 1 .. Len(list') : list'[i] = q
    <3>1. Listed(q) <=> \E i \in 1 .. Len(list) : list[i] = q
      BY <1>4, Zenon DEF ListInv
    <3>2. ASSUME NEW i \in 1 .. Len(list), list[i] = q PROVE \E j \in 1 .. Len(list') : list'[j] = q
      <4>1. i # d
        BY <1>5, <3>2
      <4> QED
        BY <1>8, <3>2, <4>1, Zenon
    <3>3. ASSUME NEW j \in 1 .. Len(list'), list'[j] = q PROVE \E i \in 1 .. Len(list) : list[i] = q
      BY <1>7, <3>3, Zenon
    <3> QED
      BY <3>1, <3>2, <3>3, Zenon
  <2>3. ASSUME NEW i \in 1 .. Len(list') PROVE list'[i] # p
    <3>1. old(i) \in 1 .. Len(list) /\ old(i) # d /\ list'[i] = list[old(i)]
      BY <1>7, Zenon
    <3> QED
      BY <1>4, <1>5, <3>1 DEF ListInv
  <2> QED
    BY <1>3, <1>6, <2>1, <2>2, <2>3 DEF ListInv
<1>12. OwnMessages' /\ ReadyOpen'
  BY <1>1, Zenon DEF Rest, ThreadInv, OwnMessages, ReadyOpen, Open
<1>13. IdIsItsOwn'
  <2>1. \A q \in Peer \ {p} : q \in stale' <=> q \in stale
    BY <1>1, Zenon
  <2> QED
    BY <1>2, <1>3, <2>1 DEF Rest, IdIsItsOwn
<1>14. ~ reused' => Home'
  BY <1>1, <1>2, <1>3 DEF Rest, Home, Open
<1>15. \A q \in Peer : Serves(q)' => Serves(q) /\ q # p /\ nb'[q] = nb[q]
  BY <1>2, <1>3, Zenon DEF Serves
<1>16. \A q \in Peer : Listed(q)' => Listed(q) /\ q # p /\ nb'[q] = nb[q]
  BY <1>2, <1>3, Zenon
<1>17. CASE ipc.cur # p /\ ipc' = ipc
  <2>1. ThreadInv'
    BY <1>1, <1>2, <1>3, <1>12, <1>17, Zenon DEF Rest, ThreadInv, ReadyOpen
  <2>2. ASSUME ~ reused', NEW q \in Peer, Serves(q)' PROVE AgeFits(q)'
    <3>1. q # p /\ nb'[q] = nb[q] /\ Serves(q) /\ AgeFits(q)
      BY <1>1, <1>15, <2>2, Zenon DEF Rest, Recent
    <3>2. Passed(q)' <=> Passed(q)
      <4>1. ASSUME NEW i \in 1 .. Len(list), NEW j \in 1 .. Len(list),
                   i < j, list[i] = q, list[j] = ipc.cur
            PROVE  Passed(q)'
        <5>1. i # d /\ j # d
          BY <1>5, <1>17, <3>1, <4>1, Zenon
        <5>2. /\ new(i) \in 1 .. Len(list') /\ list'[new(i)] = q
              /\ new(j) \in 1 .. Len(list') /\ list'[new(j)] = ipc'.cur /\ new(i) < new(j)
          BY <1>8, <1>10, <1>17, <4>1, <5>1, Zenon
        <5> QED
          BY <5>2, Zenon DEF Passed
      <4>2. ASSUME NEW i \in 1 .. Len(list'), NEW j \in 1 .. Len(list'),
                   i < j, list'[i] = q, list'[j] = ipc'.cur
            PROVE  Passed(q)
        <5>1. /\ old(i) \in 1 .. Len(list) /\ list[old(i)] = q
              /\ old(j) \in 1 .. Len(list) /\ list[old(j)] = ipc.cur /\ old(i) < old(j)
          BY <1>7, <1>9, <1>17, <4>2, Zenon
        <5> QED
          BY <5>1, Zenon DEF Passed
      <4> QED
        BY <4>1, <4>2, Zenon DEF Passed
    <3>3. (Answered(q)' <=> Answered(q)) /\ (Due(q)' <=> Due(q))
      BY <1>1, <3>1, Zenon DEF Answered, Due
    <3> QED
      BY <1>1, <1>17, <3>1, <3>2, <3>3, Zenon DEF AgeFits, At
  <2>3. Recent'
    BY <1>1, <1>17, <2>2, Zenon DEF Rest, Recent, At
  <2> QED
    BY <1>11, <1>12, <1>13, <1>14, <2>1, <2>3, Zenon DEF Rest
<1>18. CASE ipc.cur = p /\ ipc' = [pc |-> "undefined", cur |-> Nobody, events |-> {}]
  <2>0. ipc'.pc = "undefined" /\ ipc'.cur = Nobody /\ ipc'.events = {}
    BY <1>18, Zenon
  <2>1. ThreadInv'
    BY <1>1, <1>12, <2>0, Zenon DEF Rest, ThreadInv, ReadyOpen
  <2>2. ipc.pc \in {"hello", "connect"}
    BY <1>18, NeighborsAssumption, Zenon DEF Rest, ThreadInv
  <2>3. ASSUME ~ reused', NEW q \in Peer, Serves(q)' PROVE AgeFits(q)'
    <3>1. q # p /\ nb'[q] = nb[q] /\ AgeFits(q)
      BY <1>1, <1>15, <2>3, Zenon DEF Rest, Recent
    <3> QED
      BY <1>1, <2>0, <2>2, <3>1, Zenon DEF AgeFits, At
  <2>4. Recent'
    BY <1>1, <2>0, <2>2, <2>3, Zenon DEF Rest, Recent, At
  <2> QED
    BY <1>11, <1>12, <1>13, <1>14, <2>1, <2>4, Zenon DEF Rest
<1>19. CASE ipc.cur = p /\ At("hello") /\ Advance(p, nb)
  <2>1. PICK k \in 0 .. Len(list') : k = d - 1
    BY <1>4, <1>6
  <2>2. /\ Len(After(p)) = Len(list') - k
        /\ \A j \in 1 .. Len(list') - k : After(p)[j] = list'[k + j]
    <3>1. Len(list') - k = Len(list) - d
      BY <1>4, <1>6, <2>1
    <3>2. ASSUME NEW j \in 1 .. Len(list) - d PROVE After(p)[j] = list'[k + j]
      <4>1. k + j \in 1 .. Len(list) - 1 /\ ~ (k + j < d) /\ (k + j) + 1 = d + j
        BY <1>4, <2>1
      <4> QED
        BY <1>5, <1>6, <4>1
    <3> QED
      BY <1>5, <3>1, <3>2, Zenon
  <2>3. StopsIn(list', k, nb, lag, ipc.events)
    <3>1. Visit(After(p), nb, lag, ipc.events)
      BY <1>19, Zenon DEF Advance
    <3> QED
      BY <1>6, <2>2, <3>1, VisitStops, Zenon
  <2>4. \A j \in 1 .. Len(list') : nb'[list'[j]] = nb[list'[j]]
    <3>1. \A j \in 1 .. Len(list') : list'[j] \in Peer
      BY <1>6
    <3> QED
      BY <1>11, <1>16, <3>1, Zenon DEF ListInv
  <2>5. Stops(k, ipc.events)
    <3>0. Len(list') \in Nat
      BY <1>4, <1>6
    <3>1. CASE /\ ipc' = [pc |-> "events", cur |-> Nobody, events |-> ipc.events]
               /\ \A j \in k + 1 .. Len(list') : ~ Busy(nb[list'[j]], lag)
      <4>1. \A j \in k + 1 .. Len(list') : j \in 1 .. Len(list')
        BY <3>0
      <4> QED
        BY <1>1, <2>4, <3>1, <4>1, Zenon DEF Stops, StopsIn
    <3>2. ASSUME NEW c \in k + 1 .. Len(list'),
                 ipc' = [pc |-> "hello", cur |-> list'[c], events |-> ipc.events],
                 \A j \in k + 1 .. c - 1 : ~ Busy(nb[list'[j]], lag)
          PROVE  Stops(k, ipc.events)
      <4>1. \A j \in k + 1 .. c - 1 : j \in 1 .. Len(list')
        BY <3>0
      <4>2. \A j \in k + 1 .. c - 1 : ~ Busy(nb'[list'[j]], lag')
        BY <1>1, <2>4, <3>2, <4>1, Zenon
      <4> QED
        BY <3>2, <4>2, Zenon DEF Stops, StopsIn
    <3> QED
      BY <2>3, <3>1, <3>2, Zenon DEF StopsIn
  <2>6. ASSUME ~ reused' PROVE Ages(k)'
    <3>1. Ages(k)
      BY <1>1, <1>4, <1>5, <1>19, <2>1, <2>6, AgesHere DEF Rest
    <3> SUFFICES ASSUME NEW j \in 1 .. Len(list'), Serves(list[j])'
                 PROVE  /\ nb'[list'[j]].hello = 0 => nb'[list'[j]].timer <= Dead
                        /\ nb'[list'[j]].timer <= Dead + Hello + ConnectTicks + lag
                        /\ IF j <= k THEN Answered(list[j])' ELSE Due(list[j])'
      BY <1>1, Zenon DEF Ages
    <3>2. PICK i \in 1 .. Len(list) : i = old(j) /\ list'[j] = list[i]
      BY <1>7, Zenon
    <3>3. PICK q \in Peer : q = list[i]
      BY <1>4
    <3>4. Serves(q)'
      BY <3>2, <3>3, Zenon DEF Serves, Listed
    <3>5. Serves(q) /\ nb'[q] = nb[q]
      BY <1>15, <3>4, Zenon
    <3>6. i <= k <=> j <= k
      BY <1>4, <1>6, <2>1, <3>2 DEF old
    <3>7. /\ nb[q].hello = 0 => nb[q].timer <= Dead
          /\ nb[q].timer <= Dead + Hello + ConnectTicks + lag
          /\ IF i <= k THEN Answered(q) ELSE Due(q)
      BY <3>1, <3>3, <3>5, Zenon DEF Ages
    <3>8. (Answered(list[j])' <=> Answered(q)) /\ (Due(list[j])' <=> Due(q))
      BY <1>1, <3>2, <3>3, <3>5, Zenon DEF Answered, Due
    <3> QED
      BY <3>2, <3>3, <3>5, <3>6, <3>7, <3>8, Zenon
  <2>7. lag' <= ConnectTicks
    BY <1>1, <1>19, Zenon DEF Rest, Recent, At
  <2>8. Recent'
    BY <1>11, <2>5, <2>6, <2>7, StopsFit, Zenon
  <2>9. /\ ipc'.pc \in {"hello", "events"} /\ ipc'.events = ipc.events
        /\ IF ipc'.pc = "hello" THEN ipc'.cur \in Peer /\ Listed(ipc.cur)' ELSE ipc'.cur = Nobody
    BY <1>11, <2>5, StopsThread, Zenon
  <2>10. ThreadInv'
    BY <1>1, <1>12, <2>9, Zenon DEF Rest, ThreadInv, ReadyOpen
  <2> QED
    BY <1>11, <1>12, <1>13, <1>14, <2>8, <2>10, Zenon DEF Rest
<1> QED
  BY <1>17, <1>18, <1>19, Zenon DEF del_neighbor

(* An age that grows by one, or has passed what it is compared with. *)
LEMMA OlderBy ==
  ASSUME NEW a \in Nat, NEW b \in Nat
  PROVE  /\ Older(a, b) \in Nat /\ Older(a, b) # 0 /\ Older(a, b) <= a + 1 /\ a <= Older(a, b)
         /\ Older(a, b) = a + 1 \/ (Older(a, b) = a /\ a > b)
BY DEF Older

(* What the ages are a tick later. *)
LEMMA TickAges ==
  ASSUME NbInv, tick
  PROVE  \A q \in Peer :
           /\ Listed(q)' <=> Listed(q)
           /\ Listed(q) =>
                /\ nb[q] \in Neighbor
                /\ nb'[q].state = nb[q].state /\ nb'[q].sock = nb[q].sock /\ nb'[q].id = nb[q].id
                /\ nb'[q].hello = Older(nb[q].hello, Retry + ConnectTicks - 1)
                /\ nb[q].state = UP => nb'[q].timer = Older(nb[q].timer, Dead + Hello + 2 * ConnectTicks)
<1> SUFFICES ASSUME NEW q \in Peer
             PROVE  /\ Listed(q)' <=> Listed(q)
                    /\ Listed(q) =>
                         /\ nb[q] \in Neighbor
                         /\ nb'[q].state = nb[q].state /\ nb'[q].sock = nb[q].sock /\ nb'[q].id = nb[q].id
                         /\ nb'[q].hello = Older(nb[q].hello, Retry + ConnectTicks - 1)
                         /\ nb[q].state = UP
                              => nb'[q].timer = Older(nb[q].timer, Dead + Hello + 2 * ConnectTicks)
  BY Zenon
<1> DEFINE h == Older(nb[q].hello, Retry + ConnectTicks - 1)
           o == Older(nb[q].timer, Dead + Hello + 2 * ConnectTicks)
           t == IF nb[q].state = UP THEN o ELSE nb[q].timer
           u == [nb[q] EXCEPT !.hello = h]
           v == [u EXCEPT !.timer = t]
<1>1. CASE ~ Listed(q)
  <2>1. nb'[q] = Absent
    BY <1>1, Zenon DEF tick
  <2> QED
    BY <1>1, <2>1, Zenon DEF Listed
<1>2. CASE Listed(q)
  <2>1. nb[q] \in Neighbor
    BY <1>2, Zenon DEF NbInv, Listed
  <2>2. nb'[q] = v
    <3>1. u.timer = nb[q].timer
      OBVIOUS
    <3>2. nb'[q] = [nb[q] EXCEPT !.hello = h,
                      !.timer = IF nb[q].state = UP THEN Older(@, Dead + Hello + 2 * ConnectTicks)
                                                    ELSE @]
      BY <1>2, Zenon DEF tick
    <3> QED
      BY <3>1, <3>2, Zenon
  <2> HIDE DEF h, o
  <2>3. /\ DOMAIN v = DOMAIN nb[q]
        /\ v.state = nb[q].state /\ v.sock = nb[q].sock /\ v.id = nb[q].id /\ v.hello = h
        /\ v.timer = t
    BY <2>1, Zenon DEF Neighbor
  <2>4. v # Absent
    <3>1. DOMAIN nb[q] = {"state", "sock", "id", "key", "hello", "timer"} /\ DOMAIN Absent = {"state", "key"}
      BY <2>1, Zenon DEF Neighbor, Absent
    <3> HIDE DEF v
    <3> QED
      BY <2>3, <3>1, Zenon
  <2> HIDE DEF v
  <2> QED
    BY <1>2, <2>1, <2>2, <2>3, <2>4 DEF Listed, h, o
<1> QED
  BY <1>1, <1>2, Zenon

(* Time passes: at the wait since the last round, at a connect since the   *)
(* beginning of this one.                                                  *)
LEMMA TickRest ==
  ASSUME EdgeInv, NbInv, NbInv', Rest, tick
  PROVE  Rest'
<1>1. UNCHANGED <<list, conn, backlog, ready, ipc, buf, came, cli, stale, reused>> /\ lag' = lag + 1
  BY Zenon DEF tick
<1>2. \/ At("wait") /\ lag < Hello
      \/ At("connect") /\ lag < ConnectTicks
  BY Zenon DEF tick
<1>3. \A q \in Peer :
        /\ Listed(q)' <=> Listed(q)
        /\ Listed(q) =>
             /\ nb[q] \in Neighbor
             /\ nb'[q].state = nb[q].state /\ nb'[q].sock = nb[q].sock /\ nb'[q].id = nb[q].id
             /\ nb'[q].hello = Older(nb[q].hello, Retry + ConnectTicks - 1)
             /\ nb[q].state = UP => nb'[q].timer = Older(nb[q].timer, Dead + Hello + 2 * ConnectTicks)
  BY TickAges, ZenonT(30)
<1>4. ListInv' /\ IdIsItsOwn' /\ (~ reused' => Home')
  BY <1>1, <1>3, ListKept, ZenonT(30) DEF Rest, IdIsItsOwn, Home, Open
<1>5. OwnMessages' /\ ReadyOpen'
  BY <1>1, Zenon DEF Rest, ThreadInv, OwnMessages, ReadyOpen, Open
<1>6. ThreadInv'
  BY <1>1, <1>3, <1>5 DEF Rest, ThreadInv, ReadyOpen
<1>7. /\ lag \in Nat /\ Dead \in Nat /\ ConnectTicks \in Nat /\ Retry \in Nat \ {0} /\ Hello = 1
  BY NeighborsAssumption, Zenon DEF NbInv, Hello
<1>8. ASSUME ~ reused', NEW q \in Peer, Serves(q)' PROVE AgeFits(q)'
  <2>1. Serves(q) /\ Listed(q) /\ nb[q].state = UP
    BY <1>3, <1>8, Zenon DEF Serves
  <2>2. AgeFits(q)
    BY <1>1, <1>8, <2>1 DEF Rest, Recent
  <2> DEFINE h == nb[q].hello
             t == nb[q].timer
             g == nb'[q].hello
             u == nb'[q].timer
  <2>3. h \in Nat /\ t \in Nat
    BY <1>3, <2>1, Zenon DEF Neighbor
  <2>4. /\ g = Older(h, Retry + ConnectTicks - 1)
        /\ u = Older(t, Dead + Hello + 2 * ConnectTicks)
    BY <1>3, <2>1, Zenon
  <2>5. /\ h = 0 => t <= Dead
        /\ At("wait") => t <= Dead + ConnectTicks + lag
        /\ ~ At("wait") => t <= Dead + Hello + ConnectTicks + lag
        /\ At("connect") => IF Passed(q) THEN t <= Dead + lag
                            ELSE lag <= h /\ (h = lag => t <= Dead + lag)
    BY <2>2, Zenon DEF AgeFits, Answered, Due
  <2> HIDE DEF h, t, g, u
  <2>6. Retry + ConnectTicks - 1 \in Nat /\ Dead + Hello + 2 * ConnectTicks \in Nat
    BY <1>7
  <2>7. /\ g \in Nat /\ g # 0 /\ h <= g /\ (g = h + 1 \/ (g = h /\ h > Retry + ConnectTicks - 1))
        /\ u \in Nat /\ u <= t + 1
    BY <2>3, <2>4, <2>6, OlderBy, Zenon
  <2>8. Passed(q)' <=> Passed(q)
    BY <1>1, Zenon DEF Passed
  <2>9. CASE At("wait") /\ lag < Hello
    <3>1. u <= Dead + ConnectTicks + (lag + 1)
      BY <1>7, <2>3, <2>5, <2>7, <2>9
    <3> QED
      BY <1>1, <2>7, <2>9, <3>1, Zenon DEF AgeFits, At, g, u
  <2>10. CASE At("connect") /\ lag < ConnectTicks
    <3>0. ~ At("wait")
      BY <2>10, Zenon DEF At
    <3>1. u <= Dead + Hello + ConnectTicks + (lag + 1)
      BY <1>7, <2>3, <2>5, <2>7, <3>0
    <3>2. Passed(q) => u <= Dead + (lag + 1)
      BY <1>7, <2>3, <2>5, <2>7, <2>10
    <3>3. ASSUME ~ Passed(q) PROVE lag + 1 <= g /\ (g = lag + 1 => u <= Dead + (lag + 1))
      <4>1. lag <= h /\ (h = lag => t <= Dead + lag)
        BY <2>5, <2>10, <3>3, Zenon
      <4>2. CASE g = h + 1
        BY <1>7, <2>3, <2>7, <4>1, <4>2
      <4>3. CASE g = h /\ h > Retry + ConnectTicks - 1
        BY <1>7, <2>3, <2>10, <4>3
      <4> QED
        BY <2>7, <4>2, <4>3, Zenon
    <3> QED
      BY <1>1, <2>7, <2>8, <2>10, <3>1, <3>2, <3>3, Zenon DEF AgeFits, Answered, Due, At, g, u
  <2> QED
    BY <1>2, <2>9, <2>10, Zenon
<1>9. lag' <= IF At("wait")' THEN Hello ELSE ConnectTicks
  BY <1>1, <1>2, <1>7 DEF At
<1>10. Recent'
  BY <1>8, <1>9, Zenon DEF Recent
<1> QED
  BY <1>4, <1>5, <1>6, <1>10, Zenon DEF Rest

-----------------------------------------------------------------------------

(* Without neighbors and sockets Rest holds. *)
LEMMA InitRest == Init => Rest
<1> SUFFICES ASSUME Init PROVE Rest
  BY Zenon
<1>1. /\ list = <<>> /\ lag = 0 /\ came = 0 /\ cli = 0 /\ backlog = {} /\ ready = {} /\ stale = {}
      /\ reused = FALSE /\ ipc.pc = "wait" /\ ipc.cur = Nobody /\ ipc.events = {}
      /\ \A p \in Peer : ~ Listed(p)
      /\ \A fd \in Fd : ~ Open(fd)
  BY Zenon DEF Init, Listed, Open
<1>2. Len(<<>>) = 0 /\ <<>> \in Seq(Peer)
  OBVIOUS
<1>3. ListInv
  BY <1>1, <1>2 DEF ListInv
<1>4. ThreadInv
  <2>1. came \in 0 .. MaxPeer /\ cli \in 0 .. MaxCli
    BY <1>1, NeighborsAssumption
  <2>2. /\ ipc.pc # "hello" /\ ipc.pc # "connect"
        /\ ipc.pc \in {"wait", "hello", "connect", "events", "undefined"}
    BY <1>1, Zenon
  <2>3. ipc.events \subseteq ({Listener} \cup Fd) \X BOOLEAN
    BY <1>1, Zenon
  <2> QED
    BY <1>1, <2>1, <2>2, <2>3, Zenon DEF ThreadInv
<1>5. Recent
  BY <1>1 DEF Recent, Serves, Hello, At
<1> QED
  BY <1>1, <1>3, <1>4, <1>5, Zenon DEF Rest, OwnMessages, IdIsItsOwn, Home

(* Every step keeps Rest. *)
LEMMA StepRest == EdgeInv /\ NbInv /\ NbInv' /\ Rest /\ [Next]_vars => Rest'
<1> SUFFICES ASSUME EdgeInv, NbInv, NbInv', Rest, [Next]_vars PROVE Rest'
  BY Zenon
<1>1. ASSUME NEW p \in Peer,
             \/ hello_attempt(p) \/ hello_connect(p) \/ connected(p)
             \/ hello_sent(p) \/ hello_fails(p)
      PROVE  Rest'
  BY <1>1, HelloRest, Zenon
<1>2. CASE epoll_wait \/ events_done \/ epoll_accepted \/ accept_fails
  BY <1>2, WaitRest, DoneRest, EventRest, Zenon
<1>3. ASSUME NEW p \in Peer, epoll_accept(p) PROVE Rest'
  BY <1>3, AcceptRest, Zenon
<1>4. ASSUME NEW fd \in Fd, epoll_error(fd) \/ epoll_data(fd) PROVE Rest'
  BY <1>4, EventRest, DataRest, Zenon
<1>5. ASSUME NEW p \in Peer, peer_connects(p) PROVE Rest'
  BY <1>5, PeersRest, Zenon
<1>6. CASE \E fd \in Fd, type \in {"HERE_I_AM", "I_SEE_YOU"}, k \in Key : peer_sends(fd, type, k)
  BY <1>6, PeersRest, Zenon
<1>7. CASE \E fd \in Fd, end \in {"eof", "reset"} : peer_closes(fd, end)
  BY <1>7, PeersRest, Zenon
<1>8. ASSUME NEW p \in Peer, NEW k \in Key, add_update_neighbor(p, k) PROVE Rest'
  BY <1>8, AddRest, Zenon
<1>9. ASSUME NEW p \in Peer, del_neighbor(p) PROVE Rest'
  BY <1>9, DelRest, Zenon
<1>10. CASE tick
  BY <1>10, TickRest, Zenon
<1>11. CASE UNCHANGED vars
  <2>1. UNCHANGED <<list, nb, conn, backlog, ready, ipc, lag, came, cli, stale, reused>>
    BY <1>11, Zenon DEF vars
  <2>2. \A q \in Peer : Serves(q)' => Serves(q) /\ nb'[q].hello = nb[q].hello /\ nb'[q].timer = nb[q].timer
    BY <2>1, Zenon DEF Serves, Listed
  <2>3. Recent'
    BY <2>1, <2>2, AgesStay, Zenon DEF Rest
  <2>4. ListInv' /\ ThreadInv' /\ OwnMessages' /\ IdIsItsOwn' /\ (~ reused' => Home')
    BY <2>1 DEF Rest, ListInv, ThreadInv, OwnMessages, IdIsItsOwn, Home, Listed, Open
  <2> QED
    BY <2>3, <2>4, Zenon DEF Rest
<1> QED
  BY <1>1, <1>2, <1>3, <1>4, <1>5, <1>6, <1>7, <1>8, <1>9, <1>10, <1>11, Zenon DEF Next, IpcStep

(* The whole invariant always holds. *)
LEMMA Invariance == Spec => [](EdgeInv /\ NbInv /\ Rest)
<1>1. Init => EdgeInv /\ NbInv
  BY InitKeeps, Zenon
<1> QED
  BY <1>1, InitRest, StepKeeps, StepRest, PTL DEF Spec

(* For any number of neighbors, descriptors and commands, epoll reports    *)
(* open sockets only, and the socket of a neighbor leads to that neighbor, *)
(* although epoll_handler closes sockets behind the neighbors' back, as    *)
(* long as the number of such a socket is not given out again.             *)
THEOREM SocketsLeadHome == Spec => []SockLeadsHome
<1>1. EdgeInv /\ NbInv /\ Rest => SockLeadsHome
  <2> SUFFICES ASSUME EdgeInv, NbInv, Rest PROVE SockLeadsHome
    BY Zenon
  <2>1. \A fd \in Fd : Open(fd) => /\ conn[fd].peer \in Peer /\ conn[fd].in \in Seq(Message)
                                   /\ conn[fd].end \in {"open", "eof", "reset"}
    BY ZenonT(30) DEF NbInv, Open, Socket
  <2>2. TypeOK
    BY <2>1 DEF TypeOK, EdgeInv, NbInv, Rest, ListInv, ThreadInv
  <2> QED
    BY <2>2, Zenon DEF SockLeadsHome, Rest, Home
<1> QED
  BY <1>1, Invariance, PTL

(* Whatever breaks, however long the list is and however the connects and  *)
(* the commands fall into the round, a neighbor with its own socket is UP  *)
(* for at most the dead time, a hello interval and two connects after its  *)
(* last answer.                                                            *)
THEOREM UpOnlyRecently == Spec => []UpIsRecent
<1>1. EdgeInv /\ NbInv /\ Rest => UpIsRecent
  <2> SUFFICES ASSUME NbInv, Rest, ~ reused, NEW p \in Peer,
                      Listed(p), nb[p].state = UP, nb[p].sock # NoSocket
               PROVE  nb[p].timer <= Dead + Hello + 2 * ConnectTicks
    BY Zenon DEF UpIsRecent
  <2>1. AgeFits(p) /\ lag <= IF At("wait") THEN Hello ELSE ConnectTicks
    BY Zenon DEF Rest, Recent, Serves
  <2>2. nb[p] \in Neighbor
    BY Zenon DEF NbInv, Listed
  <2>3. nb[p].timer \in Nat /\ lag \in Nat /\ Dead \in Nat /\ ConnectTicks \in Nat /\ Hello = 1
    BY <2>2, NeighborsAssumption, Zenon DEF Neighbor, NbInv, Hello
  <2>4. CASE At("wait")
    BY <2>1, <2>3, <2>4 DEF AgeFits
  <2>5. CASE ~ At("wait")
    BY <2>1, <2>3, <2>5 DEF AgeFits
  <2> QED
    BY <2>4, <2>5, Zenon
<1> QED
  BY <1>1, Invariance, PTL

(* No neighbor comes UP under an ID that nobody has sent, nor under        *)
(* another's, except by a message that was left in the buffer.             *)
THEOREM IdsAreTheirOwn == Spec => []IdIsItsOwn
<1>1. EdgeInv /\ NbInv /\ Rest => IdIsItsOwn
  BY Zenon DEF Rest
<1> QED
  BY <1>1, Invariance, PTL

=============================================================================
