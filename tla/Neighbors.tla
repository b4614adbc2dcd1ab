------------------------------ MODULE Neighbors ------------------------------
(***************************************************************************)
(* The IPC thread of subsystems/ipc.c: the loop of epoll_handler           *)
(* (sockets.c) with its timeout function hello_neighbors, its callbacks    *)
(* ipc_check_neighbor and ipc_handler, the sockets to the neighbors, and   *)
(* the CLI commands that change the list of neighbors meanwhile, without a *)
(* lock.  The neighbors' daemons connect, send, answer and go away as they *)
(* like.                                                                   *)
(*                                                                         *)
(* epoll is edge-triggered.  A step of the thread is the wait, one         *)
(* neighbor of hello_neighbors, or one event.  Time is in ticks of the 10  *)
(* seconds of OPENNOP_IPC_HELLO; only the wait and a connect take time.    *)
(* Messages are not split; a recv that finds several reads them together.  *)
(***************************************************************************)
EXTENDS Integers, Sequences

CONSTANTS Peer,         \* the IPs of possible neighbors
          Key, NoKey,   \* the keys; NoKey, the empty string, is one
          MaxFd,        \* descriptors the sockets may get
          MaxPending,   \* bound on the messages a socket holds
          MaxPeer,      \* bound on what the peers do
          MaxCli,       \* bound on the CLI commands
          MaxActs,      \* bound on both together
          Retry,        \* ticks before a neighbor that is DOWN is tried again
          Dead,         \* ticks without an answer that are not too many
          ConnectTicks  \* bound on the time a connect takes

Hello == 1              \* ticks between two hellos
Fd == 1 .. MaxFd
Listener == 0           \* server->socket, as an event
NoSocket == 0           \* neighbor->sock

DOWN == 0
ATTEMPT == 1
UP == 4

Nobody == "nobody"
Garbage == "garbage"    \* what malloc leaves in neighbor->id
Wrong == "wrong"        \* an HMAC that fits no key

ASSUME NeighborsAssumption ==
  /\ NoKey \in Key /\ Nobody \notin Peer /\ Garbage \notin Peer
  /\ MaxFd \in Nat /\ MaxPending \in Nat /\ MaxPeer \in Nat /\ MaxCli \in Nat /\ MaxActs \in Nat
  /\ Retry \in Nat \ {0} /\ Dead \in Nat \ {0} /\ ConnectTicks \in Nat

\* mac: the key whose HMAC is in the header, NoKey for no security.
Message == [type : {"HERE_I_AM", "I_SEE_YOU"}, id : Peer, mac : Key \cup {Wrong}]
Zeros == [type |-> "zeros"]
Closed == [peer |-> Nobody]
Neighbor == [state : {DOWN, ATTEMPT, UP}, sock : {NoSocket} \cup Fd,
             id : Peer \cup {Garbage}, key : Key, hello : Nat, timer : Nat]
Absent == [state |-> DOWN, key |-> Nobody]

VARIABLES list,     \* the neighbors, in the order of the list
          nb,       \* nb[p]: the struct neighbor with IP p; hello and timer
                    \* are the ages of hellotimer and timer
          conn,     \* conn[fd]: the peer of a socket, what it has sent and is
                    \* not read, and its end: "open", "eof" or "reset"
          backlog,  \* peers whose connection is not accepted yet
          ready,    \* what epoll_wait will report
          ipc,      \* the thread: pc, currentneighbor, the events left
          buf,      \* the buffer of epoll_handler
          lag,      \* ticks since epoll_wait was called or hello_neighbors began,
                    \* whose currenttime is of that moment
          came,     \* what the peers have done so far
          cli,      \* CLI commands so far
          stale,    \* history: peers that were given another's message, read before
          reused,   \* history: a neighbor's closed socket was given out again
          deaf      \* history: accept has failed, and no connection came since

vars == <<list, nb, conn, backlog, ready, ipc, buf, lag, came, cli, stale, reused, deaf>>

NewSocket(p) == [peer |-> p, in |-> <<>>, end |-> "open"]
Open(fd) == conn[fd] # Closed
Listed(p) == nb[p] # Absent
At(pc) == ipc.pc = pc

Init ==
  /\ list = <<>> /\ nb = [p \in Peer |-> Absent]
  /\ conn = [fd \in Fd |-> Closed]
  /\ backlog = {} /\ ready = {}
  /\ ipc = [pc |-> "wait", cur |-> Nobody, events |-> {}]
  /\ buf = Zeros /\ lag = 0 /\ came = 0 /\ cli = 0
  /\ stale = {} /\ reused = FALSE /\ deaf = FALSE

\* The descriptor the kernel gives to the next socket.
Lowest(fd) == ~ Open(fd) /\ \A e \in 1 .. fd - 1 : Open(e)
Dangling(fd) == \E p \in Peer : Listed(p) /\ nb[p].sock = fd

\* Mutant of find_neighbor_by_socket: the addresses are not compared.
find_first_neighbor(fd) ==
  IF Open(fd) /\ conn[fd].end # "reset" /\ list # <<>> THEN Head(list) ELSE Nobody

(* find_neighbor_by_socket: by the address of the socket's peer, if there  *)
(* is one.  getpeername fails on a socket that is closed or was reset.     *)
find_neighbor_by_socket(fd) ==
  IF Open(fd) /\ conn[fd].end # "reset" /\ Listed(conn[fd].peer)
  THEN conn[fd].peer ELSE Nobody

close(fd) ==
  /\ conn' = [conn EXCEPT ![fd] = Closed]
  /\ ready' = ready \ {fd}

-----------------------------------------------------------------------------
(* epoll_handler: the wait, which hands over what is ready *)

\* What hello_neighbors does with p: nothing, a new attempt or a hello.
Retries(n, late) == n.state = DOWN /\ n.hello >= Retry + late
Greets(n, late) == n.state >= ATTEMPT /\ n.hello >= Hello + late /\ n.sock # NoSocket
Busy(n, late) == Retries(n, late) \/ Greets(n, late)

\* On to the first busy neighbor of the rest of the list, or to the events.
Visit(rest, table, late, events) ==
  LET busy == {i \in 1 .. Len(rest) : Busy(table[rest[i]], late)}
  IN  \/ \E i \in busy : /\ \A j \in busy : i <= j
                         /\ ipc' = [pc |-> "hello", cur |-> rest[i], events |-> events]
      \/ busy = {} /\ ipc' = [pc |-> "events", cur |-> Nobody, events |-> events]

epoll_wait ==
  /\ At("wait")
  /\ ready # {} \/ lag = Hello
  /\ Visit(list, nb, 0, {<<fd, fd # Listener /\ conn[fd].end = "reset">> : fd \in ready})
  /\ ready' = {} /\ lag' = 0
  /\ UNCHANGED <<list, nb, conn, backlog, buf, came, cli, stale, reused, deaf>>

-----------------------------------------------------------------------------
(* hello_neighbors, for currentneighbor p *)

Place(p) == CHOOSE i \in 1 .. Len(list) : list[i] = p
After(p) == SubSeq(list, Place(p) + 1, Len(list))
Advance(p, table) == Visit(After(p), table, lag, ipc.events)

(* DOWN for long enough: with a socket, on to ATTEMPT; without, connect. *)
hello_attempt(p) ==
  /\ At("hello") /\ ipc.cur = p /\ Listed(p)
  /\ Retries(nb[p], lag) /\ nb[p].sock # NoSocket
  /\ nb' = [nb EXCEPT ![p].hello = lag, ![p].state = ATTEMPT]
  /\ Advance(p, nb')
  /\ UNCHANGED <<list, conn, backlog, ready, buf, lag, came, cli, stale, reused, deaf>>

hello_connect(p) ==
  /\ At("hello") /\ ipc.cur = p /\ Listed(p)
  /\ Retries(nb[p], lag) /\ nb[p].sock = NoSocket
  /\ nb' = [nb EXCEPT ![p].hello = lag]
  /\ ipc' = [ipc EXCEPT !.pc = "connect"]
  /\ UNCHANGED <<list, conn, backlog, ready, buf, lag, came, cli, stale, reused, deaf>>

(* new_ip_client has returned: with a socket, or with -1. *)
connected(p) ==
  /\ At("connect") /\ ipc.cur = p /\ Listed(p)
  /\ \/ \E fd \in Fd :
          /\ Lowest(fd)
          /\ conn' = [conn EXCEPT ![fd] = NewSocket(p)]
          /\ reused' = (reused \/ Dangling(fd))
          /\ nb' = [nb EXCEPT ![p].sock = fd, ![p].state = ATTEMPT]
     \/ UNCHANGED <<conn, reused, nb>>
  /\ Advance(p, nb')
  /\ UNCHANGED <<list, backlog, ready, buf, lag, came, cli, stale, deaf>>

(* ipc_set_neighbor_state: of the neighbor that the socket leads to. *)
ipc_set_neighbor_state(table, fd, state) ==
  LET n == find_neighbor_by_socket(fd)
  IN  IF n = Nobody THEN table
      ELSE [table EXCEPT ![n].state = state, ![n].timer = 0]

\* Mutant of Overdue: looks at the timer of the hellos.
OverdueByHello(p) == nb[p].state = UP /\ nb[p].hello > Dead + lag

Overdue(p) == nb[p].state = UP /\ nb[p].timer > Dead + lag

\* The table before the hello to p is sent.
Greeting(p) ==
  LET table == [nb EXCEPT ![p].hello = lag]
  IN  IF Overdue(p) THEN ipc_set_neighbor_state(table, nb[p].sock, DOWN) ELSE table

(* The hello is sent; sending does not fail at once when the peer has      *)
(* closed its side, and may fail when it has not.                          *)
hello_sent(p) ==
  LET fd == nb[p].sock IN
  /\ At("hello") /\ ipc.cur = p /\ Listed(p)
  /\ Greets(nb[p], lag)
  /\ Open(fd) /\ conn[fd].end # "reset"
  /\ nb' = Greeting(p)
  /\ Advance(p, nb')
  /\ UNCHANGED <<list, conn, backlog, ready, buf, lag, came, cli, stale, reused, deaf>>

hello_fails(p) ==
  LET fd == nb[p].sock IN
  /\ At("hello") /\ ipc.cur = p /\ Listed(p)
  /\ Greets(nb[p], lag)
  /\ nb' = [Greeting(p) EXCEPT ![p].state = DOWN, ![p].sock = NoSocket]
  /\ close(fd)
  /\ Advance(p, nb')
  /\ UNCHANGED <<list, backlog, buf, lag, came, cli, stale, reused, deaf>>

-----------------------------------------------------------------------------
(* epoll_handler: the events *)

Handled(e) == ipc' = [ipc EXCEPT !.events = @ \ {e}]

events_done ==
  /\ At("events") /\ ipc.events = {}
  /\ ipc' = [ipc EXCEPT !.pc = "wait"] /\ lag' = 0
  /\ UNCHANGED <<list, nb, conn, backlog, ready, buf, came, cli, stale, reused, deaf>>

\* Mutant of ipc_check_neighbor: takes the first neighbor of the list.
check_first(p, fd) ==
  nb' = [nb EXCEPT ![Head(list)].sock = fd, ![Head(list)].state = ATTEMPT,
                   ![Head(list)].timer = 0]

ipc_check_neighbor(p, fd) ==
  nb' = [nb EXCEPT ![p].sock = fd, ![p].state = ATTEMPT, ![p].timer = 0]

(* Connections are accepted until accept fails; ipc_check_neighbor lets    *)
(* those of neighbors in and puts their sockets in place of the ones they  *)
(* had.                                                                    *)
epoll_accept(p) ==
  /\ At("events") /\ <<Listener, FALSE>> \in ipc.events
  /\ p \in backlog /\ backlog' = backlog \ {p}
  /\ \/ /\ Listed(p)
        /\ \E fd \in Fd :
             /\ Lowest(fd)
             /\ conn' = [conn EXCEPT ![fd] = NewSocket(p)]
             /\ reused' = (reused \/ Dangling(fd))
             /\ ipc_check_neighbor(p, fd)
     \/ /\ ~ Listed(p) /\ \E fd \in Fd : Lowest(fd)
        /\ UNCHANGED <<conn, reused, nb>>
  /\ UNCHANGED <<list, ready, ipc, buf, lag, came, cli, stale, deaf>>

\* Mutant of epoll_accepted: after one connection.
epoll_accepted_one ==
  /\ At("events") /\ <<Listener, FALSE>> \in ipc.events
  /\ Handled(<<Listener, FALSE>>)
  /\ UNCHANGED <<list, nb, conn, backlog, ready, buf, lag, came, cli, stale, reused, deaf>>

epoll_accepted ==
  /\ At("events") /\ <<Listener, FALSE>> \in ipc.events
  /\ backlog = {}
  /\ Handled(<<Listener, FALSE>>)
  /\ UNCHANGED <<list, nb, conn, backlog, ready, buf, lag, came, cli, stale, reused, deaf>>

(* accept fails with connections waiting, for want of descriptors for      *)
(* example: the loop ends as if there were no more.  They are not reported *)
(* again until the next one comes.                                         *)
accept_fails ==
  /\ At("events") /\ <<Listener, FALSE>> \in ipc.events
  /\ backlog # {}
  /\ Handled(<<Listener, FALSE>>)
  /\ deaf' = (Listener \notin ready)
  /\ UNCHANGED <<list, nb, conn, backlog, ready, buf, lag, came, cli, stale, reused>>

(* EPOLLERR or EPOLLHUP: the socket is closed, and stays in the neighbor. *)
epoll_error(fd) ==
  /\ At("events") /\ <<fd, TRUE>> \in ipc.events
  /\ close(fd)
  /\ Handled(<<fd, TRUE>>)
  /\ UNCHANGED <<list, nb, backlog, buf, lag, came, cli, stale, reused, deaf>>

(* check_security, validate_security and check_hmac_sha256. *)
Passes(p, m) == m.mac = nb[p].key

\* What the check and the processing leave in the buffer: the HMAC that was
\* calculated, or a header that is longer by an HMAC.
Checked(p, m) ==
  IF m.mac = NoKey \/ nb[p].key = NoKey THEN m
  ELSE [m EXCEPT !.mac = IF Passes(p, m) THEN Wrong ELSE nb[p].key]

(* process_message *)
process_message(p, m) ==
  nb' = [nb EXCEPT ![p] =
           IF m.type = "I_SEE_YOU" THEN [@ EXCEPT !.id = m.id, !.state = UP, !.timer = 0]
           ELSE [@ EXCEPT !.id = m.id]]

(* ipc_handler, with m in the buffer, fresh if it has just been read. *)
ipc_handler(fd, m, fresh) ==
  LET p == find_neighbor_by_socket(fd) IN
  \/ /\ m # Zeros /\ p # Nobody /\ Passes(p, m)
     /\ process_message(p, m)
     /\ buf' = Checked(p, m)
     /\ stale' = IF fresh \/ m.id = p THEN stale \ {p} ELSE stale \cup {p}
  \/ /\ m # Zeros /\ p # Nobody /\ ~ Passes(p, m)
     /\ buf' = Checked(p, m)
     /\ UNCHANGED <<nb, stale>>
  \/ /\ m = Zeros \/ p = Nobody
     /\ buf' = m
     /\ UNCHANGED <<nb, stale>>

(* All data of the socket is read, each recv over what the one before has  *)
(* put in the buffer: the handler gets the first message of the last recv. *)
(* When nothing was there, it gets what was in the buffer.                 *)
epoll_data(fd) ==
  /\ At("events") /\ <<fd, FALSE>> \in ipc.events /\ fd # Listener
  /\ \/ /\ Open(fd) /\ conn[fd].in # <<>>
        /\ \E i \in 1 .. Len(conn[fd].in) : ipc_handler(fd, conn[fd].in[i], TRUE)
     \/ /\ Open(fd) => conn[fd].in = <<>>
        /\ ipc_handler(fd, buf, FALSE)
  /\ IF Open(fd) /\ conn[fd].end = "open"
     THEN /\ conn' = [conn EXCEPT ![fd].in = <<>>]
          /\ ready' = ready \ {fd}
     ELSE close(fd)
  /\ Handled(<<fd, FALSE>>)
  /\ UNCHANGED <<list, backlog, lag, came, cli, reused, deaf>>

-----------------------------------------------------------------------------
(* The neighbors' daemons and the network *)

peer_connects(p) ==
  /\ came < MaxPeer /\ came + cli < MaxActs /\ came' = came + 1
  /\ p \notin backlog
  /\ backlog' = backlog \cup {p} /\ ready' = ready \cup {Listener} /\ deaf' = FALSE
  /\ UNCHANGED <<list, nb, conn, ipc, buf, lag, cli, stale, reused>>

(* A hello, or the answer to one, or an answer that nobody asked for. *)
peer_sends(fd, type, mac) ==
  /\ came < MaxPeer /\ came + cli < MaxActs /\ came' = came + 1
  /\ Open(fd) /\ conn[fd].end = "open" /\ Len(conn[fd].in) < MaxPending
  /\ conn' = [conn EXCEPT ![fd].in = Append(@, [type |-> type, id |-> conn[fd].peer, mac |-> mac])]
  /\ ready' = ready \cup {fd}
  /\ UNCHANGED <<list, nb, backlog, ipc, buf, lag, cli, stale, reused, deaf>>

peer_closes(fd, end) ==
  /\ came < MaxPeer /\ came + cli < MaxActs /\ came' = came + 1
  /\ Open(fd) /\ conn[fd].end = "open"
  /\ conn' = [conn EXCEPT ![fd].end = end,
                          ![fd].in = IF end = "reset" THEN <<>> ELSE @]
  /\ ready' = ready \cup {fd}
  /\ UNCHANGED <<list, nb, backlog, ipc, buf, lag, cli, stale, reused, deaf>>

-----------------------------------------------------------------------------
(* The CLI, and time *)

add_update_neighbor(p, k) ==
  /\ cli < MaxCli /\ came + cli < MaxActs /\ cli' = cli + 1
  /\ \/ /\ Listed(p)
        /\ nb' = [nb EXCEPT ![p].key = k]
        /\ UNCHANGED list
     \/ /\ ~ Listed(p)
        /\ nb' = [nb EXCEPT ![p] = [state |-> DOWN, sock |-> NoSocket, id |-> Garbage,
                                    key |-> k, hello |-> 0, timer |-> 0]]
        /\ list' = Append(list, p)
  /\ UNCHANGED <<conn, backlog, ready, ipc, buf, lag, came, stale, reused, deaf>>

(* The socket of the neighbor is left as it is.  When hello_neighbors      *)
(* stands at the neighbor, it goes on with freed memory; if it has yet to  *)
(* step to it, with the next one.                                          *)
del_neighbor(p) ==
  /\ cli < MaxCli /\ came + cli < MaxActs /\ cli' = cli + 1
  /\ Listed(p)
  /\ nb' = [nb EXCEPT ![p] = Absent]
  /\ list' = SubSeq(list, 1, Place(p) - 1) \o After(p)
  /\ stale' = stale \ {p}
  /\ \/ ipc.cur # p /\ UNCHANGED ipc
     \/ ipc.cur = p /\ ipc' = [pc |-> "undefined", cur |-> Nobody, events |-> {}]
     \/ ipc.cur = p /\ At("hello") /\ Advance(p, nb)
  /\ UNCHANGED <<conn, backlog, ready, buf, lag, came, reused, deaf>>

\* Ages beyond what is compared are one; timer is compared when UP only,
\* and that sets it.
Older(age, bound) == IF age > bound THEN age ELSE age + 1

tick ==
  /\ \/ At("wait") /\ lag < Hello
     \/ At("connect") /\ lag < ConnectTicks
  /\ lag' = lag + 1
  /\ nb' = [p \in Peer |->
       IF ~ Listed(p) THEN Absent
       ELSE [nb[p] EXCEPT
              !.hello = Older(@, Retry + ConnectTicks - 1),
              !.timer = IF nb[p].state = UP THEN Older(@, Dead + Hello + 2 * ConnectTicks) ELSE @]]
  /\ UNCHANGED <<list, conn, backlog, ready, ipc, buf, came, cli, stale, reused, deaf>>

-----------------------------------------------------------------------------

IpcStep ==
  \/ epoll_wait \/ events_done \/ epoll_accepted \/ accept_fails
  \/ \E p \in Peer :
       \/ hello_attempt(p) \/ hello_connect(p) \/ connected(p)
       \/ hello_sent(p) \/ hello_fails(p) \/ epoll_accept(p)
  \/ \E fd \in Fd : epoll_error(fd) \/ epoll_data(fd)

Next ==
  \/ IpcStep
  \/ \E p \in Peer : peer_connects(p) \/ del_neighbor(p)
  \/ \E p \in Peer, k \in Key : add_update_neighbor(p, k)
  \/ \E fd \in Fd, type \in {"HERE_I_AM", "I_SEE_YOU"}, k \in Key : peer_sends(fd, type, k)
  \/ \E fd \in Fd, end \in {"eof", "reset"} : peer_closes(fd, end)
  \/ tick

Spec == Init /\ [][Next]_vars

-----------------------------------------------------------------------------

Undefined == At("undefined")

(* Type correctness. *)
TypeOK ==
  /\ list \in Seq(Peer) /\ \A p \in Peer : Listed(p) <=> \E i \in 1 .. Len(list) : list[i] = p
  /\ nb \in [Peer -> Neighbor \cup {Absent}]
  /\ \A fd \in Fd : Open(fd) => /\ conn[fd].peer \in Peer /\ conn[fd].in \in Seq(Message)
                                /\ conn[fd].end \in {"open", "eof", "reset"}
  /\ backlog \subseteq Peer
  /\ ready \subseteq {Listener} \cup {fd \in Fd : Open(fd)}
  /\ ipc.pc \in {"wait", "hello", "connect", "events", "undefined"}
  /\ IF ipc.pc \in {"hello", "connect"} THEN ipc.cur \in Peer /\ Listed(ipc.cur) ELSE ipc.cur = Nobody
  /\ ipc.events \subseteq ({Listener} \cup Fd) \X BOOLEAN
  /\ buf \in Message \cup {Zeros}
  /\ lag \in Nat /\ came \in 0 .. MaxPeer /\ cli \in 0 .. MaxCli
  /\ stale \subseteq Peer /\ reused \in BOOLEAN /\ deaf \in BOOLEAN

(* The socket of a neighbor, if it is open, leads to that neighbor,        *)
(* although epoll_handler closes sockets behind the neighbors' back:       *)
(* unless the number of a closed one has been given out again.  epoll      *)
(* reports open sockets only (TypeOK).                                     *)
SockLeadsHome ==
  /\ TypeOK
  /\ ~ reused => \A p \in Peer :
       Listed(p) /\ nb[p].sock # NoSocket /\ Open(nb[p].sock) => conn[nb[p].sock].peer = p

(* A neighbor that no longer answers is not UP for long, whether its       *)
(* connection breaks, ends or just goes silent, and while the thread waits *)
(* for the connection to another one.  This needs its own socket: a        *)
(* neighbor may be UP by a message on one that it no longer has.           *)
UpIsRecent ==
  ~ reused => \A p \in Peer :
    Listed(p) /\ nb[p].state = UP /\ nb[p].sock # NoSocket
      => nb[p].timer <= Dead + Hello + 2 * ConnectTicks

(* epoll reports a socket once for what has come: what is not read yet, or *)
(* not accepted, has still to be reported or handled, also when it comes   *)
(* while the thread reads, or while hello_neighbors closes sockets that    *)
(* were reported.  The exception are connections for which accept has      *)
(* failed: they wait for the next one to come (deaf).                      *)
NoEdgeLost ==
  ~ Undefined =>
    /\ \A fd \in Fd : Open(fd) /\ (conn[fd].in # <<>> \/ conn[fd].end # "open")
         => fd \in ready \/ \E err \in BOOLEAN : <<fd, err>> \in ipc.events
    /\ backlog # {} /\ ~ deaf => Listener \in ready \/ <<Listener, FALSE>> \in ipc.events

(* A neighbor that is UP has the ID it has sent itself, by which the       *)
(* fetcher and the workers know it, whoever else's messages were in the    *)
(* buffer before and whichever descriptors were reused.  The exception is  *)
(* a socket on which epoll_handler has read nothing: ipc_handler is called *)
(* all the same, and the message of before, possibly of another neighbor,  *)
(* sets this one's ID and brings it UP.  But in no case is an ID compared  *)
(* with of which allocate_neighbor has set one byte and nobody the rest.   *)
IdIsItsOwn ==
  \A p \in Peer : Listed(p) /\ nb[p].state = UP =>
    nb[p].id # Garbage /\ (p \in stale \/ nb[p].id = p)

=============================================================================
