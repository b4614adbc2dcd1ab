-------------------------------- MODULE Wccp --------------------------------
(***************************************************************************)
(* WCCP, by which routers send traffic to the accelerator                  *)
(* (subsystems/wccpv2.c): service groups, each with its routers            *)
(* ("servers") and the web-caches the routers tell of.  The threads are    *)
(*   - the CLI's client threads, which add groups and servers to lists     *)
(*     (include/list.h) that nobody locks;                                 *)
(*   - the WCCP thread, in epoll_handler (sockets.c): it walks the lists   *)
(*     to send Here I Am and Redirect Assign to the servers that are due,  *)
(*     and handles the I See You messages that have come.                  *)
(* The routers send what they like, UDP loses, duplicates and reorders it, *)
(* and a socket may report an error (an ICMP message).  Time is only in    *)
(* which servers are due.                                                  *)
(***************************************************************************)
EXTENDS Naturals, Sequences, FiniteSets

CONSTANTS GroupId,      \* the service groups that may be configured
          Ip,           \* addresses of routers
          Cache,        \* addresses of web-caches
          View,         \* the lists of web-caches a router may send
          Number,       \* member change numbers of the routers
          Client,       \* client threads of the CLI
          MaxGroups, MaxServers, MaxFd,                 \* bounds
          MaxCommands, MaxActs,
          LittleEndian, \* the byte order of the host
          NULL

Group == 1 .. MaxGroups      \* struct wccp_service_group in the order of malloc
Server == 1 .. MaxServers    \* struct wccp_server
Fd == 1 .. MaxFd
GROUPS == 0                  \* the list of groups, where a group stands for its servers

ASSUME WccpAssumption ==
  /\ GroupId \subseteq 0 .. 254 /\ LittleEndian \in BOOLEAN
  /\ Number \subseteq Nat /\ View \subseteq Seq(Cache)
  /\ MaxGroups \in Nat /\ MaxServers \in Nat /\ MaxFd \in Nat
  /\ MaxCommands \in Nat /\ MaxActs \in Nat
  /\ NULL \notin Nat /\ NULL \notin Ip

VARIABLES groups,     \* the list head wccp_service_groups
          group,      \* group[g]: a service group; its id is NULL before malloc
          server,     \* server[s]
          cli,        \* cli[c]: a client thread: its mode, data and insert_list_item
          w,          \* the WCCP thread
          fdt,        \* fdt[d]: the server whose socket has descriptor d
          inbox,      \* inbox[d]: the messages that have come
          edge,       \* what epoll_wait will report
          failed,     \* the sockets with an error
          buf,        \* the buffer of epoll_handler
          commands, acts,   \* how many commands, and messages and errors, so far
          raced,      \* history: two clients were adding to one list
          torn,       \* history: a server was added while a message was built
          closed,     \* history: the servers whose socket epoll_handler has closed
          sent        \* history: the last message of the WCCP thread

lists == <<groups, group, server>>
network == <<fdt, inbox, edge, failed, buf, acts>>
history == <<raced, torn, closed, sent>>
vars == <<lists, cli, commands, w, network, history>>

EmptyHead == [next |-> NULL, prev |-> NULL, count |-> 0]
NoGroup == [id |-> NULL, change |-> 0, servers |-> EmptyHead, caches |-> <<>>, next |-> NULL]
NoServer == [ip |-> NULL, router_id |-> NULL, sock |-> 0, next |-> NULL]
IdleClient == [pc |-> "idle", mode |-> "global", data |-> NULL, head |-> NULL,
               item |-> NULL, tail |-> NULL, n |-> 0]
Waiting == [pc |-> "wait", g |-> NULL, s |-> NULL, n |-> 0,
            due |-> {}, events |-> {}, errs |-> {}]

Init ==
  /\ groups = EmptyHead
  /\ group = [g \in Group |-> NoGroup]
  /\ server = [s \in Server |-> NoServer]
  /\ cli = [c \in Client |-> IdleClient]
  /\ w = Waiting
  /\ fdt = [d \in Fd |-> NULL] /\ inbox = [d \in Fd |-> <<>>]
  /\ edge = {} /\ failed = {} /\ buf = NULL
  /\ commands = 0 /\ acts = 0
  /\ raced = FALSE /\ torn = FALSE /\ closed = {} /\ sent = NULL

\* The n-th item of a list from item first on, NULL behind its end; and all items.
Nth(first, next) ==
  LET at[n \in 1 .. Cardinality(DOMAIN next)] == IF n = 1 THEN first ELSE next[at[n - 1]]
  IN  at
Items(at) == {at[n] : n \in DOMAIN at} \ {NULL}

\* The first of the items that is in S.
FirstIn(at, S) ==
  LET hits == {n \in DOMAIN at : at[n] \in S}
  IN  IF hits = {} THEN NULL ELSE at[CHOOSE n \in hits : \A m \in hits : n <= m]

GroupsFrom(g) == Nth(g, [x \in Group \cup {NULL} |-> IF x = NULL THEN NULL ELSE group[x].next])
ServersFrom(s) == Nth(s, [x \in Server \cup {NULL} |-> IF x = NULL THEN NULL ELSE server[x].next])
GroupList == GroupsFrom(groups.next)
ServerList(g) == ServersFrom(group[g].servers.next)

find_wccp_service_group(id) == FirstIn(GroupList, {g \in Group : group[g].id = id})
find_wccp_server(g, ip) == FirstIn(ServerList(g), {s \in Server : server[s].ip = ip})

\* What malloc and socket may return.
FreeGroups == {g \in Group : group[g].id = NULL}
FreeServers == {s \in Server : server[s].ip = NULL}
FreeFds == {d \in Fd : fdt[d] = NULL}
Lowest(S) == CHOOSE x \in S : \A y \in S : x <= y

-----------------------------------------------------------------------------
(* The commands of the CLI, and insert_list_item *)

\* A client that is not at work is given a command.
Command(c) == cli[c].pc = "idle" /\ commands < MaxCommands /\ commands' = commands + 1

\* The client starts to add an item to a list.
Insert(c, head, item) ==
  /\ cli' = [cli EXCEPT ![c].pc = "load", ![c].head = head, ![c].item = item]
  /\ raced' = (raced \/ \E d \in Client \ {c} : cli[d].pc # "idle" /\ cli[d].head = head)

(* "wccp <service group>": the group is looked up and made if need be.     *)
cli_enter_wccp_mode(c, id) ==
  LET g == find_wccp_service_group(id)
  IN
  /\ Command(c) /\ cli[c].mode = "global"
  /\ \/ /\ g # NULL
        /\ cli' = [cli EXCEPT ![c].mode = "wccp", ![c].data = g]
        /\ UNCHANGED <<group, raced>>
     \/ /\ g = NULL /\ FreeGroups # {}
        /\ LET new == Lowest(FreeGroups)
           IN  /\ group' = [group EXCEPT ![new] = [NoGroup EXCEPT !.id = id]]
               /\ Insert(c, GROUPS, new)
  /\ UNCHANGED <<groups, server, w, network, torn, closed, sent>>

(* "server <ip address>", in the mode of a group; without a group the mode *)
(* is left.                                                                *)
cli_wccp_server(c, ip) ==
  LET g == cli[c].data
  IN
  /\ Command(c) /\ cli[c].mode = "wccp"
  /\ \/ /\ g = NULL
        /\ cli' = [cli EXCEPT ![c].mode = "global"]
        /\ UNCHANGED <<server, raced>>
     \/ /\ g # NULL /\ find_wccp_server(g, ip) = NULL
        /\ FreeServers # {}
        /\ LET new == Lowest(FreeServers)
           IN  /\ server' = [server EXCEPT ![new] = [NoServer EXCEPT !.ip = ip]]
               /\ Insert(c, g, new)
  /\ UNCHANGED <<groups, group, w, network, torn, closed, sent>>

(* "password", and a word that is no command of the mode: the mode stays,  *)
(* its data do not.                                                        *)
cli_wccp_password(c) ==
  /\ Command(c) /\ cli[c].mode = "wccp" /\ cli[c].data # NULL
  /\ cli' = [cli EXCEPT ![c].data = NULL]
  /\ UNCHANGED <<lists, w, network, history>>

cli_exit_wccp_mode(c) ==
  /\ Command(c) /\ cli[c].mode = "wccp"
  /\ cli' = [cli EXCEPT ![c].mode = "global", ![c].data = NULL]
  /\ UNCHANGED <<lists, w, network, history>>

\* A message of group h is being built.
Building(h) == w.g = h /\ w.pc \in {"here_i_am", "redirect_assign"}

ListHead(h) == IF h = GROUPS THEN groups ELSE group[h].servers

(* insert_list_item reads the end of the list, links the item behind it    *)
(* and counts it; no lock is taken.                                        *)
insert_load(c) ==
  LET h == ListHead(cli[c].head)
  IN
  /\ cli[c].pc = "load"
  /\ cli' = [cli EXCEPT ![c].pc = "link", ![c].tail = IF h.next = NULL THEN NULL ELSE h.prev]
  /\ UNCHANGED <<lists, commands, w, network, history>>

LinkedHead(h, tail, item) ==
  [h EXCEPT !.next = IF tail = NULL THEN item ELSE @, !.prev = item]
LinkedItems(items, tail, item) ==
  [x \in DOMAIN items |-> IF x = tail THEN [items[x] EXCEPT !.next = item] ELSE items[x]]

insert_link(c) ==
  LET i == cli[c].item
      h == cli[c].head
  IN
  /\ cli[c].pc = "link"
  /\ cli' = [cli EXCEPT ![c].pc = "count", ![c].n = ListHead(h).count]
  /\ \/ /\ h = GROUPS
        /\ groups' = LinkedHead(groups, cli[c].tail, i)
        /\ group' = LinkedItems(group, cli[c].tail, i)
        /\ UNCHANGED <<server, torn>>
     \/ /\ h # GROUPS
        /\ group' = [group EXCEPT ![h].servers = LinkedHead(@, cli[c].tail, i)]
        /\ server' = LinkedItems(server, cli[c].tail, i)
        /\ torn' = (torn \/ Building(h))
        /\ UNCHANGED groups
  /\ UNCHANGED <<commands, w, network, raced, closed, sent>>

\* Mutant of insert_count: the count of an empty list is set to 1 by the next item too.
insert_count_once(c) ==
  LET h == cli[c].head
  IN
  /\ cli[c].pc = "count"
  /\ \/ h = GROUPS /\ groups' = [groups EXCEPT !.count = 1] /\ UNCHANGED group
     \/ /\ h # GROUPS
        /\ group' = [group EXCEPT ![h].servers.count = 1]
        /\ UNCHANGED groups
  /\ cli' = [cli EXCEPT ![c] =
               [IdleClient EXCEPT !.mode = "wccp",
                                  !.data = IF h = GROUPS THEN cli[c].item ELSE h]]
  /\ UNCHANGED <<server, commands, w, network, history>>

(* The last step, after which the command returns the mode and its data.   *)
insert_count(c) ==
  LET h == cli[c].head
  IN
  /\ cli[c].pc = "count"
  /\ \/ /\ h = GROUPS
        /\ groups' = [groups EXCEPT !.count = cli[c].n + 1]
        /\ UNCHANGED <<group, torn>>
     \/ /\ h # GROUPS
        /\ group' = [group EXCEPT ![h].servers.count = cli[c].n + 1]
        /\ torn' = (torn \/ Building(h))
        /\ UNCHANGED groups
  /\ cli' = [cli EXCEPT ![c] =
               [IdleClient EXCEPT !.mode = "wccp",
                                  !.data = IF h = GROUPS THEN cli[c].item ELSE h]]
  /\ UNCHANGED <<server, commands, w, network, raced, closed, sent>>

ClientStep(c) == insert_load(c) \/ insert_link(c) \/ insert_count(c)

-----------------------------------------------------------------------------
(* The WCCP thread: epoll_handler and its timeout function *)

(* The timeout function walks on to the first server that is due, from     *)
(* server s of group g or a later group on; without one the events follow. *)
DueIn(s, due) == FirstIn(ServersFrom(s), due)
DueGroup(g, due) ==
  FirstIn(GroupsFrom(g), {x \in Group : DueIn(group[x].servers.next, due) # NULL})
At(g, s, due) ==
  [w EXCEPT !.pc = IF g = NULL THEN "events" ELSE "server",
            !.g = g, !.s = s, !.n = 0, !.due = due]
FromGroup(g, due) ==
  IF g = NULL THEN At(NULL, NULL, due) ELSE At(g, DueIn(group[g].servers.next, due), due)
\* Mutant of WalkOn: only the first server of a group is looked at.
WalkOn_first(g, s, due) == FromGroup(DueGroup(group[g].next, due), due)

WalkOn(g, s, due) ==
  IF DueIn(s, due) # NULL THEN At(g, DueIn(s, due), due)
                          ELSE FromGroup(DueGroup(group[g].next, due), due)

(* epoll_wait returns, with events or after nine seconds; either way the   *)
(* timeout function comes first.  It reads the clock once: due are servers *)
(* processed, or made, nine seconds before.  A socket whose error a send   *)
(* has taken meanwhile is not reported.                                    *)
epoll_wait(due) ==
  /\ w.pc = "wait" /\ due \cap FreeServers = {}
  /\ LET ready == {d \in edge : inbox[d] # <<>> \/ d \in failed}
     IN  w' = [FromGroup(DueGroup(groups.next, due), due)
                 EXCEPT !.events = ready, !.errs = ready \cap failed]
  /\ edge' = {}
  /\ UNCHANGED <<lists, cli, commands, fdt, inbox, failed, buf, acts, history>>

\* Mutant of wccp_open: the socket of a failed connect is kept though it is closed.
wccp_open_kept ==
  LET s == w.s
      d == Lowest(FreeFds)
  IN
  /\ w.pc = "server" /\ server[s].sock = 0 /\ FreeFds # {}
  /\ server' = [server EXCEPT ![s].sock = d]
  /\ fdt' = [fdt EXCEPT ![d] = s] \/ UNCHANGED fdt
  /\ w' = WalkOn(w.g, server[s].next, w.due \ {s})
  /\ sent' = NULL
  /\ UNCHANGED <<groups, group, cli, commands, inbox, edge, failed, buf, acts,
                 raced, torn, closed>>

(* wccp_process_server without a socket; the connect may fail.             *)
wccp_open ==
  LET s == w.s
      d == Lowest(FreeFds)
  IN
  /\ w.pc = "server" /\ server[s].sock = 0 /\ FreeFds # {}
  /\ \/ /\ server' = [server EXCEPT ![s].sock = d]
        /\ fdt' = [fdt EXCEPT ![d] = s]
     \/ UNCHANGED <<server, fdt>>
  /\ w' = WalkOn(w.g, server[s].next, w.due \ {s})
  /\ sent' = NULL
  /\ UNCHANGED <<groups, group, cli, commands, inbox, edge, failed, buf, acts,
                 raced, torn, closed>>

\* A client is between linking and counting a server of g.
Adding(g) == \E c \in Client : cli[c].pc = "count" /\ cli[c].head = g

\* Mutant of wccp_hello: the number of web-caches is taken for that of routers.
wccp_hello_caches ==
  /\ w.pc = "server" /\ server[w.s].sock # 0
  /\ w' = [w EXCEPT !.pc = "here_i_am", !.n = Len(group[w.g].caches)]
  /\ torn' = Adding(w.g) /\ sent' = NULL
  /\ UNCHANGED <<lists, cli, commands, network, raced, closed>>

(* With a socket a Here I Am is begun: the number of routers is read, ...  *)
wccp_hello ==
  /\ w.pc = "server" /\ server[w.s].sock # 0
  /\ w' = [w EXCEPT !.pc = "here_i_am", !.n = group[w.g].servers.count]
  /\ torn' = Adding(w.g) /\ sent' = NULL
  /\ UNCHANGED <<lists, cli, commands, network, raced, closed>>

(* ... the routers are listed, the place of the web-caches is found from   *)
(* the number of routers, read again, and the message is sent.  A send     *)
(* over a closed descriptor, or one that takes the socket's error, sends   *)
(* nothing.                                                                *)
Send ==
  LET d == server[w.s].sock
      at == ServerList(w.g)
  IN
  /\ failed' = failed \ {d}
  /\ sent' = IF fdt[d] = NULL \/ d \in failed THEN NULL
             ELSE [for |-> w.s, to |-> fdt[d], g |-> w.g, n |-> w.n,
                   routers |-> Items(at), m |-> group[w.g].servers.count, torn |-> torn]

wccp_here_i_am ==
  /\ w.pc = "here_i_am"
  /\ Send
  /\ w' = [w EXCEPT !.pc = "redirect_assign", !.n = group[w.g].servers.count]
  /\ UNCHANGED <<lists, cli, commands, fdt, inbox, edge, buf, acts,
                 raced, torn, closed>>

(* The Redirect Assign is built the same way.                              *)
wccp_redirect_assign ==
  /\ w.pc = "redirect_assign"
  /\ Send
  /\ torn' = FALSE
  /\ w' = WalkOn(w.g, server[w.s].next, w.due \ {w.s})
  /\ UNCHANGED <<lists, cli, commands, fdt, inbox, edge, buf, acts,
                 raced, closed>>

-----------------------------------------------------------------------------
(* I See You *)

\* htons and ntohs on this host, and what an 8-bit field keeps of them.
htons(x) == IF LittleEndian THEN (x % 256) * 256 + x \div 256 ELSE x
wire_id(id) == htons(id) % 256          \* service_id of a message
group_id(sid) == htons(sid) % 256       \* the parameter of find_wccp_service_group

(* The loop over the web-caches of a view never moves on from the first.   *)
AddCaches(have, view) ==
  IF view = <<>> \/ (\E n \in DOMAIN have : have[n] = view[1])
    THEN have ELSE Append(have, view[1])

(* A view with a new change number is taken over.                          *)
process_wccp_router_view_component(g, m) ==
  IF m.change = group[g].change THEN group
  ELSE [group EXCEPT ![g].change = m.change, ![g].caches = AddCaches(@, m.view)]

(* The group a message is for and the server it is from, or it is dropped. *)
Addressed(m) == IF m = NULL THEN NULL ELSE find_wccp_service_group(group_id(m.sid))
\* Mutant of Sender: the first server of the group.
Sender_first(m, g) == IF g = NULL THEN NULL ELSE group[g].servers.next

Sender(m, g) == IF g = NULL THEN NULL ELSE find_wccp_server(g, m.ip)

Handle(m, g, s) ==
  \/ /\ s # NULL
     /\ server' = [server EXCEPT ![s].router_id = m.id]
     /\ group' = process_wccp_router_view_component(g, m)
  \/ s = NULL /\ UNCHANGED <<group, server>>

wccp_handler(m) == Handle(m, Addressed(m), Sender(m, Addressed(m)))

\* The socket d is closed; its server keeps the number.
Close(d) ==
  /\ fdt' = [fdt EXCEPT ![d] = NULL]
  /\ inbox' = [inbox EXCEPT ![d] = <<>>]
  /\ failed' = failed \ {d} /\ edge' = edge \ {d}
  /\ closed' = closed \cup {fdt[d]}

(* An event with an error closes the socket.                               *)
epoll_error(d) ==
  /\ w.pc = "events" /\ d \in w.errs
  /\ Close(d)
  /\ w' = [w EXCEPT !.events = @ \ {d}, !.errs = @ \ {d}]
  /\ sent' = NULL
  /\ UNCHANGED <<lists, cli, commands, buf, acts, raced, torn>>

(* Otherwise all messages are read, each over the one before, and the last *)
(* one is handled.                                                         *)
epoll_receive(d) ==
  /\ w.pc = "events" /\ d \in w.events \ w.errs /\ d \notin failed
  /\ buf' = IF inbox[d] = <<>> THEN buf ELSE inbox[d][Len(inbox[d])]
  /\ inbox' = [inbox EXCEPT ![d] = <<>>]
  /\ wccp_handler(buf')
  /\ w' = [w EXCEPT !.events = @ \ {d}]
  /\ sent' = NULL
  /\ UNCHANGED <<groups, cli, commands, fdt, edge, failed, acts, raced, torn, closed>>

(* An error that came after epoll_wait makes the recv fail: what is in the *)
(* buffer from before is handled again, and the socket closed.             *)
epoll_receive_fails(d) ==
  /\ w.pc = "events" /\ d \in w.events \ w.errs /\ d \in failed
  /\ wccp_handler(buf)
  /\ Close(d)
  /\ w' = [w EXCEPT !.events = @ \ {d}]
  /\ sent' = NULL
  /\ UNCHANGED <<groups, cli, commands, buf, acts, raced, torn>>

epoll_again ==
  /\ w.pc = "events" /\ w.events = {}
  /\ w' = Waiting /\ sent' = NULL
  /\ UNCHANGED <<lists, cli, commands, network, raced, torn, closed>>

-----------------------------------------------------------------------------
(* What the network does *)

\* An I See You of the router at the other end of d, which counts its changes from 1 on.
\* Of its receive ID, which the code calls router_id, the model only has whose it is.
i_see_you(d, id, change, view) ==
  /\ fdt[d] # NULL /\ acts < MaxActs /\ change <= acts + 1
  /\ inbox' = [inbox EXCEPT ![d] = Append(@, [sid |-> wire_id(id), ip |-> server[fdt[d]].ip,
                    id |-> server[fdt[d]].ip, change |-> change, view |-> view])]
  /\ edge' = edge \cup {d}
  /\ acts' = acts + 1
  /\ UNCHANGED <<lists, cli, commands, w, fdt, failed, buf, history>>

\* An ICMP message.
port_unreachable(d) ==
  /\ fdt[d] # NULL /\ acts < MaxActs
  /\ failed' = failed \cup {d} /\ edge' = edge \cup {d}
  /\ acts' = acts + 1
  /\ UNCHANGED <<lists, cli, commands, w, fdt, inbox, buf, history>>

-----------------------------------------------------------------------------
WccpStep ==
  \/ (\E due \in SUBSET Server : epoll_wait(due)) \/ wccp_open
  \/ wccp_hello \/ wccp_here_i_am \/ wccp_redirect_assign
  \/ \E d \in Fd : epoll_error(d) \/ epoll_receive(d) \/ epoll_receive_fails(d)
  \/ epoll_again

Next ==
  \/ \E c \in Client :
       \/ ClientStep(c)
       \/ \E id \in GroupId : cli_enter_wccp_mode(c, id)
       \/ \E ip \in Ip : cli_wccp_server(c, ip)
       \/ cli_wccp_password(c)
       \/ cli_exit_wccp_mode(c)
  \/ WccpStep
  \/ \E d \in Fd :
       \/ \E id \in GroupId, n \in Number, v \in View : i_see_you(d, id, n, v)
       \/ port_unreachable(d)

Spec == Init /\ [][Next]_vars

(* The threads run (the WCCP thread always has a step to take, so weak     *)
(* fairness is that it takes steps forever) and a server is due again and  *)
(* again: epoll_wait returns after nine seconds at the latest.             *)
FairSpec ==
  /\ Spec
  /\ []<><<WccpStep>>_w
  /\ \A c \in Client : WF_vars(ClientStep(c))
  /\ \A s \in Server : []<>(s \in FreeServers \cup w.due)

-----------------------------------------------------------------------------
(* Properties *)

ListHeadType(Item) == [next : Item \cup {NULL}, prev : Item \cup {NULL}, count : Nat]
MessageType ==
  [sid : 0 .. 255, ip : Ip, id : Ip, change : Number, view : View]
(* Type correctness. *)
TypeOK ==
  /\ groups \in ListHeadType(Group)
  /\ group \in [Group -> [id : GroupId \cup {NULL}, change : Number \cup {0},
                          servers : ListHeadType(Server), caches : Seq(Cache),
                          next : Group \cup {NULL}]]
  /\ server \in [Server -> [ip : Ip \cup {NULL}, router_id : Ip \cup {NULL},
                            sock : Fd \cup {0}, next : Server \cup {NULL}]]
  /\ cli \in [Client -> [pc : {"idle", "load", "link", "count"}, mode : {"global", "wccp"},
                         data : Group \cup {NULL}, head : Group \cup {GROUPS, NULL},
                         item : Nat \cup {NULL}, tail : Nat \cup {NULL}, n : Nat]]
  /\ w \in [pc : {"wait", "server", "here_i_am", "redirect_assign", "events"},
            g : Group \cup {NULL}, s : Server \cup {NULL}, n : Nat,
            due : SUBSET Server, events : SUBSET Fd, errs : SUBSET Fd]
  /\ fdt \in [Fd -> Server \cup {NULL}]
  /\ inbox \in [Fd -> Seq(MessageType)]
  /\ edge \subseteq Fd /\ failed \subseteq Fd
  /\ buf \in MessageType \cup {NULL}
  /\ commands \in 0 .. MaxCommands /\ acts \in 0 .. MaxActs
  /\ raced \in BOOLEAN /\ torn \in BOOLEAN /\ closed \subseteq Server

(* Unless two clients were adding to one list at the same time, every      *)
(* group and server that a command has added is in its list, once, counted *)
(* once, and there is one for each number and address: insert_list_item    *)
(* and the look-up before it take no lock.  No web-cache is twice in the   *)
(* list of a group, however often views of it come: the WCCP thread alone  *)
(* adds them (process_wccp_router_view_component), and looks first.        *)
Counting(h) == {c \in Client : cli[c].pc = "count" /\ cli[c].head = h}
ListsIntact ==
  /\ TypeOK
  /\ ~ raced =>
      /\ groups.count + Cardinality(Counting(GROUPS)) = Cardinality(Items(GroupList))
      /\ \A g \in Group :
           /\ group[g].servers.count + Cardinality(Counting(g)) = Cardinality(Items(ServerList(g)))
           /\ \A s, t \in Items(ServerList(g)) : server[s].ip = server[t].ip => s = t
           /\ g \notin FreeGroups => \/ g \in Items(GroupList)
                              \/ \E c \in Client : cli[c].head = GROUPS /\ cli[c].item = g
      /\ \A g, h \in Group : g \notin FreeGroups /\ group[g].id = group[h].id => g = h
  /\ \A g \in Group : \A m, n \in DOMAIN group[g].caches :
       group[g].caches[m] = group[g].caches[n] => m = n

(* What the routers tell is put down to them: a server has the ID its own  *)
(* router sent, also when the message is one read before, over another     *)
(* socket, and handled again (epoll_handler's buffer outlives a failed     *)
(* recv), and a group whose view has changed has heard of a server that is *)
(* still in its list, unless two clients were adding to the list at once.  *)
RoutersHeard ==
  /\ \A s \in Server : server[s].router_id \in {NULL, server[s].ip}
  /\ ~ raced =>
      \A g \in Group : group[g].change # 0 \/ group[g].caches # <<>> =>
        \E s \in Items(ServerList(g)) : server[s].router_id # NULL

(* The socket of a server is connected to it, and no message goes to       *)
(* another one, unless epoll_handler has closed the socket: the server     *)
(* keeps the number, which may be another server's by then.                *)
OwnSocket ==
  /\ \A s \in Server : server[s].sock # 0 /\ s \notin closed => fdt[server[s].sock] = s
  /\ sent # NULL /\ sent.for \notin closed => sent.to = sent.for

(* A message lists as many routers as it says, and has the web-caches      *)
(* right behind them, unless a client was adding a server meanwhile: the   *)
(* number is read twice and the list walked in between.                    *)
WellFormed ==
  sent # NULL /\ ~ sent.torn /\ ~ raced =>
    sent.n = Cardinality(sent.routers) /\ sent.m = sent.n

(* A server with a socket is sent messages, unless a race of two clients   *)
(* lost it from the list or its socket was closed.                         *)
HellosSent ==
  \A s \in Server :
    server[s].sock # 0 ~> \/ sent # NULL /\ sent.for = s /\ sent.to = s
                         \/ raced \/ s \in closed

=============================================================================
