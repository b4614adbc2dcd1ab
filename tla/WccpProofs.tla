----------------------------- MODULE WccpProofs -----------------------------
(***************************************************************************)
(* What the WCCP subsystem keeps, for any number of groups, servers,       *)
(* clients, descriptors, commands and messages:                            *)
(*   - RoutersAreHeard: a server has its own router's ID, and no group     *)
(*     learns but from a server of its list;                               *)
(*   - SocketsAreOwn: a socket that epoll_handler did not close is its     *)
(*     server's;                                                           *)
(*   - ListsKeptIntact and MessagesWellFormed: without two clients at one  *)
(*     list the lists hold what was added, and messages list their routers.*)
(* The inductive invariant is Steady (types, and which items, descriptors  *)
(* and events the threads hold) with, for the lists, Intact.  A list is    *)
(* described without its order of traversal: malloc hands out ascending    *)
(* items, so Chain says that each item links to the next higher one of the *)
(* set, and ChainItems that walking such links meets exactly the set.      *)
(***************************************************************************)
EXTENDS Wccp, TLAPS

\* The prover of a step that names no other.
USE Zenon

\* What the proofs take from the library: a set of numbers has a least one, and
\* sizes of sets.  It is proved at the end, and only there the library is in sight.
LeastNumber == \A T \in SUBSET Nat : T # {} => \E x \in T : \A y \in T : x <= y
FewElements == IsFiniteSet({}) /\ Cardinality({}) = 0 /\ \A x : Cardinality({x}) = 1
Intervals == \A n \in Nat : IsFiniteSet(1 .. n) /\ Cardinality(1 .. n) = n
FiniteParts == \A S : IsFiniteSet(S) => \A T \in SUBSET S : IsFiniteSet(T)
FiniteGrow == \A S, x : IsFiniteSet(S) =>
  /\ IsFiniteSet(S \cup {x})
  /\ Cardinality(S \cup {x}) = IF x \in S THEN Cardinality(S) ELSE Cardinality(S) + 1
Library == LeastNumber /\ FewElements /\ Intervals /\ FiniteParts /\ FiniteGrow

(* Numbers have a least one of each kind: the induction of what follows. *)
LEMMA Least ==
  ASSUME Library, NEW T \in SUBSET Nat, T # {}
  PROVE  \E x \in T : \A y \in T : x <= y
BY DEF Library, LeastNumber

(* What is known of the sizes of sets. *)
LEMMA Small ==
  ASSUME Library
  PROVE  /\ IsFiniteSet({}) /\ Cardinality({}) = 0 /\ \A x : Cardinality({x}) = 1
         /\ \A n \in Nat : IsFiniteSet(1 .. n) /\ Cardinality(1 .. n) = n
BY DEF Library, FewElements, Intervals

(* One more element: the set stays finite, and grows by one if it is new. *)
LEMMA AddElement ==
  ASSUME Library, NEW S, IsFiniteSet(S), NEW x
  PROVE  /\ IsFiniteSet(S \cup {x})
         /\ Cardinality(S \cup {x}) = IF x \in S THEN Cardinality(S) ELSE Cardinality(S) + 1
BY DEF Library, FiniteGrow

(* A part of a finite set is finite. *)
LEMMA Subset ==
  ASSUME Library, NEW S, IsFiniteSet(S), NEW T \in SUBSET S
  PROVE  IsFiniteSet(T)
BY DEF Library, FiniteParts

(* What malloc and socket return is one of those that are free. *)
LEMMA LowestFree ==
  ASSUME Library, NEW S \in SUBSET Nat, S # {}
  PROVE  Lowest(S) \in S /\ \A y \in S : Lowest(S) <= y
BY Least DEF Lowest

\* path is what following next from first leads to, in C - 1 steps.
Follows(path, first, next, C) ==
  path = [n \in 1 .. C |-> IF n = 1 THEN first ELSE next[path[n - 1]]]

(* There is such a path. *)
LEMMA FollowExists ==
  ASSUME Library, NEW X, NEW first \in X, NEW next \in [X -> X], NEW C \in Nat
  PROVE  \E path \in [1 .. C -> X] : Follows(path, first, next, C)
<1> DEFINE Bad == {k \in Nat : ~ \E path \in [1 .. k -> X] : Follows(path, first, next, k)}
<1> SUFFICES ASSUME Bad # {} PROVE FALSE
  OBVIOUS
<1>1. PICK k \in Bad : \A j \in Bad : k <= j
  BY Least
<1>2. CASE k = 0
  <2> DEFINE f == [n \in 1 .. 0 |-> first]
  <2>1. f \in [1 .. 0 -> X] /\ Follows(f, first, next, 0)
    BY SMT DEF Follows
  <2> QED
    BY <1>2, <2>1
<1>3. CASE k # 0
  <2>1. k \in Nat /\ k - 1 \in Nat /\ k - 1 \notin Bad
    BY <1>1, <1>3, SMT
  <2>2. PICK path \in [1 .. k - 1 -> X] : Follows(path, first, next, k - 1)
    BY <2>1
  <2> DEFINE last == IF k = 1 THEN first ELSE next[path[k - 1]]
             f == [n \in 1 .. k |-> IF n = k THEN last ELSE path[n]]
  <2>3. last \in X
    BY <1>3, <2>1, <2>2, SMT
  <2> HIDE DEF last
  <2>4. f \in [1 .. k -> X]
    BY <2>1, <2>2, <2>3, SMT
  <2>5. ASSUME NEW n \in 1 .. k PROVE f[n] = IF n = 1 THEN first ELSE next[f[n - 1]]
    <3>1. CASE n = k
      BY <1>3, <2>1, <2>2, <3>1, SMT DEF Follows, last
    <3>2. CASE n # k
      BY <1>3, <2>1, <2>2, <3>2, SMT DEF Follows
    <3> QED
      BY <3>1, <3>2
  <2>6. Follows(f, first, next, k)
    BY <2>4, <2>5 DEF Follows
  <2> QED
    BY <2>4, <2>6
<1> QED
  BY <1>2, <1>3

(* Nth is that path. *)
LEMMA NthFollows ==
  ASSUME Library, NEW X, NEW first \in X, NEW next \in [X -> X], NEW C \in Nat, C = Cardinality(X)
  PROVE  /\ Nth(first, next) \in [1 .. C -> X]
         /\ \A n \in 1 .. C :
              Nth(first, next)[n] = IF n = 1 THEN first ELSE next[Nth(first, next)[n - 1]]
<1> DEFINE D == Cardinality(DOMAIN next)
           G(p) == p = [n \in 1 .. D |-> IF n = 1 THEN first ELSE next[p[n - 1]]]
           at == Nth(first, next)
<1>1. at = CHOOSE p : G(p)
  BY DEF Nth
<1>2. D = C
  OBVIOUS
<1> HIDE DEF D
<1>3. PICK path \in [1 .. C -> X] : Follows(path, first, next, C)
  BY FollowExists
<1>4. G(path)
  BY <1>2, <1>3 DEF Follows
<1> HIDE DEF G
<1>5. G(at)
  BY <1>1, <1>4
<1> HIDE DEF at
<1>6. ASSUME NEW m \in 1 .. C, at[m] \notin X PROVE FALSE
  <2> DEFINE Bad == {n \in Nat : n \in 1 .. C /\ at[n] \notin X}
  <2>1. Bad # {} /\ Bad \in SUBSET Nat
    BY <1>6, SMT
  <2>2. PICK k \in Bad : \A j \in Bad : k <= j
    BY <2>1, Least
  <2>3. CASE k = 1
    BY <1>2, <1>5, <2>2, <2>3 DEF G
  <2>4. CASE k # 1
    BY <1>2, <1>5, <2>2, <2>4, SMT DEF G
  <2> QED
    BY <2>3, <2>4
<1> QED
  BY <1>2, <1>5, <1>6 DEF at, G

(* FirstIn finds an item of S if there is one. *)
LEMMA FirstInIs ==
  ASSUME Library, NEW C \in Nat, NEW X, NEW at \in [1 .. C -> X], NEW S, NULL \notin S
  PROVE  /\ FirstIn(at, S) # NULL => FirstIn(at, S) \in S /\ FirstIn(at, S) \in Items(at)
         /\ FirstIn(at, S) = NULL => \A x \in Items(at) : x \notin S
<1> DEFINE hits == {n \in DOMAIN at : at[n] \in S}
           n0 == CHOOSE n \in hits : \A m \in hits : n <= m
<1>1. hits \in SUBSET Nat
  BY SMT
<1>2. CASE hits = {}
  BY <1>2 DEF Items, FirstIn
<1>3. CASE hits # {}
  BY <1>1, <1>3, Least DEF Items, FirstIn
<1> QED
  BY <1>2, <1>3

-----------------------------------------------------------------------------
(* The invariant, as far as it holds whatever races there were *)

GroupType ==
  [id : GroupId \cup {NULL}, change : Number \cup {0}, servers : ListHeadType(Server),
   caches : Seq(Cache), next : Group \cup {NULL}]
ServerType ==
  [ip : Ip \cup {NULL}, router_id : Ip \cup {NULL}, sock : Fd \cup {0},
   next : Server \cup {NULL}]
ClientType ==
  [pc : {"idle", "load", "link", "count"}, mode : {"global", "wccp"},
   data : Group \cup {NULL}, head : Group \cup {GROUPS, NULL},
   item : Nat \cup {NULL}, tail : Nat \cup {NULL}, n : Nat]
ThreadType ==
  [pc : {"wait", "server", "here_i_am", "redirect_assign", "events"},
   g : Group \cup {NULL}, s : Server \cup {NULL}, n : Nat,
   due : SUBSET Server, events : SUBSET Fd, errs : SUBSET Fd]

\* A message has the ID of the router whose address it has.
Heard == {m \in MessageType : m.id = m.ip}

ListsTyped ==
  /\ groups \in ListHeadType(Group)
  /\ group \in [Group -> GroupType] /\ server \in [Server -> ServerType]
ClientsTyped ==
  /\ cli \in [Client -> ClientType] /\ commands \in 0 .. MaxCommands
NetworkTyped ==
  /\ fdt \in [Fd -> Server \cup {NULL}] /\ inbox \in [Fd -> Seq(Heard)]
  /\ edge \subseteq Fd /\ failed \subseteq Fd
  /\ buf \in Heard \cup {NULL} /\ acts \in 0 .. MaxActs
HistoryTyped == raced \in BOOLEAN /\ torn \in BOOLEAN /\ closed \subseteq Server

\* What a client is adding has been made, and fits its list.
Adds(x) ==
  x.pc # "idle" =>
    /\ x.head \in Group \cup {GROUPS}
    /\ x.head = GROUPS => x.item \in Group /\ group[x.item].id # NULL
    /\ x.head # GROUPS => x.item \in Server /\ server[x.item].ip # NULL
ClientsAdd == \A c \in Client : Adds(cli[c])

\* The WCCP thread is at a server that exists, and its events are of open sockets.
Opened == {d \in Fd : fdt[d] # NULL}
AtServer(pc) == pc \in {"server", "here_i_am", "redirect_assign"}
ThreadFits(x) ==
  /\ x \in ThreadType
  /\ x.due \cap FreeServers = {}
  /\ AtServer(x.pc) => x.g \in Group /\ x.s \in Server \ FreeServers
  /\ x.pc \in {"here_i_am", "redirect_assign"} => server[x.s].sock # 0
  /\ x.errs \subseteq x.events /\ x.events \subseteq Opened
SocketsFit ==
  /\ \A d \in Opened : server[fdt[d]].ip # NULL
  /\ edge \subseteq Opened

Typed == ListsTyped /\ ClientsTyped /\ NetworkTyped /\ HistoryTyped
Steady == Typed /\ ClientsAdd /\ ThreadFits(w) /\ SocketsFit

(* Steady has the types. *)
LEMMA SteadyTypeOK == Steady => TypeOK
<1> SUFFICES ASSUME Steady PROVE TypeOK
  OBVIOUS
<1>1. Heard \subseteq MessageType
  BY DEF Heard
<1> QED
  BY <1>1, SMT DEF Steady, Typed, ListsTyped, ClientsTyped, NetworkTyped, HistoryTyped, ThreadFits,
     TypeOK, GroupType, ServerType, ClientType, ThreadType

(* The assumptions, one by one. *)
LEMMA Sizes ==
  /\ Group \subseteq Nat /\ Server \subseteq Nat /\ Fd \subseteq Nat
  /\ GROUPS \notin Group /\ GROUPS # NULL /\ NULL \notin Group /\ NULL \notin Server
  /\ NULL \notin Fd /\ NULL \notin GroupId /\ NULL \notin Ip /\ 0 \notin Fd
<1>1. /\ GroupId \subseteq 0 .. 254 /\ MaxGroups \in Nat /\ MaxServers \in Nat /\ MaxFd \in Nat
      /\ NULL \notin Nat /\ NULL \notin Ip
  BY WccpAssumption
<1>2. Group \subseteq Nat /\ Server \subseteq Nat /\ Fd \subseteq Nat /\ GroupId \subseteq Nat
  BY <1>1, SMT DEF Group, Server, Fd
<1>3. GROUPS \notin Group /\ 0 \notin Fd /\ GROUPS \in Nat
  BY <1>1, SMT DEF Group, Fd, GROUPS
<1> QED
  BY <1>1, <1>2, <1>3

(* There are that many groups and servers, and no more. *)
LEMMA Numbers ==
  ASSUME Library
  PROVE  /\ IsFiniteSet(Group) /\ IsFiniteSet(Server)
         /\ Cardinality(Group \cup {NULL}) = MaxGroups + 1
         /\ Cardinality(Server \cup {NULL}) = MaxServers + 1
<1>1. IsFiniteSet(Group) /\ Cardinality(Group) = MaxGroups
  BY Small, WccpAssumption DEF Group
<1>2. IsFiniteSet(Server) /\ Cardinality(Server) = MaxServers
  BY Small, WccpAssumption DEF Server
<1> QED
  BY <1>1, <1>2, AddElement, Sizes

GroupNext == [x \in Group \cup {NULL} |-> IF x = NULL THEN NULL ELSE group[x].next]
ServerNext == [x \in Server \cup {NULL} |-> IF x = NULL THEN NULL ELSE server[x].next]

(* The lists, whatever they look like, lead from item to item. *)
LEMMA ListPaths ==
  ASSUME Library, ListsTyped
  PROVE  /\ \A g \in Group \cup {NULL} :
              /\ GroupsFrom(g) \in [1 .. MaxGroups + 1 -> Group \cup {NULL}]
              /\ \A n \in 1 .. MaxGroups + 1 :
                   GroupsFrom(g)[n] = IF n = 1 THEN g ELSE GroupNext[GroupsFrom(g)[n - 1]]
         /\ \A s \in Server \cup {NULL} :
              /\ ServersFrom(s) \in [1 .. MaxServers + 1 -> Server \cup {NULL}]
              /\ \A n \in 1 .. MaxServers + 1 :
                   ServersFrom(s)[n] = IF n = 1 THEN s ELSE ServerNext[ServersFrom(s)[n - 1]]
<1>1. GroupNext \in [Group \cup {NULL} -> Group \cup {NULL}]
  BY Numbers, Sizes DEF GroupNext, ListsTyped, GroupType
<1>2. ServerNext \in [Server \cup {NULL} -> Server \cup {NULL}]
  BY Numbers, Sizes DEF ServerNext, ListsTyped, ServerType
<1>3. ASSUME NEW g \in Group \cup {NULL}
      PROVE  /\ GroupsFrom(g) \in [1 .. MaxGroups + 1 -> Group \cup {NULL}]
             /\ \A n \in 1 .. MaxGroups + 1 :
                  GroupsFrom(g)[n] = IF n = 1 THEN g ELSE GroupNext[GroupsFrom(g)[n - 1]]
  <2> DEFINE X == Group \cup {NULL}
             C == MaxGroups + 1
  <2>1. GroupNext \in [X -> X] /\ g \in X /\ C \in Nat /\ C = Cardinality(X)
    BY <1>1, Numbers, Sizes, WccpAssumption, SMT
  <2> HIDE DEF X, C
  <2>2. /\ Nth(g, GroupNext) \in [1 .. C -> X]
        /\ \A n \in 1 .. C :
             Nth(g, GroupNext)[n] = IF n = 1 THEN g ELSE GroupNext[Nth(g, GroupNext)[n - 1]]
    BY <2>1, NthFollows, SMT
  <2> QED
    BY <2>2 DEF X, C, GroupsFrom, GroupNext
<1>4. ASSUME NEW s \in Server \cup {NULL}
      PROVE  /\ ServersFrom(s) \in [1 .. MaxServers + 1 -> Server \cup {NULL}]
             /\ \A n \in 1 .. MaxServers + 1 :
                  ServersFrom(s)[n] = IF n = 1 THEN s ELSE ServerNext[ServersFrom(s)[n - 1]]
  <2> DEFINE X == Server \cup {NULL}
             C == MaxServers + 1
  <2>1. ServerNext \in [X -> X] /\ s \in X /\ C \in Nat /\ C = Cardinality(X)
    BY <1>2, Numbers, Sizes, WccpAssumption, SMT
  <2> HIDE DEF X, C
  <2>2. /\ Nth(s, ServerNext) \in [1 .. C -> X]
        /\ \A n \in 1 .. C :
             Nth(s, ServerNext)[n] = IF n = 1 THEN s ELSE ServerNext[Nth(s, ServerNext)[n - 1]]
    BY <2>1, NthFollows, SMT
  <2> QED
    BY <2>2 DEF X, C, ServersFrom, ServerNext
<1> QED
  BY <1>3, <1>4

(* What find_wccp_service_group and find_wccp_server return. *)
LEMMA Finds ==
  ASSUME Library, ListsTyped
  PROVE  /\ \A id \in GroupId \cup 0 .. 255 :
              LET g == find_wccp_service_group(id)
              IN  /\ g # NULL => g \in Group /\ group[g].id = id
                  /\ g = NULL => \A x \in Items(GroupList) : group[x].id # id
         /\ \A g \in Group, ip \in Ip :
              LET s == find_wccp_server(g, ip)
              IN  /\ s # NULL => s \in Server /\ server[s].ip = ip /\ s \in Items(ServerList(g))
                  /\ s = NULL => \A x \in Items(ServerList(g)) : server[x].ip # ip
<1>1. MaxGroups + 1 \in Nat /\ MaxServers + 1 \in Nat
  BY WccpAssumption, SMT
<1>2. ASSUME NEW id
      PROVE  LET g == find_wccp_service_group(id)
             IN  /\ g # NULL => g \in Group /\ group[g].id = id
                 /\ g = NULL => \A x \in Items(GroupList) : group[x].id # id
  <2> DEFINE at == GroupList
             S == {g \in Group : group[g].id = id}
  <2>1. at \in [1 .. MaxGroups + 1 -> Group \cup {NULL}] /\ NULL \notin S
    BY ListPaths, Sizes DEF GroupList, ListsTyped, ListHeadType
  <2> HIDE DEF at, S
  <2>2. /\ FirstIn(at, S) # NULL => FirstIn(at, S) \in S /\ FirstIn(at, S) \in Items(at)
        /\ FirstIn(at, S) = NULL => \A x \in Items(at) : x \notin S
    BY <1>1, <2>1, FirstInIs
  <2> QED
    BY <2>1, <2>2 DEF at, S, find_wccp_service_group, Items
<1>3. ASSUME NEW g \in Group, NEW ip \in Ip
      PROVE  LET s == find_wccp_server(g, ip)
             IN  /\ s # NULL => s \in Server /\ server[s].ip = ip /\ s \in Items(ServerList(g))
                 /\ s = NULL => \A x \in Items(ServerList(g)) : server[x].ip # ip
  <2> DEFINE at == ServerList(g)
             S == {s \in Server : server[s].ip = ip}
  <2>1. at \in [1 .. MaxServers + 1 -> Server \cup {NULL}] /\ NULL \notin S
    BY ListPaths, Sizes DEF ServerList, ListsTyped, ListHeadType, GroupType
  <2> HIDE DEF at, S
  <2>2. /\ FirstIn(at, S) # NULL => FirstIn(at, S) \in S /\ FirstIn(at, S) \in Items(at)
        /\ FirstIn(at, S) = NULL => \A x \in Items(at) : x \notin S
    BY <1>1, <2>1, FirstInIs
  <2> QED
    BY <2>1, <2>2 DEF at, S, find_wccp_server, Items
<1> QED
  BY <1>2, <1>3

\* Where the timeout function walks to: a server that is due, or the events.
Walks(x, due) ==
  /\ x \in ThreadType /\ x.due = due /\ x.events = w.events /\ x.errs = w.errs
  /\ \/ x.pc = "events"
     \/ x.pc = "server" /\ x.g \in Group /\ x.s \in due

(* The first server that is due, and the first group that has one. *)
LEMMA DueFirst ==
  ASSUME Library, ListsTyped, NEW due \in SUBSET Server
  PROVE  /\ \A s \in Server \cup {NULL} : DueIn(s, due) \in due \cup {NULL}
         /\ \A g \in Group \cup {NULL} :
              LET h == DueGroup(g, due)
              IN  h # NULL => h \in Group /\ DueIn(group[h].servers.next, due) # NULL
<1>1. MaxGroups + 1 \in Nat /\ MaxServers + 1 \in Nat
  BY WccpAssumption, SMT
<1>2. ASSUME NEW s \in Server \cup {NULL} PROVE DueIn(s, due) \in due \cup {NULL}
  BY <1>1, FirstInIs, ListPaths, Sizes DEF DueIn
<1>3. ASSUME NEW g \in Group \cup {NULL}
      PROVE  LET h == DueGroup(g, due)
             IN  h # NULL => h \in Group /\ DueIn(group[h].servers.next, due) # NULL
  <2> DEFINE S == {x \in Group : DueIn(group[x].servers.next, due) # NULL}
  <2>1. DueGroup(g, due) = FirstIn(GroupsFrom(g), S) /\ NULL \notin S
    BY Sizes DEF DueGroup
  <2> HIDE DEF S
  <2>2. FirstIn(GroupsFrom(g), S) # NULL => FirstIn(GroupsFrom(g), S) \in S
    BY <1>1, <2>1, FirstInIs, ListPaths
  <2> QED
    BY <2>1, <2>2 DEF S
<1> QED
  BY <1>2, <1>3

(* The record of the WCCP thread at a server, or at the events. *)
LEMMA AtWalks ==
  ASSUME w \in ThreadType, NEW due \in SUBSET Server
  PROVE  /\ Walks(At(NULL, NULL, due), due)
         /\ \A g \in Group, s \in due : Walks(At(g, s, due), due)
<1>1. Walks(At(NULL, NULL, due), due)
  BY Sizes DEF At, Walks, ThreadType
<1>2. ASSUME NEW g \in Group, NEW s \in due PROVE Walks(At(g, s, due), due)
  BY Sizes DEF At, Walks, ThreadType
<1> QED
  BY <1>1, <1>2

(* Walking on keeps to the servers that are due. *)
LEMMA WalkFits ==
  ASSUME Library, ListsTyped, w \in ThreadType, NEW due \in SUBSET Server
  PROVE  /\ \A g \in Group \cup {NULL} : Walks(FromGroup(DueGroup(g, due), due), due)
         /\ \A g \in Group, s \in Server \cup {NULL} : Walks(WalkOn(g, s, due), due)
<1>1. ASSUME NEW g \in Group \cup {NULL} PROVE Walks(FromGroup(DueGroup(g, due), due), due)
  <2> DEFINE h == DueGroup(g, due)
  <2>1. CASE h = NULL
    BY <2>1, AtWalks DEF FromGroup
  <2>2. CASE h # NULL
    <3>1. h \in Group /\ DueIn(group[h].servers.next, due) # NULL
      BY <2>2, DueFirst
    <3> QED
      BY <2>2, <3>1, AtWalks, DueFirst DEF FromGroup, ListsTyped, ListHeadType, GroupType
  <2> QED
    BY <2>1, <2>2
<1>2. ASSUME NEW g \in Group, NEW s \in Server \cup {NULL} PROVE Walks(WalkOn(g, s, due), due)
  BY <1>1, AtWalks, DueFirst DEF WalkOn, ListsTyped, GroupType
<1> QED
  BY <1>1, <1>2

-----------------------------------------------------------------------------
(* The steps of the clients keep Steady *)

\* What was made stays made, and a server with a socket keeps one.
Grown ==
  /\ \A g \in Group : group[g].id # NULL => group'[g].id # NULL
  /\ \A s \in Server : server[s].ip # NULL =>
       server'[s].ip # NULL /\ (server[s].sock # 0 => server'[s].sock # 0)

(* A client's step leaves what the others are adding. *)
LEMMA ClientsKept ==
  ASSUME Steady, Grown, NEW c \in Client, \A d \in Client \ {c} : cli'[d] = cli[d],
         Adds(cli[c])'
  PROVE  ClientsAdd'
<1>1. ASSUME NEW d \in Client, d # c PROVE Adds(cli[d])'
  BY <1>1 DEF Adds, Grown, Steady, ClientsAdd
<1> QED
  BY <1>1 DEF ClientsAdd

(* The WCCP thread stays where it is. *)
LEMMA ThreadKept ==
  ASSUME Steady, Grown, w' = w, \A d \in Opened : fdt'[d] = fdt[d]
  PROVE  ThreadFits(w)'
BY DEF ThreadFits, AtServer, Grown, FreeServers, Opened, Steady

(* The sockets stay what they are. *)
LEMMA SocketsKept ==
  ASSUME Steady, Grown, UNCHANGED <<fdt, edge>>
  PROVE  SocketsFit'
BY DEF Steady, SocketsFit, Grown, Opened, Typed, NetworkTyped

(* A client's record, with another step and what goes with it. *)
LEMMA ClientTyped ==
  ASSUME ClientsTyped, commands' \in 0 .. MaxCommands, NEW c \in Client, NEW x \in ClientType,
         cli' = [cli EXCEPT ![c] = x]
  PROVE  /\ ClientsTyped' /\ cli'[c] = x
         /\ \A d \in Client \ {c} : cli'[d] = cli[d]
BY DEF ClientsTyped

(* The number of commands stays in its bound. *)
LEMMA CommandCount ==
  ASSUME ClientsTyped, NEW c, Command(c)
  PROVE  commands' \in 0 .. MaxCommands
BY WccpAssumption, SMT DEF ClientsTyped, Command

(* A client starts to add an item. *)
LEMMA InsertTyped ==
  ASSUME Steady, NEW c \in Client, NEW h \in Group \cup {GROUPS}, NEW i \in Nat,
         commands' \in 0 .. MaxCommands, Insert(c, h, i)
  PROVE  /\ ClientsTyped' /\ raced' \in BOOLEAN
         /\ cli'[c].pc = "load" /\ cli'[c].head = h /\ cli'[c].item = i
         /\ cli'[c].data = cli[c].data
         /\ \A d \in Client \ {c} : cli'[d] = cli[d]
<1>1. cli[c] \in ClientType /\ ClientsTyped
  BY DEF Steady, Typed, ClientsTyped
<1>2. PICK x : x = [cli[c] EXCEPT !.pc = "load", !.head = h, !.item = i]
  OBVIOUS
<1> QED
  BY <1>1, <1>2, ClientTyped, SMT DEF Insert, ClientsTyped, ClientType

(* A step of a client that only changes its own record. *)
LEMMA OwnStep ==
  ASSUME Steady, UNCHANGED <<lists, w, network, history>>, NEW c \in Client, ClientsTyped',
         \A d \in Client \ {c} : cli'[d] = cli[d], Adds(cli[c])'
  PROVE  Steady'
BY ClientsKept, SocketsKept, ThreadKept DEF Steady, Typed, network, lists, history,
   ListsTyped, NetworkTyped, HistoryTyped, Grown

(* The commands that make nothing. *)
LEMMA ModeSteady ==
  ASSUME Steady, NEW c \in Client, cli_wccp_password(c) \/ cli_exit_wccp_mode(c)
  PROVE  Steady'
<1>1. cli[c] \in ClientType /\ ClientsTyped /\ Adds(cli[c])
  BY DEF Steady, Typed, ClientsTyped, ClientsAdd
<1>2. PICK x \in ClientType : cli' = [cli EXCEPT ![c] = x] /\ x.pc = "idle"
  <2>1. CASE cli_wccp_password(c)
    <3>1. [cli[c] EXCEPT !.data = NULL] \in ClientType /\ [cli[c] EXCEPT !.data = NULL].pc = "idle"
      BY <1>1 DEF ClientType, cli_wccp_password, cli_exit_wccp_mode, Command
    <3> QED
      BY <1>1, <2>1, <3>1 DEF cli_wccp_password, ClientsTyped
  <2>2. CASE cli_exit_wccp_mode(c)
    <3> DEFINE x == [cli[c] EXCEPT !.mode = "global", !.data = NULL]
    <3>1. x \in ClientType /\ x.pc = "idle"
      BY <1>1 DEF ClientType, cli_wccp_password, cli_exit_wccp_mode, Command
    <3> QED
      BY <1>1, <2>2, <3>1 DEF cli_exit_wccp_mode, ClientsTyped
  <2> QED
    BY <2>1, <2>2
<1>3. ClientsTyped' /\ cli'[c] = x /\ \A d \in Client \ {c} : cli'[d] = cli[d]
  BY <1>1, <1>2, ClientTyped, CommandCount DEF cli_wccp_password, cli_exit_wccp_mode
<1> QED
  BY <1>2, <1>3, OwnStep DEF Adds, cli_wccp_password, cli_exit_wccp_mode, Command

(* "wccp <service group>" *)
LEMMA EnterSteady ==
  ASSUME Library, Steady, NEW c \in Client, NEW id \in GroupId, cli_enter_wccp_mode(c, id)
  PROVE  Steady'
<1> DEFINE g == find_wccp_service_group(id)
<1>1. cli[c] \in ClientType /\ ClientsTyped /\ ListsTyped /\ HistoryTyped
  BY DEF Steady, Typed, ClientsTyped
<1>2. UNCHANGED <<groups, server, w, network, torn, closed, sent>>
  BY DEF cli_enter_wccp_mode
<1>3. CASE /\ g # NULL
           /\ cli' = [cli EXCEPT ![c].mode = "wccp", ![c].data = g]
           /\ UNCHANGED <<group, raced>>
  <2>1. g \in Group
    BY <1>1, <1>3, Finds
  <2> HIDE DEF g
  <2>2. PICK x : x = [cli[c] EXCEPT !.mode = "wccp", !.data = g]
    OBVIOUS
  <2>3. x \in ClientType /\ x.pc = "idle"
    BY <1>1, <2>1, <2>2, CommandCount DEF ClientType, cli_enter_wccp_mode, Command
  <2> QED
    BY <1>1, <1>2, <1>3, <2>2, <2>3, ClientTyped, CommandCount, OwnStep, SMT DEF lists, history,
       Adds, ClientsTyped, cli_enter_wccp_mode, Command
<1>4. CASE /\ FreeGroups # {}
           /\ group' = [group EXCEPT ![Lowest(FreeGroups)] = [NoGroup EXCEPT !.id = id]]
           /\ Insert(c, GROUPS, Lowest(FreeGroups))
  <2>1. PICK new \in Group : new = Lowest(FreeGroups) /\ group[new].id = NULL
    BY <1>4, LowestFree, Sizes DEF FreeGroups
  <2>2. PICK x : x = [NoGroup EXCEPT !.id = id]
    OBVIOUS
  <2>3. x \in GroupType /\ x.id = id /\ id # NULL
    <3>1. EmptyHead \in ListHeadType(Server) /\ << >> \in Seq(Cache)
      BY SMT DEF EmptyHead, ListHeadType
    <3> QED
      BY <2>2, <3>1, Sizes DEF GroupType, NoGroup
  <2>4. group' = [group EXCEPT ![new] = x] /\ new \in Nat
    BY <1>4, <2>1, <2>2, Sizes
  <2>5. /\ ClientsTyped' /\ raced' \in BOOLEAN
        /\ cli'[c].pc = "load" /\ cli'[c].head = GROUPS /\ cli'[c].item = new
        /\ \A d \in Client \ {c} : cli'[d] = cli[d]
    BY <1>1, <1>4, <2>1, <2>4, CommandCount, InsertTyped, SMT DEF cli_enter_wccp_mode, Command
  <2> QED
    BY <1>1, <1>2, <2>1, <2>3, <2>4, <2>5, ClientsKept, SocketsKept, ThreadKept DEF Steady,
       Typed, network, NetworkTyped, HistoryTyped, Adds, ListsTyped, Grown
<1> QED
  BY <1>3, <1>4 DEF cli_enter_wccp_mode

(* "server <ip address>" *)
LEMMA ServerSteady ==
  ASSUME Library, Steady, NEW c \in Client, NEW ip \in Ip, cli_wccp_server(c, ip)
  PROVE  Steady'
<1> DEFINE g == cli[c].data
<1>1. cli[c] \in ClientType /\ ClientsTyped /\ ListsTyped /\ HistoryTyped /\ g \in Group \cup {NULL}
  BY DEF Steady, Typed, ClientsTyped, ClientType
<1>2. CASE cli' = [cli EXCEPT ![c].mode = "global"] /\ UNCHANGED <<server, raced>>
  <2>1. PICK x : x = [cli[c] EXCEPT !.mode = "global"]
    OBVIOUS
  <2> QED
    BY <1>1, <1>2, <2>1, ClientTyped, CommandCount, OwnStep, SMT DEF lists, history, Adds,
       ClientsTyped, ClientType, cli_wccp_server, Command
<1>3. CASE /\ g # NULL /\ FreeServers # {}
           /\ server' = [server EXCEPT ![Lowest(FreeServers)] = [NoServer EXCEPT !.ip = ip]]
           /\ Insert(c, g, Lowest(FreeServers))
  <2>1. PICK new \in Server : new = Lowest(FreeServers) /\ server[new].ip = NULL
    BY <1>3, LowestFree, Sizes DEF FreeServers
  <2>2. PICK x : x = [NoServer EXCEPT !.ip = ip]
    OBVIOUS
  <2>3. x \in ServerType /\ x.ip = ip /\ ip # NULL
    BY <2>2, Sizes DEF NoServer, ServerType
  <2>4. server' = [server EXCEPT ![new] = x] /\ new \in Nat
    BY <1>3, <2>1, <2>2, Sizes
  <2>5. /\ ClientsTyped' /\ raced' \in BOOLEAN
        /\ cli'[c].pc = "load" /\ cli'[c].head = g /\ cli'[c].item = new
        /\ \A d \in Client \ {c} : cli'[d] = cli[d]
    BY <1>1, <1>3, <2>1, <2>4, CommandCount, InsertTyped, SMT DEF cli_wccp_server, Command
  <2>6. ClientsAdd'
    BY <1>1, <1>3, <2>1, <2>3, <2>4, <2>5, ClientsKept, Sizes, SMT DEF Adds, ListsTyped, Grown,
       cli_wccp_server
  <2> QED
    BY <1>1, <2>1, <2>3, <2>4, <2>5, <2>6, SocketsKept, ThreadKept DEF Steady, Typed,
       network, NetworkTyped, HistoryTyped, ListsTyped, Grown, cli_wccp_server
<1> QED
  BY <1>2, <1>3 DEF cli_wccp_server

(* insert_list_item reads the end of the list. *)
LEMMA LoadSteady ==
  ASSUME Steady, NEW c \in Client, insert_load(c)
  PROVE  Steady'
<1> DEFINE h == ListHead(cli[c].head)
           t == IF h.next = NULL THEN NULL ELSE h.prev
<1>1. /\ cli[c] \in ClientType /\ ClientsTyped /\ ListsTyped /\ Adds(cli[c])
      /\ cli[c].pc = "load" /\ commands' \in 0 .. MaxCommands
  BY DEF Steady, Typed, ClientsTyped, ClientsAdd, insert_load
<1>2. PICK y \in Nat \cup {NULL} : y = t
  BY <1>1, Sizes DEF ListHead, ListsTyped, ListHeadType, GroupType, Adds
<1>3. PICK x : x = [cli[c] EXCEPT !.pc = "link", !.tail = y]
  OBVIOUS
<1>4. /\ x \in ClientType /\ x.pc = "link" /\ x.head = cli[c].head /\ x.item = cli[c].item
  BY <1>1, <1>2, <1>3 DEF ClientType
<1>5. cli' = [cli EXCEPT ![c] = x]
  <2> HIDE DEF t
  <2> QED
    BY <1>1, <1>2, <1>3 DEF ClientsTyped, insert_load, t
<1>6. ClientsTyped' /\ cli'[c] = x /\ \A d \in Client \ {c} : cli'[d] = cli[d]
  BY <1>1, <1>4, <1>5, ClientTyped
<1> QED
  BY <1>1, <1>4, <1>6, OwnStep DEF Adds, lists, insert_load

(* What linking an item behind tail makes of a list. *)
LEMMA LinkedTyped ==
  ASSUME NEW Item, NEW h \in ListHeadType(Item), NEW i \in Item, NEW tail
  PROVE  /\ LinkedHead(h, tail, i) \in ListHeadType(Item)
         /\ LinkedHead(h, tail, i).next = IF tail = NULL THEN i ELSE h.next
         /\ LinkedHead(h, tail, i).prev = i
         /\ LinkedHead(h, tail, i).count = h.count
BY DEF LinkedHead, ListHeadType

(* Linking an item changes links only. *)
LEMMA LinksGroups ==
  ASSUME group \in [Group -> GroupType], NEW tail, NEW i \in Group
  PROVE  /\ LinkedItems(group, tail, i) \in [Group -> GroupType]
         /\ \A x \in Group :
              LET y == LinkedItems(group, tail, i)[x]
              IN  /\ y.id = group[x].id /\ y.change = group[x].change
                  /\ y.servers = group[x].servers /\ y.caches = group[x].caches
                  /\ y.next = IF x = tail THEN i ELSE group[x].next
<1> DEFINE f == LinkedItems(group, tail, i)
<1>1. f = [x \in Group |-> IF x = tail THEN [group[x] EXCEPT !.next = i] ELSE group[x]]
  BY DEF LinkedItems
<1> HIDE DEF f
<1>2. ASSUME NEW x \in Group
      PROVE  /\ f[x] \in GroupType
             /\ f[x].id = group[x].id /\ f[x].change = group[x].change
             /\ f[x].servers = group[x].servers /\ f[x].caches = group[x].caches
             /\ f[x].next = IF x = tail THEN i ELSE group[x].next
  <2>1. PICK r \in GroupType : r = group[x]
    OBVIOUS
  <2> QED
    BY <1>1, <2>1 DEF GroupType
<1> QED
  BY <1>1, <1>2 DEF f

(* The same of servers. *)
LEMMA LinksServers ==
  ASSUME server \in [Server -> ServerType], NEW tail, NEW i \in Server
  PROVE  /\ LinkedItems(server, tail, i) \in [Server -> ServerType]
         /\ \A x \in Server :
              LET y == LinkedItems(server, tail, i)[x]
              IN  /\ y.ip = server[x].ip /\ y.router_id = server[x].router_id
                  /\ y.sock = server[x].sock
                  /\ y.next = IF x = tail THEN i ELSE server[x].next
<1> DEFINE f == LinkedItems(server, tail, i)
<1>1. f = [x \in Server |-> IF x = tail THEN [server[x] EXCEPT !.next = i] ELSE server[x]]
  BY DEF LinkedItems
<1> HIDE DEF f
<1>2. ASSUME NEW x \in Server
      PROVE  /\ f[x] \in ServerType
             /\ f[x].ip = server[x].ip /\ f[x].router_id = server[x].router_id
             /\ f[x].sock = server[x].sock
             /\ f[x].next = IF x = tail THEN i ELSE server[x].next
  <2>1. PICK r \in ServerType : r = server[x]
    OBVIOUS
  <2> QED
    BY <1>1, <2>1, SMT DEF ServerType
<1> QED
  BY <1>1, <1>2 DEF f

(* The client's record after a step of insert_list_item that stays at it. *)
LEMMA LinkRecord ==
  ASSUME Steady, NEW c \in Client, insert_link(c)
  PROVE  /\ ClientsTyped' /\ cli'[c].pc = "count" /\ cli'[c].head = cli[c].head
         /\ cli'[c].item = cli[c].item /\ cli'[c].n = ListHead(cli[c].head).count
         /\ cli'[c].data = cli[c].data /\ \A d \in Client \ {c} : cli'[d] = cli[d]
<1>1. /\ cli[c] \in ClientType /\ ClientsTyped /\ ListsTyped /\ Adds(cli[c])
      /\ cli[c].pc = "link" /\ commands' \in 0 .. MaxCommands
  BY DEF Steady, Typed, ClientsTyped, ClientsAdd, insert_link
<1>2. PICK k \in Nat : k = ListHead(cli[c].head).count
  BY <1>1 DEF ListHead, ListsTyped, ListHeadType, GroupType, Adds
<1>3. PICK x : x = [cli[c] EXCEPT !.pc = "count", !.n = k]
  OBVIOUS
<1>4. /\ x \in ClientType /\ x.pc = "count" /\ x.head = cli[c].head /\ x.item = cli[c].item
      /\ x.n = k /\ x.data = cli[c].data
  BY <1>1, <1>2, <1>3 DEF ClientType
<1>5. cli' = [cli EXCEPT ![c] = x]
  BY <1>1, <1>2, <1>3 DEF ClientsTyped, insert_link
<1> QED
  BY <1>1, <1>2, <1>4, <1>5, ClientTyped

\* The list of h before and after an item is put behind its tail.
LinksHead(old, new, tail, i) ==
  /\ new.next = IF tail = NULL THEN i ELSE old.next
  /\ new.prev = i /\ new.count = old.count
\* What stays of the groups and servers while links change.
KeepsData ==
  /\ \A g \in Group :
       /\ group'[g].id = group[g].id /\ group'[g].change = group[g].change
       /\ group'[g].caches = group[g].caches
  /\ \A s \in Server : /\ server'[s].ip = server[s].ip /\ server'[s].sock = server[s].sock
                      /\ server'[s].router_id = server[s].router_id

(* What linking a group does. *)
LEMMA LinkGroup ==
  ASSUME Steady, NEW c \in Client, insert_link(c), cli[c].head = GROUPS
  PROVE  /\ ListsTyped' /\ KeepsData /\ UNCHANGED <<server, torn>>
         /\ LinksHead(groups, groups', cli[c].tail, cli[c].item)
         /\ \A g \in Group :
              /\ group'[g].servers = group[g].servers
              /\ group'[g].next = IF g = cli[c].tail THEN cli[c].item ELSE group[g].next
<1> DEFINE i == cli[c].item
           t == cli[c].tail
<1>1. groups' = LinkedHead(groups, t, i) /\ group' = LinkedItems(group, t, i) /\ UNCHANGED <<server, torn>>
  BY DEF insert_link
<1>2. i \in Group /\ groups \in ListHeadType(Group) /\ group \in [Group -> GroupType]
  BY DEF Adds, ListsTyped, Steady, Typed, ClientsAdd, insert_link
<1> HIDE DEF t, i
<1>3. groups' \in ListHeadType(Group) /\ LinksHead(groups, groups', t, i)
  BY <1>1, <1>2, LinkedTyped, SMT DEF LinksHead
<1>4. /\ group' \in [Group -> GroupType]
      /\ \A x \in Group :
           /\ group'[x].id = group[x].id /\ group'[x].change = group[x].change
           /\ group'[x].servers = group[x].servers /\ group'[x].caches = group[x].caches
           /\ group'[x].next = IF x = t THEN i ELSE group[x].next
  BY <1>1, <1>2, LinksGroups, SMT
<1> QED
  BY <1>1, <1>3, <1>4 DEF ListsTyped, KeepsData, t, i, Steady, Typed, ClientsAdd, insert_link

(* What linking a server does. *)
LEMMA LinkServer ==
  ASSUME Steady, NEW c \in Client, insert_link(c), cli[c].head # GROUPS
  PROVE  /\ ListsTyped' /\ KeepsData /\ UNCHANGED groups /\ cli[c].head \in Group
         /\ torn' = (torn \/ Building(cli[c].head))
         /\ \A g \in Group :
              /\ group'[g].next = group[g].next
              /\ g = cli[c].head => LinksHead(group[g].servers, group'[g].servers,
                                              cli[c].tail, cli[c].item)
              /\ g # cli[c].head => group'[g].servers = group[g].servers
         /\ \A s \in Server :
              server'[s].next = IF s = cli[c].tail THEN cli[c].item ELSE server[s].next
<1> DEFINE h == cli[c].head
           i == cli[c].item
           t == cli[c].tail
<1>1. /\ group' = [group EXCEPT ![h].servers = LinkedHead(@, t, i)]
      /\ server' = LinkedItems(server, t, i) /\ torn' = (torn \/ Building(h)) /\ UNCHANGED groups
  BY DEF insert_link
<1>2. /\ h \in Group /\ i \in Server /\ server \in [Server -> ServerType]
      /\ group \in [Group -> GroupType] /\ groups \in ListHeadType(Group)
  BY DEF Adds, ListsTyped, Steady, Typed, ClientsAdd, insert_link
<1> HIDE DEF h, t, i
<1>3. /\ server' \in [Server -> ServerType]
      /\ \A x \in Server :
           /\ server'[x].ip = server[x].ip /\ server'[x].sock = server[x].sock
           /\ server'[x].router_id = server[x].router_id
           /\ server'[x].next = IF x = t THEN i ELSE server[x].next
  BY <1>1, <1>2, LinksServers, SMT
<1>4. PICK k \in ListHeadType(Server) :
        k = LinkedHead(group[h].servers, t, i) /\ LinksHead(group[h].servers, k, t, i)
  BY <1>2, LinkedTyped, SMT DEF LinksHead, GroupType
<1>5. PICK r \in GroupType : r = group[h]
  BY <1>2
<1>6. PICK z : z = [r EXCEPT !.servers = k]
  OBVIOUS
<1>7. ASSUME NEW g \in Group
      PROVE  /\ group'[g].next = group[g].next
             /\ g = h => LinksHead(group[g].servers, group'[g].servers, t, i)
             /\ g # h => group'[g].servers = group[g].servers
  BY <1>1, <1>2, <1>4, <1>5, <1>6 DEF GroupType
<1> QED
  BY <1>1, <1>2, <1>3, <1>4, <1>5, <1>6, <1>7 DEF h, t, i, KeepsData, ListsTyped, GroupType

(* insert_list_item links the item. *)
LEMMA LinkSteady ==
  ASSUME Steady, NEW c \in Client, insert_link(c)
  PROVE  Steady' /\ KeepsData
<1>1. ListsTyped /\ HistoryTyped /\ Adds(cli[c]) /\ cli[c].pc = "link"
  BY DEF Steady, Typed, ClientsAdd, insert_link
<1>2. /\ ClientsTyped' /\ cli'[c].pc = "count"
      /\ cli'[c].head = cli[c].head /\ cli'[c].item = cli[c].item
      /\ \A d \in Client \ {c} : cli'[d] = cli[d]
  BY LinkRecord
<1>3. ListsTyped' /\ KeepsData /\ torn' \in BOOLEAN
  BY <1>1, LinkGroup, LinkServer DEF HistoryTyped
<1>4. Adds(cli[c])'
  BY <1>1, <1>2, <1>3 DEF Adds, Grown, KeepsData
<1> QED
  BY <1>1, <1>2, <1>3, <1>4, ClientsKept, SocketsKept, ThreadKept DEF Steady, Typed, network,
     NetworkTyped, HistoryTyped, KeepsData, Grown, insert_link

(* insert_list_item counts the item, and the command returns. *)
LEMMA CountSteady ==
  ASSUME Steady, NEW c \in Client, insert_count(c)
  PROVE  /\ Steady' /\ cli'[c].pc = "idle" /\ \A d \in Client \ {c} : cli'[d] = cli[d]
         /\ cli'[c].data = IF cli[c].head = GROUPS THEN cli[c].item ELSE cli[c].head
         /\ groups'.next = groups.next /\ groups'.prev = groups.prev
         /\ groups'.count = IF cli[c].head = GROUPS THEN cli[c].n + 1 ELSE groups.count
         /\ \A g \in Group : /\ group'[g].id = group[g].id /\ group'[g].change = group[g].change
                             /\ group'[g].caches = group[g].caches /\ group'[g].next = group[g].next
                             /\ group'[g].servers.next = group[g].servers.next
                             /\ group'[g].servers.prev = group[g].servers.prev
                             /\ group'[g].servers.count = IF g = cli[c].head THEN cli[c].n + 1
                                                          ELSE group[g].servers.count
<1> DEFINE h == cli[c].head
           i == cli[c].item
<1>1. /\ ListsTyped /\ HistoryTyped /\ Adds(cli[c]) /\ cli[c].pc = "count" /\ cli[c] \in ClientType
      /\ ClientsTyped
  BY DEF Steady, Typed, ClientsAdd, ClientsTyped, insert_count
<1>2. UNCHANGED <<server, commands, w, network, raced, closed, sent>>
  BY DEF insert_count
<1>3. PICK k \in Nat : k = cli[c].n + 1
  BY <1>1, SMT DEF ClientType
<1>4. PICK y \in Group \cup {NULL} : y = IF h = GROUPS THEN i ELSE h
  BY <1>1 DEF Adds
<1>5. PICK x : x = [IdleClient EXCEPT !.mode = "wccp", !.data = y]
  OBVIOUS
<1>6. x \in ClientType /\ x.pc = "idle" /\ x.data = y
  BY <1>4, <1>5 DEF IdleClient, ClientType
<1>7. ClientsTyped' /\ cli'[c] = x /\ \A d \in Client \ {c} : cli'[d] = cli[d]
  BY <1>1, <1>2, <1>4, <1>5, <1>6, ClientTyped DEF ClientsTyped, insert_count
<1> DEFINE Same(g) == /\ group'[g].id = group[g].id /\ group'[g].change = group[g].change
                      /\ group'[g].caches = group[g].caches /\ group'[g].next = group[g].next
                      /\ group'[g].servers.next = group[g].servers.next
                      /\ group'[g].servers.prev = group[g].servers.prev
                      /\ group'[g].servers.count = IF g = h THEN k ELSE group[g].servers.count
           SameHead == /\ groups'.next = groups.next /\ groups'.prev = groups.prev
                       /\ groups'.count = IF h = GROUPS THEN k ELSE groups.count
<1>8. ListsTyped' /\ (\A g \in Group : Same(g)) /\ SameHead /\ torn' \in BOOLEAN
  <2>1. CASE h = GROUPS /\ groups' = [groups EXCEPT !.count = k] /\ UNCHANGED <<group, torn>>
    <3>1. PICK r \in ListHeadType(Group) : r = groups
      BY <1>1 DEF ListsTyped
    <3> QED
      BY <1>1, <1>2, <2>1, <3>1, Sizes DEF HistoryTyped, ListsTyped, ListHeadType
  <2>2. CASE /\ h # GROUPS
             /\ group' = [group EXCEPT ![h].servers.count = k]
             /\ torn' = (torn \/ Building(h))
             /\ UNCHANGED groups
    <3>1. PICK r \in GroupType : r = group[h]
      BY <1>1, <2>2 DEF Adds, ListsTyped
    <3>2. PICK q \in ListHeadType(Server) : q = r.servers
      BY DEF GroupType
    <3>3. PICK p \in ListHeadType(Server) : p = [q EXCEPT !.count = k]
      BY DEF ListHeadType
    <3>4. p.next = q.next /\ p.prev = q.prev /\ p.count = k
      BY <3>3 DEF ListHeadType
    <3>5. PICK z : z = [r EXCEPT !.servers = p]
      OBVIOUS
    <3>6. /\ z \in GroupType /\ z.id = r.id /\ z.change = r.change /\ z.caches = r.caches
          /\ z.next = r.next /\ z.servers = p
      BY <3>3, <3>5 DEF GroupType
    <3>7. group' = [group EXCEPT ![h] = z]
      <4> HIDE DEF h
      <4> QED
        BY <1>1, <2>2, <3>1, <3>2, <3>3, <3>5 DEF Adds, ListsTyped
    <3>8. group' \in [Group -> GroupType] /\ group'[h] = z /\ \A g \in Group : g # h => group'[g] = group[g]
      BY <1>1, <2>2, <3>6, <3>7 DEF Adds, ListsTyped
    <3>9. \A g \in Group : Same(g)
      BY <3>1, <3>2, <3>4, <3>6, <3>8
    <3> QED
      BY <1>1, <1>2, <2>2, <3>8, <3>9 DEF ListsTyped
  <2> QED
    BY <1>3, <2>1, <2>2 DEF insert_count
<1>9. NetworkTyped' /\ HistoryTyped'
  BY <1>1, <1>2, <1>8 DEF network, Steady, Typed, NetworkTyped, HistoryTyped
<1>10. ThreadFits(w)' /\ SocketsFit'
  BY <1>2, <1>8, SocketsKept, ThreadKept DEF network, Grown
<1> QED
  BY <1>2, <1>3, <1>4, <1>6, <1>7, <1>8, <1>9, <1>10, ClientsKept DEF Steady, Typed, Adds,
     Grown

-----------------------------------------------------------------------------
(* The steps of the WCCP thread and of the network keep Steady *)

(* The clients stay where they are. *)
LEMMA ClientsStay ==
  ASSUME Steady, Grown, UNCHANGED <<cli, commands>>
  PROVE  ClientsTyped' /\ ClientsAdd'
<1>1. ASSUME NEW c \in Client PROVE Adds(cli[c])'
  BY DEF Adds, Grown, Steady, ClientsAdd
<1> QED
  BY <1>1 DEF ClientsAdd, Steady, Typed, ClientsTyped

(* Walking on to what is due, with events of open sockets, fits. *)
LEMMA WalkedFits ==
  ASSUME Steady, NEW due \in SUBSET Server, due \cap FreeServers = {}, Grown, Walks(w', due),
         \A d \in Opened : fdt'[d] = fdt[d]
  PROVE  ThreadFits(w)'
BY DEF ThreadFits, AtServer, Walks, Steady, FreeServers, Grown, Opened

(* epoll_wait *)
LEMMA WaitSteady ==
  ASSUME Library, Steady, NEW due \in SUBSET Server, epoll_wait(due)
  PROVE  Steady'
<1> DEFINE ready == {d \in edge : inbox[d] # <<>> \/ d \in failed}
           errs == ready \cap failed
<1>1. /\ due \cap FreeServers = {} /\ edge' = {}
      /\ UNCHANGED <<lists, cli, commands, fdt, inbox, failed, buf, acts, history>>
  BY DEF epoll_wait
<1>2. PICK x : x = FromGroup(DueGroup(groups.next, due), due)
  OBVIOUS
<1>3. Walks(x, due)
  BY <1>2, WalkFits DEF Steady, Typed, ThreadFits, ListsTyped, ListHeadType
<1>4. ready \subseteq Opened /\ errs \subseteq ready /\ Opened \subseteq Fd
  BY DEF Steady, SocketsFit, Opened
<1>5. w' = [x EXCEPT !.events = ready, !.errs = errs]
  BY <1>2 DEF epoll_wait
<1> HIDE DEF ready, errs
<1>6. /\ w' \in ThreadType /\ w'.due = due /\ w'.events = ready /\ w'.errs = errs
      /\ w'.pc = x.pc /\ w'.g = x.g /\ w'.s = x.s
  BY <1>3, <1>4, <1>5 DEF ThreadType, Walks
<1>7. FreeServers' = FreeServers /\ Opened' = Opened
  BY <1>1 DEF FreeServers, Opened, lists
<1> QED
  BY <1>1, <1>3, <1>4, <1>6, <1>7, ClientsStay DEF Steady, Typed, lists, history, ListsTyped,
     NetworkTyped, HistoryTyped, Grown, SocketsFit, ThreadFits, AtServer, Walks

(* What the WCCP thread has when it is at a server. *)
LEMMA AtServerHas ==
  ASSUME Steady, AtServer(w.pc)
  PROVE  /\ w.g \in Group /\ w.s \in Server /\ server[w.s].ip # NULL
         /\ server[w.s] \in ServerType /\ server[w.s].next \in Server \cup {NULL}
         /\ w.due \ {w.s} \in SUBSET Server /\ (w.due \ {w.s}) \cap FreeServers = {}
         /\ w.pc \in {"here_i_am", "redirect_assign"} => server[w.s].sock \in Fd
BY DEF ServerType, FreeServers, Steady, Typed, ListsTyped, ThreadFits, ThreadType

(* wccp_process_server without a socket *)
LEMMA OpenSteady ==
  ASSUME Library, Steady, wccp_open
  PROVE  /\ Steady'
         /\ \/ UNCHANGED <<server, fdt>>
            \/ /\ Lowest(FreeFds) \in FreeFds
               /\ server' = [server EXCEPT ![w.s].sock = Lowest(FreeFds)]
               /\ fdt' = [fdt EXCEPT ![Lowest(FreeFds)] = w.s]
               /\ \A s \in Server :
                    /\ server'[s].ip = server[s].ip /\ server'[s].next = server[s].next
                    /\ server'[s].router_id = server[s].router_id
                    /\ server'[s].sock = IF s = w.s THEN Lowest(FreeFds) ELSE server[s].sock
<1> DEFINE s == w.s
<1>1. /\ w.pc = "server" /\ FreeFds # {}
      /\ w' = WalkOn(w.g, server[s].next, w.due \ {s})
      /\ UNCHANGED <<groups, group, cli, commands, inbox, edge, failed, buf, acts,
                     raced, torn, closed>>
  BY DEF wccp_open
<1>2. /\ w.g \in Group /\ s \in Server /\ server[s].ip # NULL
      /\ server[s] \in ServerType /\ server[s].next \in Server \cup {NULL}
      /\ w.due \ {s} \in SUBSET Server /\ (w.due \ {s}) \cap FreeServers = {}
  BY <1>1, AtServerHas DEF AtServer
<1>3. PICK d \in FreeFds : d = Lowest(FreeFds)
  BY <1>1, LowestFree, Sizes DEF FreeFds
<1>4. d \in Fd /\ fdt[d] = NULL
  BY DEF FreeFds
<1>5. ListsTyped /\ NetworkTyped /\ HistoryTyped
  BY DEF Steady, Typed
<1> DEFINE Opens == /\ fdt' = [fdt EXCEPT ![d] = s]
                    /\ \A t \in Server :
                         /\ server'[t].ip = server[t].ip /\ server'[t].next = server[t].next
                         /\ server'[t].router_id = server[t].router_id
                         /\ server'[t].sock = IF t = s THEN d ELSE server[t].sock
<1>6. /\ server' \in [Server -> ServerType] /\ fdt' \in [Fd -> Server \cup {NULL}]
      /\ UNCHANGED <<server, fdt>> \/ (server' = [server EXCEPT ![s].sock = d] /\ Opens)
  <2>1. CASE UNCHANGED <<server, fdt>>
    BY <1>5, <2>1 DEF ListsTyped, NetworkTyped
  <2>2. CASE server' = [server EXCEPT ![s].sock = d] /\ fdt' = [fdt EXCEPT ![d] = s]
    <3>1. PICK r \in ServerType : r = server[s]
      BY <1>2
    <3>2. PICK z : z = [r EXCEPT !.sock = d]
      OBVIOUS
    <3>3. z \in ServerType /\ z.ip = r.ip /\ z.router_id = r.router_id /\ z.next = r.next /\ z.sock = d
      BY <1>4, <3>2 DEF ServerType
    <3>4. server' = [server EXCEPT ![s] = z]
      <4> HIDE DEF s
      <4> QED
        BY <1>2, <1>5, <2>2, <3>1, <3>2 DEF ListsTyped
    <3>5. /\ server' \in [Server -> ServerType] /\ server'[s] = z
          /\ \A t \in Server : t # s => server'[t] = server[t]
      BY <1>2, <1>5, <3>3, <3>4 DEF ListsTyped
    <3>6. ASSUME NEW t \in Server
          PROVE  /\ server'[t].ip = server[t].ip /\ server'[t].next = server[t].next
                 /\ server'[t].router_id = server[t].router_id
                 /\ server'[t].sock = IF t = s THEN d ELSE server[t].sock
      BY <3>1, <3>3, <3>5, <3>6
    <3> QED
      BY <1>2, <1>5, <2>2, <3>5, <3>6 DEF NetworkTyped
  <2> QED
    BY <1>3, <2>1, <2>2 DEF wccp_open
<1>7. d # 0
  BY <1>4, Sizes
<1>8. Grown
  BY <1>1, <1>6, <1>7 DEF Grown
<1>9. \A e \in Opened : fdt'[e] = fdt[e]
  BY <1>4, <1>5, <1>6 DEF Opened, NetworkTyped
<1>10. ThreadFits(w)'
  <2>1. Walks(w', w.due \ {s})
    <3> HIDE DEF s
    <3> QED
      BY <1>1, <1>2, <1>5, WalkFits DEF Steady, ThreadFits
  <2> QED
    BY <1>2, <1>8, <1>9, <2>1, WalkedFits
<1>11. SocketsFit'
  <2>1. \A e \in Opened' : e \in Opened \/ fdt'[e] = s
    BY <1>4, <1>5, <1>6 DEF Opened, NetworkTyped
  <2> QED
    BY <1>1, <1>2, <1>5, <1>8, <1>9, <2>1 DEF Steady, SocketsFit, Grown, Opened, NetworkTyped
<1> QED
  BY <1>1, <1>3, <1>5, <1>6, <1>8, <1>10, <1>11, ClientsStay DEF Steady, Typed, ListsTyped,
     NetworkTyped, HistoryTyped

(* wccp_process_server with a socket: the messages are built and sent. *)
LEMMA HelloSteady ==
  ASSUME Library, Steady, wccp_hello \/ wccp_here_i_am \/ wccp_redirect_assign
  PROVE  /\ Steady' /\ UNCHANGED <<groups, group, server, cli, commands, fdt, inbox, edge, buf, acts,
                                   raced, closed>>
<1>1. /\ UNCHANGED <<groups, group, server, cli, commands, fdt, inbox, edge, buf, acts, raced, closed>>
      /\ failed' \subseteq failed /\ torn' \in BOOLEAN /\ AtServer(w.pc)
  BY DEF wccp_hello, wccp_here_i_am, wccp_redirect_assign, Send, lists, network, AtServer,
     Steady, Typed, HistoryTyped, Adding
<1>2. ThreadFits(w)'
  <2>1. w \in ThreadType /\ ListsTyped /\ ThreadFits(w)
    BY DEF Steady, Typed, ThreadFits
  <2>2. CASE wccp_redirect_assign
    BY <1>1, <2>1, <2>2, AtServerHas, WalkFits, WalkedFits DEF wccp_redirect_assign, Grown
  <2>3. CASE wccp_hello \/ wccp_here_i_am
    <3>1. PICK n \in Nat : n = group[w.g].servers.count
      BY <1>1, <2>1, AtServerHas DEF ListsTyped, ListHeadType, GroupType
    <3>2. PICK p \in {"here_i_am", "redirect_assign"} : w' = [w EXCEPT !.pc = p, !.n = n]
      BY <2>3, <3>1 DEF wccp_hello, wccp_here_i_am
    <3>3. server[w.s].sock # 0
      BY <2>1, <2>3 DEF wccp_hello, wccp_here_i_am, ThreadFits
    <3> QED
      BY <1>1, <2>1, <3>1, <3>2, <3>3, AtServerHas DEF ThreadFits, AtServer, FreeServers,
         Opened, ThreadType
  <2> QED
    BY <2>2, <2>3
<1> QED
  BY <1>1, <1>2, ClientsStay DEF Steady, Typed, ListsTyped, NetworkTyped, HistoryTyped,
     SocketsFit, Opened, Grown

(* The number of a group in a message, and the group looked up for it. *)
LEMMA WireIds ==
  /\ \A id \in GroupId : wire_id(id) \in 0 .. 255
  /\ \A sid \in 0 .. 255 : group_id(sid) \in 0 .. 255
<1>1. ASSUME NEW id \in GroupId PROVE wire_id(id) \in 0 .. 255
  BY <1>1, WccpAssumption, SMT DEF wire_id, htons
<1>2. ASSUME NEW sid \in 0 .. 255 PROVE group_id(sid) \in 0 .. 255
  BY SMT DEF group_id, htons
<1> QED
  BY <1>1, <1>2

\* What handling a message leaves alone, and what is then known.
Handled ==
  /\ group' \in [Group -> GroupType] /\ server' \in [Server -> ServerType]
  /\ \A g \in Group :
       /\ group'[g].id = group[g].id /\ group'[g].servers = group[g].servers
       /\ group'[g].next = group[g].next
       /\ \/ group'[g].change = group[g].change /\ group'[g].caches = group[g].caches
          \/ /\ \E s \in Items(ServerList(g)) : server'[s].router_id # NULL
             /\ \E view \in View : group'[g].caches = AddCaches(group[g].caches, view)
  /\ \A s \in Server :
       /\ server'[s].ip = server[s].ip /\ server'[s].sock = server[s].sock
       /\ server'[s].next = server[s].next
       /\ \/ server'[s].router_id = server[s].router_id
          \/ server'[s].router_id = server[s].ip /\ server[s].ip # NULL

(* wccp_handler: a view changes the change number and the web-caches only, *)
(* and only those of a group with a server that is heard of by then.       *)
LEMMA HandlerChanges ==
  ASSUME Library, ListsTyped, NEW m \in Heard \cup {NULL}, wccp_handler(m)
  PROVE  Handled
<1> DEFINE g == Addressed(m)
           s == Sender(m, g)
<1>1. CASE UNCHANGED <<group, server>>
  BY <1>1 DEF Handled, ListsTyped
<1>2. CASE /\ s # NULL
           /\ server' = [server EXCEPT ![s].router_id = m.id]
           /\ group' = process_wccp_router_view_component(g, m)
  <2>1. /\ m.sid \in 0 .. 255 /\ m.ip \in Ip /\ m.id \in Ip /\ m.change \in Number /\ m.view \in View
        /\ m.id = m.ip
    BY <1>2 DEF Heard, MessageType, Sender, Addressed
  <2>2. g \in Group
    <3>1. group_id(m.sid) \in GroupId \cup 0 .. 255
      BY <2>1, WireIds
    <3> QED
      BY <1>2, <3>1, Finds DEF Addressed, Sender
  <2>3. s \in Server /\ server[s].ip = m.ip /\ s \in Items(ServerList(g))
    <3>1. s = find_wccp_server(g, m.ip)
      BY <1>2 DEF Sender, Addressed
    <3> HIDE DEF g, s
    <3> QED
      BY <1>2, <2>1, <2>2, <3>1, Finds
  <2>4. /\ server' \in [Server -> ServerType]
        /\ \A t \in Server :
             /\ server'[t].ip = server[t].ip /\ server'[t].sock = server[t].sock
             /\ server'[t].next = server[t].next
             /\ server'[t].router_id = IF t = s THEN m.id ELSE server[t].router_id
    <3> HIDE DEF s
    <3>1. PICK r \in ServerType : r = server[s]
      BY <2>3 DEF ListsTyped
    <3>2. PICK i \in Ip : i = m.id
      BY <2>1
    <3>3. PICK z : z = [r EXCEPT !.router_id = i]
      OBVIOUS
    <3> QED
      BY <1>2, <2>3, <3>1, <3>2, <3>3 DEF ListsTyped, ServerType
  <2> DEFINE Same(x) == /\ group'[x].id = group[x].id /\ group'[x].servers = group[x].servers
                        /\ group'[x].next = group[x].next
             Kept(x) == group'[x].change = group[x].change /\ group'[x].caches = group[x].caches
             Learns(x) == /\ \E t \in Items(ServerList(x)) : server'[t].router_id # NULL
                          /\ \E view \in View : group'[x].caches = AddCaches(group[x].caches, view)
  <2>5. /\ group' \in [Group -> GroupType]
        /\ \A x \in Group : Same(x) /\ (Kept(x) \/ Learns(x))
    <3>1. CASE group' = group
      BY <3>1 DEF ListsTyped
    <3>2. CASE group' = [group EXCEPT ![g].change = m.change, ![g].caches = AddCaches(@, m.view)]
      <4> HIDE DEF g
      <4>1. PICK r \in GroupType : r = group[g]
        BY <2>2 DEF ListsTyped
      <4>2. PICK n \in Number : n = m.change
        BY <2>1
      <4>3. PICK v \in View : v = m.view
        BY <2>1
      <4>4. PICK a \in Seq(Cache) : a = AddCaches(r.caches, v)
        <5>1. r.caches \in Seq(Cache) /\ v \in Seq(Cache)
          BY WccpAssumption DEF GroupType
        <5>2. PICK h \in Seq(Cache) : h = r.caches
          BY <5>1
        <5>3. CASE v = <<>>
          BY <5>1, <5>3 DEF AddCaches
        <5>4. CASE v # <<>>
          <6>1. v[1] \in Cache
            BY <5>1, <5>4, SMT
          <6>2. Append(h, v[1]) \in Seq(Cache)
            BY <6>1, SMT
          <6> QED
            BY <5>2, <6>2 DEF AddCaches
        <5> QED
          BY <5>3, <5>4
      <4>5. PICK z : z = [r EXCEPT !.change = n, !.caches = a]
        OBVIOUS
      <4>6. z \in GroupType /\ z.id = r.id /\ z.servers = r.servers /\ z.next = r.next /\ z.caches = a
        BY <4>2, <4>4, <4>5 DEF GroupType
      <4>7. /\ group' \in [Group -> GroupType] /\ group'[g] = z
            /\ \A x \in Group : x # g => group'[x] = group[x]
        BY <2>2, <3>2, <4>1, <4>2, <4>3, <4>4, <4>5, <4>6 DEF ListsTyped
      <4>8. \E t \in Items(ServerList(g)) : server'[t].router_id # NULL
        BY <2>1, <2>3, <2>4, Sizes
      <4>10. Same(g) /\ Learns(g)
        BY <2>2, <4>1, <4>3, <4>4, <4>6, <4>7, <4>8
      <4>9. ASSUME NEW x \in Group, x # g PROVE Same(x) /\ Kept(x)
        BY <4>7, <4>9
      <4> QED
        BY <4>7, <4>9, <4>10
    <3> QED
      BY <1>2, <3>1, <3>2 DEF process_wccp_router_view_component
  <2>6. \A t \in Server : \/ server'[t].router_id = server[t].router_id
                          \/ server'[t].router_id = server[t].ip /\ server[t].ip # NULL
    BY <2>1, <2>3, <2>4, Sizes
  <2> QED
    BY <2>4, <2>5, <2>6 DEF Handled
<1> QED
  BY <1>1, <1>2 DEF wccp_handler, Handle

(* Closing a socket. *)
LEMMA CloseFits ==
  ASSUME Steady, NEW d \in w.events, Close(d)
  PROVE  /\ fdt' \in [Fd -> Server \cup {NULL}] /\ inbox' \in [Fd -> Seq(Heard)]
         /\ failed' \subseteq Fd /\ edge' \subseteq Fd /\ closed' \subseteq Server
         /\ d \in Fd /\ fdt[d] \in Server /\ closed' = closed \cup {fdt[d]}
         /\ Opened' = Opened \ {d} /\ edge' \subseteq Opened'
         /\ \A e \in Fd : fdt'[e] = IF e = d THEN NULL ELSE fdt[e]
BY SMT DEF Opened, Close, Steady, Typed, NetworkTyped, HistoryTyped, ThreadFits, SocketsFit

(* The WCCP thread has done with the event of a socket. *)
LEMMA EventDone ==
  ASSUME Steady, Grown, NEW d, w.pc = "events", w'.errs \subseteq w'.events,
         w' = [w EXCEPT !.events = @ \ {d}, !.errs = @ \ {d}] \/ w' = [w EXCEPT !.events = @ \ {d}],
         Opened \ {d} \subseteq Opened'
  PROVE  ThreadFits(w)'
<1>1. w \in ThreadType /\ w.events \subseteq Opened /\ w.due \cap FreeServers = {}
  BY DEF Steady, ThreadFits
<1>2. /\ w' \in ThreadType /\ w'.pc = w.pc /\ w'.due = w.due /\ w'.events = w.events \ {d}
  BY <1>1 DEF ThreadType
<1> QED
  BY <1>1, <1>2 DEF ThreadFits, AtServer, FreeServers, Grown

(* The events of epoll_handler. *)
LEMMA ErrorSteady ==
  ASSUME Steady, NEW d \in Fd, epoll_error(d)
  PROVE  Steady'
<1>1. w \in ThreadType /\ w.errs \subseteq w.events
  BY DEF Steady, ThreadFits
<1>2. /\ fdt' \in [Fd -> Server \cup {NULL}] /\ inbox' \in [Fd -> Seq(Heard)]
      /\ failed' \subseteq Fd /\ edge' \subseteq Fd /\ closed' \subseteq Server
      /\ Opened' = Opened \ {d} /\ edge' \subseteq Opened'
      /\ \A e \in Fd : fdt'[e] = IF e = d THEN NULL ELSE fdt[e]
  BY <1>1, CloseFits DEF epoll_error, lists
<1> QED
  BY <1>1, <1>2, ClientsStay, EventDone DEF Steady, Typed, ListsTyped, NetworkTyped,
     HistoryTyped, SocketsFit, Opened, Grown, ThreadType, epoll_error, lists

(* A message read, or what is left of an earlier one, is handled. *)
LEMMA ReceiveSteady ==
  ASSUME Library, Steady, NEW d \in Fd, epoll_receive(d) \/ epoll_receive_fails(d)
  PROVE  Steady' /\ Handled
<1>1. /\ w.pc = "events" /\ d \in w.events /\ d \notin w.errs /\ w' = [w EXCEPT !.events = @ \ {d}]
      /\ UNCHANGED <<groups, cli, commands, acts, raced, torn>>
      /\ wccp_handler(buf')
  BY DEF epoll_receive, epoll_receive_fails, wccp_handler, Handle, Addressed, Sender
<1>2. w \in ThreadType /\ w.errs \subseteq w.events /\ ListsTyped /\ NetworkTyped /\ HistoryTyped
  BY DEF Steady, Typed, ThreadFits
<1>3. buf' \in Heard \cup {NULL}
  <2>1. CASE epoll_receive(d)
    <3>1. CASE inbox[d] = <<>>
      BY <1>2, <2>1, <3>1 DEF epoll_receive, NetworkTyped
    <3>2. CASE inbox[d] # <<>>
      <4>1. PICK q \in Seq(Heard) : q = inbox[d]
        BY <1>2 DEF NetworkTyped
      <4> QED
        BY <2>1, <3>2, <4>1, SMT DEF epoll_receive
    <3> QED
      BY <3>1, <3>2
  <2>2. CASE epoll_receive_fails(d)
    BY <1>2, <2>2 DEF epoll_receive_fails, NetworkTyped
  <2> QED
    BY <2>1, <2>2
<1>4. Handled
  <2>1. PICK m \in Heard \cup {NULL} : m = buf'
    BY <1>3
  <2> QED
    BY <1>1, <1>2, <2>1, HandlerChanges
<1>5. /\ fdt' \in [Fd -> Server \cup {NULL}] /\ inbox' \in [Fd -> Seq(Heard)]
      /\ failed' \subseteq Fd /\ edge' \subseteq Fd /\ closed' \subseteq Server
      /\ Opened \ {d} \subseteq Opened' /\ Opened' \subseteq Opened /\ edge' \subseteq Opened'
      /\ \A e \in Opened' : fdt'[e] = fdt[e]
  <2>1. CASE epoll_receive(d)
    BY <1>2, <2>1, SMT DEF NetworkTyped, HistoryTyped, Opened, Steady, SocketsFit, epoll_receive
  <2>2. CASE epoll_receive_fails(d)
    BY <1>1, <2>2, CloseFits DEF Opened, epoll_receive_fails
  <2> QED
    BY <2>1, <2>2
<1>6. Grown
  BY <1>4 DEF Grown, Handled
<1>7. SocketsFit'
  BY <1>2, <1>5, <1>6 DEF Grown, Steady, SocketsFit, Opened, NetworkTyped
<1> QED
  BY <1>1, <1>2, <1>3, <1>4, <1>5, <1>6, <1>7, ClientsStay, EventDone DEF Steady, Typed,
     Handled, ListsTyped, NetworkTyped, HistoryTyped, ThreadType

(* epoll_handler waits for the next events. *)
LEMMA AgainSteady ==
  ASSUME Steady, epoll_again
  PROVE  Steady'
<1>1. w' = Waiting /\ UNCHANGED <<lists, cli, commands, network, raced, torn, closed>>
  BY DEF epoll_again
<1> QED
  BY <1>1, ClientsStay, SocketsKept DEF Steady, Typed, lists, network, ListsTyped,
     NetworkTyped, HistoryTyped, Grown, ThreadFits, Waiting, ThreadType, AtServer

(* The network: messages of the routers, and errors. *)
LEMMA NetworkSteady ==
  ASSUME Steady, NEW d \in Fd,
         (\E id \in GroupId, n \in Number, v \in View : i_see_you(d, id, n, v)) \/ port_unreachable(d)
  PROVE  Steady'
<1>1. /\ fdt[d] # NULL /\ acts < MaxActs /\ acts' = acts + 1 /\ edge' = edge \cup {d}
      /\ UNCHANGED <<lists, cli, commands, w, fdt, buf, history>>
      /\ failed' \subseteq failed \cup {d}
  BY DEF i_see_you, port_unreachable
<1>2. NetworkTyped
  BY DEF Steady, Typed
<1>3. acts' \in 0 .. MaxActs
  <2>1. acts \in 0 .. MaxActs
    BY <1>2 DEF NetworkTyped
  <2> QED
    BY <1>1, <2>1, WccpAssumption, SMT
<1>4. inbox' \in [Fd -> Seq(Heard)]
  <2>1. CASE port_unreachable(d)
    BY <1>2, <2>1 DEF port_unreachable, NetworkTyped
  <2>2. CASE \E id \in GroupId, n \in Number, v \in View : i_see_you(d, id, n, v)
    <3>1. PICK id \in GroupId, n \in Number, v \in View : i_see_you(d, id, n, v)
      BY <2>2
    <3>2. PICK a \in Ip : a = server[fdt[d]].ip
      BY <1>1, <1>2 DEF Opened, Steady, Typed, ListsTyped, SocketsFit, ServerType,
         NetworkTyped
    <3>3. PICK i \in 0 .. 255 : i = wire_id(id)
      BY WireIds
    <3>4. PICK m : m = [sid |-> i, ip |-> a, id |-> a, change |-> n, view |-> v]
      OBVIOUS
    <3>5. m \in Heard
      BY <3>3, <3>4 DEF Heard, MessageType
    <3>6. PICK q \in Seq(Heard) : q = inbox[d]
      BY <1>2 DEF NetworkTyped
    <3>7. Append(q, m) \in Seq(Heard)
      BY <3>5, SMT
    <3> QED
      BY <1>2, <3>1, <3>2, <3>3, <3>4, <3>6, <3>7 DEF NetworkTyped, i_see_you
  <2> QED
    BY <2>1, <2>2
<1> QED
  BY <1>1, <1>2, <1>3, <1>4, ClientsStay, ThreadKept DEF Steady, Typed, NetworkTyped, lists,
     history, ListsTyped, HistoryTyped, SocketsFit, Opened, Grown

-----------------------------------------------------------------------------
(* Steady holds throughout *)

(* Steady holds at first. *)
LEMMA InitSteady == Init => Steady
<1> SUFFICES ASSUME Init PROVE Steady
  OBVIOUS
<1>1. ListsTyped
  <2>1. EmptyHead \in ListHeadType(Group) /\ EmptyHead \in ListHeadType(Server) /\ <<>> \in Seq(Cache)
    BY SMT DEF EmptyHead, ListHeadType
  <2> QED
    BY <2>1 DEF Init, ListsTyped, NoServer, ServerType, NoGroup, GroupType
<1>2. ClientsTyped /\ ClientsAdd
  <2>1. 0 \in 0 .. MaxCommands
    BY WccpAssumption, SMT
  <2> QED
    BY <2>1 DEF Init, ClientsTyped, ClientsAdd, Adds, IdleClient, ClientType
<1>3. NetworkTyped /\ SocketsFit
  <2>1. 0 \in 0 .. MaxActs /\ <<>> \in Seq(Heard)
    BY WccpAssumption, SMT
  <2> QED
    BY <2>1 DEF Init, NetworkTyped, SocketsFit, Opened
<1> QED
  BY <1>1, <1>2, <1>3 DEF Steady, Typed, Init, ThreadFits, Waiting, ThreadType, AtServer,
     HistoryTyped

(* The steps, by what they do to the lists and to the sockets. *)
ClientActs == \E c \in Client :
  \/ insert_load(c) \/ cli_wccp_password(c) \/ cli_exit_wccp_mode(c)
  \/ insert_link(c) \/ insert_count(c)
  \/ \E id \in GroupId : cli_enter_wccp_mode(c, id)
  \/ \E ip \in Ip : cli_wccp_server(c, ip)
ThreadActs ==
  \/ \E due \in SUBSET Server : epoll_wait(due)
  \/ wccp_open \/ wccp_hello \/ wccp_here_i_am \/ wccp_redirect_assign \/ epoll_again
  \/ \E d \in Fd : epoll_error(d) \/ epoll_receive(d) \/ epoll_receive_fails(d)
NetworkActs == \E d \in Fd :
  (\E id \in GroupId, n \in Number, v \in View : i_see_you(d, id, n, v)) \/ port_unreachable(d)

(* A step is one of a client thread, of the WCCP thread or of the network. *)
LEMMA Actors == Next => ClientActs \/ ThreadActs \/ NetworkActs
BY DEF Next, ClientStep, WccpStep, ClientActs, ThreadActs, NetworkActs

(* A step that changes nothing keeps Steady. *)
LEMMA StutterSteady ==
  ASSUME Steady, UNCHANGED vars
  PROVE  Steady'
BY ClientsStay, SocketsKept, ThreadKept DEF Steady, Typed, vars, lists, network, Grown,
   history, ListsTyped, ClientsTyped, NetworkTyped, HistoryTyped

(* Every step keeps Steady. *)
LEMMA StepSteady ==
  ASSUME Library, Steady, [Next]_vars
  PROVE  Steady'
<1>1. CASE UNCHANGED vars
  BY <1>1, StutterSteady
<1>2. CASE ClientActs
  BY <1>2, LoadSteady, ModeSteady, LinkSteady, CountSteady, EnterSteady, ServerSteady DEF
     ClientActs
<1>3. CASE ThreadActs
  BY <1>3, WaitSteady, OpenSteady, HelloSteady, AgainSteady, ErrorSteady, ReceiveSteady DEF
     ThreadActs
<1>4. CASE NetworkActs
  BY <1>4, NetworkSteady DEF NetworkActs
<1> QED
  BY <1>1, <1>2, <1>3, <1>4, Actors

(* A new group, and a new server. *)
LEMMA NewRecords ==
  /\ \A id : LET r == [NoGroup EXCEPT !.id = id]
             IN  /\ r.id = id /\ r.change = 0 /\ r.servers = EmptyHead /\ r.caches = <<>> /\ r.next = NULL
  /\ \A ip : LET r == [NoServer EXCEPT !.ip = ip]
             IN  r.ip = ip /\ r.router_id = NULL /\ r.sock = 0 /\ r.next = NULL
  /\ EmptyHead.next = NULL /\ EmptyHead.prev = NULL /\ EmptyHead.count = 0
BY DEF NoGroup, NoServer, EmptyHead

-----------------------------------------------------------------------------
(* What the groups learn *)

\* No web-cache is twice in the list of a group.
CachesOnce == \A g \in Group : \A m, n \in DOMAIN group[g].caches :
  group[g].caches[m] = group[g].caches[n] => m = n

\* What a step may make of what a group has learned: nothing, a new group, or the view of
\* a server is added.
Learning(g) ==
  \/ /\ group'[g].id = group[g].id /\ group'[g].change = group[g].change
     /\ group'[g].caches = group[g].caches
  \/ group'[g].change = 0 /\ group'[g].caches = <<>>
  \/ /\ \E s \in Items(ServerList(g)) : server'[s].router_id # NULL
     /\ \E view \in View : group'[g].caches = AddCaches(group[g].caches, view)

(* Every step changes what a group has learned as Learning says. *)
LEMMA StepLearning ==
  ASSUME Library, Steady, [Next]_vars
  PROVE  \A g \in Group : Learning(g)
<1>1. CASE UNCHANGED group
  BY <1>1 DEF Learning
<1>2. CASE ClientActs
  <2>1. PICK c \in Client :
          \/ insert_load(c) \/ cli_wccp_password(c) \/ cli_exit_wccp_mode(c)
          \/ insert_link(c) \/ insert_count(c)
          \/ \E id \in GroupId : cli_enter_wccp_mode(c, id)
          \/ \E ip \in Ip : cli_wccp_server(c, ip)
    BY <1>2 DEF ClientActs
  <2>2. CASE insert_load(c) \/ cli_wccp_password(c) \/ cli_exit_wccp_mode(c)
             \/ \E ip \in Ip : cli_wccp_server(c, ip)
    BY <1>1, <2>2 DEF insert_load, cli_wccp_password, cli_exit_wccp_mode, cli_wccp_server,
       lists
  <2>3. CASE insert_link(c)
    BY <2>3, LinkSteady DEF KeepsData, Learning
  <2>4. CASE insert_count(c)
    BY <2>4, CountSteady DEF Learning
  <2>5. ASSUME NEW id \in GroupId, cli_enter_wccp_mode(c, id) PROVE \A g \in Group : Learning(g)
    <3>1. CASE group' = [group EXCEPT ![Lowest(FreeGroups)] = [NoGroup EXCEPT !.id = id]]
      BY <3>1, NewRecords DEF Learning, Steady, Typed, ListsTyped
    <3> QED
      BY <1>1, <2>5, <3>1 DEF cli_enter_wccp_mode
  <2> QED
    BY <2>1, <2>2, <2>3, <2>4, <2>5
<1>3. CASE ThreadActs
  BY <1>1, <1>3, ReceiveSteady DEF Handled, Learning, ThreadActs, epoll_wait, wccp_open,
     wccp_hello, wccp_here_i_am, wccp_redirect_assign, epoll_error, epoll_again, lists
<1>4. CASE NetworkActs
  BY <1>1, <1>4 DEF NetworkActs, i_see_you, port_unreachable, lists
<1> QED
  BY <1>1, <1>2, <1>3, <1>4, Actors DEF vars, lists

(* A view adds a web-cache that was not there. *)
LEMMA AddsOnce ==
  ASSUME NEW have \in Seq(Cache), NEW view \in Seq(Cache),
         \A m, n \in DOMAIN have : have[m] = have[n] => m = n
  PROVE  \A m, n \in DOMAIN AddCaches(have, view) :
           AddCaches(have, view)[m] = AddCaches(have, view)[n] => m = n
<1>1. CASE AddCaches(have, view) = have
  BY <1>1
<1>2. CASE AddCaches(have, view) # have
  <2>1. PICK x \in Cache : x = view[1]
    BY <1>2, SMT DEF AddCaches
  <2>2. Append(have, x) \in Seq(Cache)
    BY <2>1, SMT
  <2>3. PICK q \in Seq(Cache) : q = Append(have, x)
    BY <2>2
  <2>4. ASSUME NEW m \in DOMAIN q, NEW n \in DOMAIN q, q[m] = q[n] PROVE m = n
    BY <1>2, <2>1, <2>3, <2>4, SMT DEF AddCaches
  <2> QED
    BY <1>2, <2>1, <2>3, <2>4 DEF AddCaches
<1> QED
  BY <1>1, <1>2

(* Every step keeps web-caches from being listed twice. *)
LEMMA StepCaches ==
  ASSUME Library, Steady, CachesOnce, [Next]_vars
  PROVE  CachesOnce'
<1> SUFFICES ASSUME NEW g \in Group
             PROVE  \A m, n \in DOMAIN group'[g].caches :
                      group'[g].caches[m] = group'[g].caches[n] => m = n
  BY DEF CachesOnce
<1>1. CASE group'[g].caches = group[g].caches
  BY <1>1 DEF CachesOnce
<1>2. CASE group'[g].caches = <<>>
  BY <1>2, SMT
<1>3. ASSUME NEW view \in View, group'[g].caches = AddCaches(group[g].caches, view)
      PROVE  \A m, n \in DOMAIN group'[g].caches :
               group'[g].caches[m] = group'[g].caches[n] => m = n
  <2>1. PICK have \in Seq(Cache) : have = group[g].caches
    BY WccpAssumption DEF Steady, Typed, ListsTyped, GroupType
  <2> QED
    BY <1>3, <2>1, AddsOnce, WccpAssumption, SMT DEF Steady, Typed, ListsTyped, GroupType,
       CachesOnce
<1> QED
  BY <1>1, <1>2, <1>3, StepLearning DEF Learning

-----------------------------------------------------------------------------
(* Whose socket a server's is *)

\* A step that neither opens nor closes a socket, and sends nothing.
Quiet ==
  /\ \A s \in Server : server'[s].sock = server[s].sock \/ server'[s].sock = 0
  /\ UNCHANGED <<fdt, closed>> /\ (sent' = sent \/ sent' = NULL)

(* A step of a client leaves the sockets and their servers. *)
LEMMA ClientsQuiet ==
  ASSUME Steady, ClientActs
  PROVE  Quiet
<1>1. PICK c \in Client :
        \/ insert_load(c) \/ cli_wccp_password(c) \/ cli_exit_wccp_mode(c)
        \/ insert_link(c) \/ insert_count(c)
        \/ \E id \in GroupId : cli_enter_wccp_mode(c, id)
        \/ \E ip \in Ip : cli_wccp_server(c, ip)
  BY DEF ClientActs
<1>2. CASE UNCHANGED server
  BY <1>1, <1>2 DEF Quiet, insert_load, insert_link, insert_count, cli_wccp_password,
     cli_exit_wccp_mode, cli_enter_wccp_mode, cli_wccp_server, network, history
<1>3. CASE insert_link(c)
  BY <1>1, <1>3, LinkSteady DEF KeepsData, Quiet, insert_load, insert_link, insert_count,
     cli_wccp_password, cli_exit_wccp_mode, cli_enter_wccp_mode, cli_wccp_server, network, history
<1>4. ASSUME NEW ip \in Ip, cli_wccp_server(c, ip) PROVE Quiet
  <2>1. CASE server' = [server EXCEPT ![Lowest(FreeServers)] = [NoServer EXCEPT !.ip = ip]]
    <3>1. ASSUME NEW s \in Server PROVE server'[s].sock = server[s].sock \/ server'[s].sock = 0
      BY <2>1, <3>1, NewRecords DEF Steady, Typed, ListsTyped
    <3> QED
      BY <1>1, <3>1 DEF Quiet, insert_load, insert_link, insert_count, cli_wccp_password,
         cli_exit_wccp_mode, cli_enter_wccp_mode, cli_wccp_server, network, history
  <2> QED
    BY <1>2, <1>4, <2>1 DEF cli_wccp_server
<1> QED
  BY <1>1, <1>2, <1>3, <1>4 DEF insert_load, insert_count, cli_wccp_password,
     cli_exit_wccp_mode, cli_enter_wccp_mode, lists

(* A step that leaves the sockets keeps them those of their servers. *)
LEMMA QuietKeeps ==
  ASSUME OwnSocket, Quiet
  PROVE  OwnSocket'
BY DEF OwnSocket, Quiet

(* Opening a socket. *)
LEMMA OpenKeeps ==
  ASSUME Library, Steady, OwnSocket, wccp_open
  PROVE  OwnSocket'
<1>1. CASE UNCHANGED <<server, fdt>>
  BY <1>1 DEF OwnSocket, wccp_open
<1>2. CASE /\ Lowest(FreeFds) \in FreeFds
           /\ server' = [server EXCEPT ![w.s].sock = Lowest(FreeFds)]
           /\ fdt' = [fdt EXCEPT ![Lowest(FreeFds)] = w.s]
           /\ \A s \in Server :
                /\ server'[s].ip = server[s].ip /\ server'[s].next = server[s].next
                /\ server'[s].sock = IF s = w.s THEN Lowest(FreeFds) ELSE server[s].sock
  <2>1. PICK d \in FreeFds : d = Lowest(FreeFds)
    BY <1>2
  <2>2. ASSUME NEW s \in Server, server'[s].sock # 0, s \notin closed PROVE fdt'[server'[s].sock] = s
    BY <1>2, <2>1, <2>2, Sizes, SMT DEF Steady, Typed, NetworkTyped, ListsTyped, FreeFds, OwnSocket,
       ServerType
  <2> QED
    BY <2>2 DEF OwnSocket, wccp_open
<1> QED
  BY <1>1, <1>2, OpenSteady

(* Sending a message. *)
LEMMA SendKeeps ==
  ASSUME Library, Steady, OwnSocket, wccp_here_i_am \/ wccp_redirect_assign
  PROVE  OwnSocket'
<1>1. Send /\ w.pc \in {"here_i_am", "redirect_assign"}
  BY DEF wccp_here_i_am, wccp_redirect_assign
<1>2. CASE sent' = NULL
  BY <1>2, HelloSteady DEF OwnSocket
<1>3. CASE sent' # NULL
  BY <1>1, <1>3, AtServerHas, HelloSteady, Sizes DEF OwnSocket, Send, AtServer
<1> QED
  BY <1>2, <1>3

(* Closing a socket. *)
LEMMA CloseKeeps ==
  ASSUME Steady, OwnSocket, NEW d \in w.events, Close(d), sent' = NULL,
         \A s \in Server : server'[s].sock = server[s].sock
  PROVE  OwnSocket'
<1>1. /\ d \in Fd /\ closed' = closed \cup {fdt[d]}
      /\ \A e \in Fd : fdt'[e] = IF e = d THEN NULL ELSE fdt[e]
  BY CloseFits
<1>2. ASSUME NEW s \in Server, server'[s].sock # 0, s \notin closed' PROVE fdt'[server'[s].sock] = s
  BY <1>1, <1>2, SMT DEF OwnSocket, ServerType, Steady, Typed, ListsTyped
<1> QED
  BY <1>2 DEF OwnSocket

(* Every step keeps the sockets as they should be. *)
LEMMA StepOwns ==
  ASSUME Library, Steady, OwnSocket, [Next]_vars
  PROVE  OwnSocket'
<1>1. CASE Quiet
  BY <1>1, QuietKeeps
<1>2. CASE UNCHANGED vars \/ NetworkActs
  BY <1>1, <1>2 DEF vars, lists, network, history, Quiet, NetworkActs, i_see_you,
     port_unreachable
<1>3. CASE ClientActs
  BY <1>1, <1>3, ClientsQuiet
<1>4. CASE ThreadActs
  <2>1. CASE (\E due \in SUBSET Server : epoll_wait(due)) \/ epoll_again \/ wccp_hello
    BY <1>1, <2>1 DEF epoll_wait, epoll_again, wccp_hello, lists, network, history, Quiet
  <2>2. CASE wccp_open
    BY <2>2, OpenKeeps
  <2>3. CASE wccp_here_i_am \/ wccp_redirect_assign
    BY <2>3, SendKeeps
  <2>4. ASSUME NEW d \in Fd, epoll_error(d) PROVE OwnSocket'
    BY <2>4, CloseKeeps DEF Steady, ThreadFits, epoll_error, lists
  <2>5. ASSUME NEW d \in Fd, epoll_receive(d) PROVE OwnSocket'
    BY <1>1, <2>5, ReceiveSteady DEF Handled, Quiet, epoll_receive
  <2>6. ASSUME NEW d \in Fd, epoll_receive_fails(d) PROVE OwnSocket'
    BY <2>6, CloseKeeps, ReceiveSteady DEF Handled, epoll_receive_fails
  <2> QED
    BY <1>4, <2>1, <2>2, <2>3, <2>4, <2>5, <2>6 DEF ThreadActs
<1> QED
  BY <1>2, <1>3, <1>4, Actors, StepSteady

-----------------------------------------------------------------------------
(* The lists, as long as no two clients were adding to one of them *)

\* The lists, by their heads: that of the groups, and for a group that of its servers.
Heads == Group \cup {GROUPS}
Kin(h) == IF h = GROUPS THEN {GROUPS} ELSE Group    \* the lists of items of the same kind
Universe(h) == IF h = GROUPS THEN Group ELSE Server
NextOf(h) == IF h = GROUPS THEN GroupNext ELSE ServerNext
Key(h, x) == IF h = GROUPS THEN group[x].id ELSE server[x].ip
ItemsOf(h) == Items(Nth(ListHead(h).next, NextOf(h)))

\* From the head on, next leads through the items of M in ascending order.
Chain(head, next, M) ==
  /\ M = {} => head.next = NULL
  /\ M # {} => /\ head.next \in M /\ head.prev \in M
               /\ \A m \in M : head.next <= m /\ m <= head.prev
  /\ \A m \in M : \/ next[m] = NULL /\ \A k \in M : k <= m
                  \/ next[m] \in M /\ m < next[m] /\ \A k \in M : ~ (m < k /\ k < next[m])

\* The list of h leads through items that were made, of which no two have the same key.
Listed(h) ==
  /\ Chain(ListHead(h), NextOf(h), ItemsOf(h))
  /\ ItemsOf(h) \subseteq Universe(h)
  /\ \A x \in ItemsOf(h) : Key(h, x) # NULL
  /\ \A x, y \in ItemsOf(h) : Key(h, x) = Key(h, y) => x = y
\* What is made is always the lowest that is not.
InOrder(h) ==
  \A x, y \in Universe(h) : Key(h, x) # NULL /\ Key(h, y) = NULL => x < y
Apart == \A h, k \in Group : h # k => ItemsOf(h) \cap ItemsOf(k) = {}

\* One client at a time adds to a list.
Busy(c) == cli[c].pc # "idle"
Alone == \A c, d \in Client : Busy(c) /\ Busy(d) /\ cli[c].head = cli[d].head => c = d

\* An item before it is linked.
Joining(c) == cli[c].pc \in {"load", "link"}
Joins(c) ==
  LET h == cli[c].head
      i == cli[c].item
  IN  /\ \A k \in Kin(h) : i \notin ItemsOf(k)
      /\ \A m \in ItemsOf(h) : m < i /\ Key(h, m) # Key(h, i)
      /\ NextOf(h)[i] = NULL
      /\ cli[c].pc = "link" =>
           cli[c].tail = IF ListHead(h).next = NULL THEN NULL ELSE ListHead(h).prev
Joiners ==
  /\ \A c \in Client : Joining(c) => Joins(c)
  /\ \A c, d \in Client : Joining(c) /\ Joining(d) /\ cli[c].item = cli[d].item
                          /\ cli[d].head \in Kin(cli[c].head) => c = d

\* An item that is linked is counted by the client that has linked it.
Counts(c, h) == cli[c].pc = "count" /\ cli[c].head = h
Counted(h) ==
  /\ \A c \in Client : Counts(c, h) =>
       cli[c].n = ListHead(h).count /\ ListHead(h).count + 1 = Cardinality(ItemsOf(h))
  /\ (\A c \in Client : ~ Counts(c, h)) => ListHead(h).count = Cardinality(ItemsOf(h))

\* Every group is in the list, or about to be.
Found ==
  /\ \A g \in Group : group[g].id # NULL =>
       \/ g \in ItemsOf(GROUPS)
       \/ \E c \in Client : Joining(c) /\ cli[c].head = GROUPS /\ cli[c].item = g
  /\ \A g, h \in Group : group[g].id # NULL /\ group[g].id = group[h].id => g = h

\* No item leaves a list.
Grows == \A h \in Heads : ItemsOf(h) \subseteq ItemsOf(h)'

Linear ==
  /\ \A h \in Heads : Listed(h) /\ InOrder(h) /\ Counted(h)
  /\ Apart /\ Alone /\ Joiners /\ Found

\* A client's group has been made; one that has not is as it was at first.
Made ==
  /\ \A c \in Client : /\ cli[c].data # NULL => group[cli[c].data].id # NULL
                       /\ Busy(c) /\ cli[c].head \in Group => group[cli[c].head].id # NULL
  /\ \A g \in Group : group[g].id = NULL => group[g].servers = EmptyHead

\* The number of routers that the WCCP thread has read is still the number of them.
NumberHolds ==
  w.pc \in {"here_i_am", "redirect_assign"} /\ ~ torn =>
    ~ Adding(w.g) /\ w.n = group[w.g].servers.count

Intact == Made /\ NumberHolds /\ WellFormed /\ (~ raced => Linear)

(* A chain through M leads to the items of M and to no others. *)
LEMMA ChainItems ==
  ASSUME Library, NEW N \in Nat, NEW head, NEW M \in SUBSET (1 .. N), NULL \notin Nat,
         NEW next \in [(1 .. N) \cup {NULL} -> (1 .. N) \cup {NULL}], next[NULL] = NULL,
         Chain(head, next, M)
  PROVE  Items(Nth(head.next, next)) = M
<1> DEFINE X == (1 .. N) \cup {NULL}
           C == N + 1
           at == Nth(head.next, next)
<1>1. C \in Nat /\ C = Cardinality(X)
  <2>1. IsFiniteSet(1 .. N) /\ Cardinality(1 .. N) = N
    BY Small, SMT
  <2>2. NULL \notin 1 .. N
    BY SMT
  <2> QED
    BY <2>1, <2>2, AddElement, SMT
<1>2. head.next \in M \cup {NULL} /\ head.next \in X /\ next \in [X -> X]
  BY DEF Chain
<1>3. /\ at \in [1 .. C -> X]
      /\ \A n \in 1 .. C : at[n] = IF n = 1 THEN head.next ELSE next[at[n - 1]]
  <2> HIDE DEF X, C
  <2> QED
    BY <1>1, <1>2, NthFollows, SMT
<1> HIDE DEF at
<1>4. ASSUME NEW j \in 1 .. C, at[j] \notin M \cup {NULL} PROVE FALSE
  <2> DEFINE Bad == {n \in Nat : n \in 1 .. C /\ at[n] \notin M \cup {NULL}}
  <2>1. Bad # {} /\ Bad \in SUBSET Nat
    BY <1>4, SMT
  <2>2. PICK k \in Bad : \A i \in Bad : k <= i
    BY <2>1, Least
  <2>3. CASE k = 1
    BY <1>2, <1>3, <2>2, <2>3
  <2>4. CASE k # 1
    BY <1>3, <2>2, <2>4, SMT DEF Chain
  <2> QED
    BY <2>3, <2>4
<1>5. Items(at) \subseteq M
  BY <1>3, <1>4, SMT DEF Items
<1>6. ASSUME NEW m \in M, m \notin Items(at) PROVE FALSE
  <2>1. \A n \in 1 .. C : at[n] # m
    BY <1>3, <1>6, SMT DEF Items
  <2> DEFINE Good(n) == at[n] \in M /\ n <= at[n] /\ at[n] < m
             Bad == {n \in Nat : n \in 1 .. C /\ ~ Good(n)}
  <2>2. 1 \in 1 .. C /\ C \in 1 .. C
    BY <1>1, SMT
  <2>3. Good(1)
    <3>1. at[1] = head.next /\ at[1] # m
      BY <1>3, <2>1, <2>2
    <3>2. PICK f \in M : f = at[1]
      BY <3>1 DEF Chain
    <3> QED
      BY <3>1, <3>2, SMT DEF Chain
  <2>4. CASE Bad = {}
    <3>1. Good(C)
      BY <1>1, <2>2, <2>4
    <3>2. at[C] \in 1 .. N
      BY <3>1
    <3> QED
      BY <1>1, <3>1, <3>2, SMT
  <2>5. CASE Bad # {}
    <3>1. PICK k \in Bad : \A i \in Bad : k <= i
      BY <2>5, Least
    <3>2. Good(k - 1)
      BY <2>3, <3>1, SMT
    <3>3. PICK p \in M : p = at[k - 1]
      BY <3>2
    <3>4. at[k] = next[p] /\ at[k] # m
      BY <1>3, <2>1, <2>3, <3>1, <3>3
    <3>5. p < m /\ k - 1 <= p /\ p \in Nat /\ m \in Nat
      BY <3>2, <3>3, SMT
    <3>6. next[p] \in M /\ p < next[p] /\ ~ (p < m /\ m < next[p])
      BY <3>5, SMT DEF Chain
    <3>7. PICK q \in M : q = next[p]
      BY <3>6
    <3> QED
      BY <2>3, <3>1, <3>4, <3>5, <3>6, <3>7, SMT
  <2> QED
    BY <2>4, <2>5
<1> QED
  BY <1>5, <1>6 DEF at

(* A chain stays one if nothing of it changes. *)
LEMMA ChainKept ==
  ASSUME NEW head, NEW next, NEW M, NEW head2, NEW next2, Chain(head, next, M),
         head2.next = head.next, head2.prev = head.prev, \A m \in M : next2[m] = next[m]
  PROVE  Chain(head2, next2, M)
BY DEF Chain

(* Linking an item behind the last one, or into an empty list. *)
LEMMA ChainGrows ==
  ASSUME NEW head, NEW next, NEW M \in SUBSET Nat, NEW head2, NEW next2, NEW i \in Nat, NEW t,
         NULL \notin Nat, Chain(head, next, M), \A m \in M : m < i, next[i] = NULL,
         t = IF head.next = NULL THEN NULL ELSE head.prev,
         head2.next = IF t = NULL THEN i ELSE head.next, head2.prev = i,
         \A m \in M \cup {i} : next2[m] = IF m = t THEN i ELSE next[m]
  PROVE  Chain(head2, next2, M \cup {i})
<1>1. CASE M = {}
  BY <1>1, SMT DEF Chain
<1>2. CASE M # {}
  <2>1. /\ head.next \in M /\ head.prev \in M /\ \A m \in M : head.next <= m /\ m <= head.prev
    BY <1>2 DEF Chain
  <2>2. t \in M /\ t \in Nat /\ (\A m \in M : m <= t) /\ t < i /\ t # i
    <3>1. t \in M /\ (\A m \in M : m <= t) /\ t < i
      BY <2>1
    <3> QED
      BY <3>1, SMT
  <2>3. \A k \in M \cup {i} : k <= i
    BY SMT
  <2>4. \A m \in M \cup {i} : head2.next <= m /\ m <= head2.prev
    BY <2>1, <2>3
  <2>5. ASSUME NEW m \in M, m # t
        PROVE  next2[m] \in M \cup {i} /\ m < next2[m] /\ \A k \in M \cup {i} : ~ (m < k /\ k < next2[m])
    <3>1. ~ (\A k \in M : k <= m)
      BY <2>2, <2>5, SMT
    <3>2. next[m] \in Nat /\ next[m] < i
      BY <3>1 DEF Chain
    <3> QED
      BY <2>5, <3>1, <3>2, SMT DEF Chain
  <2>6. ASSUME NEW m \in M \cup {i}
        PROVE  \/ next2[m] = NULL /\ \A k \in M \cup {i} : k <= m
               \/ /\ next2[m] \in M \cup {i} /\ m < next2[m]
                  /\ \A k \in M \cup {i} : ~ (m < k /\ k < next2[m])
    BY <2>2, <2>3, <2>5, <2>6, SMT
  <2> QED
    BY <2>1, <2>4, <2>6 DEF Chain
<1> QED
  BY <1>1, <1>2

(* The links of the items of a list. *)
LEMMA NextTyped ==
  ASSUME NEW h \in Heads
  PROVE  /\ ListsTyped => /\ NextOf(h) \in [Universe(h) \cup {NULL} -> Universe(h) \cup {NULL}]
                          /\ NextOf(h)[NULL] = NULL
         /\ ListsTyped' => /\ NextOf(h)' \in [Universe(h) \cup {NULL} -> Universe(h) \cup {NULL}]
                           /\ NextOf(h)'[NULL] = NULL
<1>1. ASSUME ListsTyped
      PROVE  /\ GroupNext \in [Group \cup {NULL} -> Group \cup {NULL}] /\ GroupNext[NULL] = NULL
             /\ ServerNext \in [Server \cup {NULL} -> Server \cup {NULL}] /\ ServerNext[NULL] = NULL
  BY <1>1, Sizes DEF GroupNext, ServerNext, ListsTyped, GroupType, ServerType
<1>2. ASSUME ListsTyped'
      PROVE  /\ GroupNext' \in [Group \cup {NULL} -> Group \cup {NULL}] /\ GroupNext'[NULL] = NULL
             /\ ServerNext' \in [Server \cup {NULL} -> Server \cup {NULL}] /\ ServerNext'[NULL] = NULL
  BY <1>2, Sizes DEF GroupNext, ServerNext, ListsTyped, GroupType, ServerType
<1>3. CASE h = GROUPS
  BY <1>1, <1>2, <1>3 DEF NextOf, Universe
<1>4. CASE h # GROUPS
  BY <1>1, <1>2, <1>4 DEF NextOf, Universe
<1> QED
  BY <1>3, <1>4

(* What the items of a list are after a step. *)
LEMMA ItemsBecome ==
  ASSUME Library, ListsTyped', NEW h \in Heads, NEW M \in SUBSET Universe(h),
         Chain(ListHead(h)', NextOf(h)', M)
  PROVE  ItemsOf(h)' = M
<1>1. PICK N \in Nat : Universe(h) = 1 .. N
  BY WccpAssumption DEF Universe, Group, Server
<1>2. PICK next : next = NextOf(h)'
  OBVIOUS
<1>3. PICK head : head = ListHead(h)'
  OBVIOUS
<1>4. Chain(head, next, M) /\ M \in SUBSET (1 .. N)
  BY <1>1, <1>2, <1>3
<1> QED
  BY <1>1, <1>2, <1>3, <1>4, ChainItems, NextTyped, WccpAssumption DEF ItemsOf

(* A list of which no link changes has the items it had. *)
LEMMA ItemsStay ==
  ASSUME Library, ListsTyped', NEW h \in Heads, Listed(h),
         ListHead(h)'.next = ListHead(h).next, ListHead(h)'.prev = ListHead(h).prev,
         \A m \in ItemsOf(h) : NextOf(h)'[m] = NextOf(h)[m]
  PROVE  ItemsOf(h)' = ItemsOf(h) /\ Chain(ListHead(h)', NextOf(h)', ItemsOf(h)')
BY ChainKept, ItemsBecome, SMT DEF Listed

\* A step leaves the head of a list, and its items with their keys.
Leaves(h) ==
  /\ ListHead(h)'.next = ListHead(h).next /\ ListHead(h)'.prev = ListHead(h).prev
  /\ \A m \in ItemsOf(h) : NextOf(h)'[m] = NextOf(h)[m] /\ Key(h, m)' = Key(h, m)

(* A list whose links and keys stay has the same items. *)
LEMMA ListedStays ==
  ASSUME Library, ListsTyped', NEW h \in Heads, Listed(h), Leaves(h)
  PROVE  Listed(h)' /\ ItemsOf(h)' = ItemsOf(h)
BY ItemsStay, SMT DEF Listed, Leaves, Universe

\* A step neither ends nor begins to count for the list.
SameCount(h) ==
  /\ ListHead(h)'.count = ListHead(h).count
  /\ \A c \in Client : (Counts(c, h)' <=> Counts(c, h)) /\ (Counts(c, h) => cli'[c].n = cli[c].n)

(* A list whose items, number and counting clients stay is still counted. *)
LEMMA CountedStays ==
  ASSUME NEW h, Counted(h), SameCount(h), ItemsOf(h)' = ItemsOf(h)
  PROVE  Counted(h)'
BY DEF Counted, SameCount

(* A step that leaves all lists. *)
LEMMA ListsStay ==
  ASSUME Library, ListsTyped', Linear, \A h \in Heads : Leaves(h) /\ SameCount(h)
  PROVE  /\ \A h \in Heads : Listed(h)' /\ Counted(h)' /\ ItemsOf(h)' = ItemsOf(h)
         /\ Apart'
<1>1. ASSUME NEW h \in Heads PROVE Listed(h)' /\ Counted(h)' /\ ItemsOf(h)' = ItemsOf(h)
  BY CountedStays, ListedStays DEF Linear
<1> QED
  BY <1>1 DEF Linear, Apart, Heads

\* The client's insert_list_item is where it was.
SameClient(c) ==
  /\ cli'[c].pc = cli[c].pc /\ cli'[c].head = cli[c].head /\ cli'[c].item = cli[c].item
  /\ cli'[c].tail = cli[c].tail /\ cli'[c].n = cli[c].n

(* What a client is about to link stays so. *)
LEMMA JoinsStays ==
  ASSUME NEW c \in Client, Joins(c), SameClient(c), NEW h \in Heads, NEW i,
         h = cli[c].head, i = cli[c].item, \A k \in Kin(h) : i \notin ItemsOf(k)',
         ItemsOf(h)' = ItemsOf(h), Leaves(h), Key(h, i)' = Key(h, i),
         NextOf(h)'[i] = NextOf(h)[i]
  PROVE  Joins(c)'
<1>1. h = cli'[c].head /\ i = cli'[c].item /\ cli'[c].pc = cli[c].pc /\ cli'[c].tail = cli[c].tail
  BY DEF SameClient
<1>2. /\ \A m \in ItemsOf(h)' : m < i /\ Key(h, m)' # Key(h, i)'
      /\ NextOf(h)'[i] = NULL
      /\ cli'[c].pc = "link" =>
           cli'[c].tail = IF ListHead(h)'.next = NULL THEN NULL ELSE ListHead(h)'.prev
  <2>1. ASSUME NEW m \in ItemsOf(h) PROVE m < i /\ Key(h, m)' # Key(h, i)'
    <3>1. Key(h, m)' = Key(h, m)
      BY DEF Leaves
    <3> QED
      BY <3>1 DEF Joins
  <2> QED
    BY <1>1, <2>1 DEF Leaves, Joins
<1> QED
  BY <1>1, <1>2 DEF Joins, Kin

\* A step leaves the links, counts and keys of all lists.
SameShape ==
  \A h \in Heads :
    /\ ListHead(h)'.next = ListHead(h).next /\ ListHead(h)'.prev = ListHead(h).prev
    /\ ListHead(h)'.count = ListHead(h).count
    /\ \A x \in Universe(h) : NextOf(h)'[x] = NextOf(h)[x] /\ Key(h, x)' = Key(h, x)
\* The client reads the end of the list.
Loads(c) ==
  /\ cli[c].pc = "load" /\ cli'[c].pc = "link"
  /\ cli'[c].head = cli[c].head /\ cli'[c].item = cli[c].item
  /\ cli'[c].tail = IF ListHead(cli[c].head).next = NULL THEN NULL ELSE ListHead(cli[c].head).prev

(* What a client that is at work adds, and to which list. *)
LEMMA BusyAdds ==
  ASSUME Steady, NEW c \in Client, Busy(c)
  PROVE  /\ cli[c].head \in Heads /\ cli[c].item \in Universe(cli[c].head)
         /\ Key(cli[c].head, cli[c].item) # NULL
<1>1. CASE cli[c].head = GROUPS
  BY <1>1 DEF Adds, Heads, Universe, Key, Steady, ClientsAdd, Busy
<1>2. CASE cli[c].head # GROUPS
  BY <1>2 DEF Adds, Heads, Universe, Key, Steady, ClientsAdd, Busy
<1> QED
  BY <1>1, <1>2

(* The kin of a list are lists of the same kind. *)
LEMMA KinAre ==
  ASSUME NEW h \in Heads
  PROVE  /\ Kin(h) \subseteq Heads /\ h \in Kin(h)
         /\ \A k \in Kin(h) : /\ Universe(k) = Universe(h) /\ Kin(k) = Kin(h)
                              /\ NextOf(k) = NextOf(h) /\ NextOf(k)' = NextOf(h)'
                              /\ \A x : Key(k, x) = Key(h, x) /\ Key(k, x)' = Key(h, x)'
         /\ Universe(h) \subseteq Nat
<1>1. CASE h = GROUPS
  BY <1>1, Sizes DEF Heads, Kin, Universe
<1>2. CASE h # GROUPS
  BY <1>2, Sizes DEF Heads, Kin, Universe, NextOf, Key
<1> QED
  BY <1>1, <1>2

(* Steps that change no list keep the lists linear. *)
LEMMA ShapeStays ==
  ASSUME Library, Steady, Steady', Linear, SameShape, UNCHANGED raced,
         \A c \in Client : SameClient(c) \/ Loads(c),
         \A g \in Group : group'[g].id = group[g].id
  PROVE  Linear' /\ Grows
<1>1. /\ \A h \in Heads : Listed(h) /\ InOrder(h) /\ Counted(h)
      /\ Apart /\ Alone /\ Joiners /\ Found
  BY DEF Linear
<1>2. ASSUME NEW c \in Client
      PROVE  /\ cli'[c].head = cli[c].head /\ cli'[c].item = cli[c].item
             /\ Busy(c)' <=> Busy(c)
             /\ Joining(c)' <=> Joining(c)
             /\ \A h : (Counts(c, h)' <=> Counts(c, h)) /\ (Counts(c, h) => cli'[c].n = cli[c].n)
  BY <1>2 DEF SameClient, Busy, Joining, Counts, Loads
<1>3. ASSUME NEW h \in Heads PROVE Leaves(h) /\ SameCount(h)
  BY <1>1, <1>2 DEF SameShape, Leaves, SameCount, Listed
<1>4. ASSUME NEW h \in Heads PROVE InOrder(h)'
  <2>1. InOrder(h) /\ Universe(h)' = Universe(h) /\ \A x \in Universe(h) : Key(h, x)' = Key(h, x)
    BY <1>1 DEF SameShape, Universe
  <2> QED
    BY <2>1 DEF InOrder
<1>5. ASSUME NEW c \in Client, Joining(c)' PROVE Joins(c)'
  <2>1. Joining(c) /\ Joins(c)
    BY <1>1, <1>2, <1>5 DEF Joiners
  <2>2. PICK h \in Heads : h = cli[c].head
    BY <2>1, BusyAdds DEF Joining, Busy
  <2>3. PICK i \in Universe(h) : i = cli[c].item
    BY <2>1, <2>2, BusyAdds DEF Joining, Busy
  <2>4. /\ \A k \in Kin(h) : i \notin ItemsOf(k)' /\ ItemsOf(k)' = ItemsOf(k)
        /\ ItemsOf(h)' = ItemsOf(h) /\ Leaves(h) /\ Key(h, i)' = Key(h, i) /\ NextOf(h)'[i] = NextOf(h)[i]
    <3>1. \A k \in Kin(h) : i \notin ItemsOf(k)
      BY <2>1, <2>2, <2>3 DEF Joins
    <3> QED
      BY <1>3, <3>1, KinAre, ListsStay DEF SameShape, Steady, Typed
  <2>5. CASE SameClient(c)
    BY <2>1, <2>2, <2>3, <2>4, <2>5, JoinsStays
  <2>6. CASE Loads(c)
    <3>1. /\ \A m \in ItemsOf(h) : m < i /\ Key(h, m) # Key(h, i)
          /\ NextOf(h)[i] = NULL
      BY <2>1, <2>2, <2>3 DEF Joins
    <3>2. \A m \in ItemsOf(h)' : m < i /\ Key(h, m)' # Key(h, i)'
      BY <2>4, <3>1 DEF Leaves
    <3>3. cli'[c].tail = IF ListHead(h)'.next = NULL THEN NULL ELSE ListHead(h)'.prev
      <4>1. ListHead(h)'.next = ListHead(h).next /\ ListHead(h)'.prev = ListHead(h).prev
        BY <2>4 DEF Leaves
      <4> QED
        BY <2>2, <2>6, <4>1 DEF Loads
    <3> QED
      BY <1>2, <2>2, <2>3, <2>4, <3>1, <3>2, <3>3 DEF Joins, Kin
  <2> QED
    BY <2>5, <2>6
<1>6. Joiners'
  <2>1. \A c, d \in Client : Joining(c)' /\ Joining(d)' /\ cli'[c].item = cli'[d].item
                             /\ cli'[d].head \in Kin(cli'[c].head) => c = d
    BY <1>1, <1>2 DEF Joiners
  <2> QED
    BY <1>5, <2>1 DEF Joiners, Kin
<1>7. Found'
  <2>1. ASSUME NEW g \in Group, group'[g].id # NULL
        PROVE  \/ g \in ItemsOf(GROUPS)'
               \/ \E c \in Client : Joining(c)' /\ cli'[c].head = GROUPS /\ cli'[c].item = g
    <3>1. \/ g \in ItemsOf(GROUPS)
          \/ \E c \in Client : Joining(c) /\ cli[c].head = GROUPS /\ cli[c].item = g
      BY <1>1, <2>1 DEF Found
    <3> QED
      BY <1>2, <1>3, <3>1, ListsStay DEF Heads, Steady, Typed
  <2>2. \A g, h \in Group : group'[g].id # NULL /\ group'[g].id = group'[h].id => g = h
    BY <1>1 DEF Found
  <2> QED
    BY <2>1, <2>2 DEF Found
<1>8. Linear'
  BY <1>1, <1>2, <1>3, <1>4, <1>6, <1>7, ListsStay DEF Linear, Heads, Alone, Steady, Typed
<1>9. Grows
  BY <1>3, ListsStay DEF Grows, Steady, Typed
<1> QED
  BY <1>8, <1>9

(* The clients that do nothing are where they were. *)
LEMMA SameOthers ==
  ASSUME NEW c \in Client, cli'[c] = cli[c]
  PROVE  /\ SameClient(c) /\ (Busy(c)' <=> Busy(c)) /\ (Joining(c)' <=> Joining(c))
         /\ \A h : (Counts(c, h)' <=> Counts(c, h)) /\ (Counts(c, h) => cli'[c].n = cli[c].n)
BY DEF SameClient, Busy, Joining, Counts

\* A step leaves the head of a list.
SameHead(h) ==
  /\ ListHead(h)'.next = ListHead(h).next /\ ListHead(h)'.prev = ListHead(h).prev
  /\ ListHead(h)'.count = ListHead(h).count

(* A client that alone adds to a list starts to add the lowest that is     *)
(* free, with a key that is not in the list.                               *)
LEMMA InsertStays ==
  ASSUME Library, Steady, Steady', Linear, Found', NEW c \in Client, NEW h \in Heads, NEW new \in Universe(h),
         ~ Busy(c), cli'[c].pc = "load", cli'[c].head = h, cli'[c].item = new,
         \A d \in Client \ {c} : cli'[d] = cli[d] /\ ~ (Busy(d) /\ cli[d].head = h),
         Key(h, new) = NULL, \A y \in Universe(h) : Key(h, y) = NULL => new <= y,
         Key(h, new)' # NULL, \A m \in ItemsOf(h) : Key(h, m) # Key(h, new)',
         NextOf(h)'[new] = NULL, \A k \in Heads : SameHead(k),
         \A k \in Heads : \A x \in Universe(k) : ~ (k \in Kin(h) /\ x = new) =>
           NextOf(k)'[x] = NextOf(k)[x] /\ Key(k, x)' = Key(k, x)
  PROVE  Linear' /\ Grows
<1>1. /\ \A k \in Heads : Listed(k) /\ InOrder(k) /\ Counted(k)
      /\ Apart /\ Alone /\ Joiners
  BY DEF Linear
<1>2. ASSUME NEW d \in Client, d # c
      PROVE  /\ SameClient(d) /\ (Busy(d)' <=> Busy(d)) /\ (Joining(d)' <=> Joining(d))
             /\ \A k : (Counts(d, k)' <=> Counts(d, k)) /\ (Counts(d, k) => cli'[d].n = cli[d].n)
             /\ cli'[d].head = cli[d].head /\ cli'[d].item = cli[d].item
  BY <1>2, SameOthers
<1>3. \A k \in Kin(h) : k \in Heads /\ Universe(k) = Universe(h) /\ Kin(k) = Kin(h)
  BY KinAre
<1>4. \A k \in Kin(h) : \A x : Key(k, x) = Key(h, x) /\ Key(k, x)' = Key(h, x)'
  BY KinAre
<1>5. ASSUME NEW k \in Kin(h) PROVE new \notin ItemsOf(k)
  <2>1. k \in Heads /\ Key(k, new) = NULL
    BY <1>3, <1>4
  <2> QED
    BY <1>1, <2>1 DEF Listed
<1>6. ASSUME NEW k \in Heads PROVE Leaves(k) /\ SameCount(k)
  <2>1. ItemsOf(k) \subseteq Universe(k) /\ (k \in Kin(h) => new \notin ItemsOf(k))
    BY <1>1, <1>5 DEF Listed
  <2>2. Leaves(k)
    BY <2>1 DEF SameHead, Leaves
  <2> QED
    BY <1>2, <2>2 DEF SameHead, SameCount, Busy, Joining, Counts
<1>7. /\ \A k \in Heads : Listed(k)' /\ Counted(k)' /\ ItemsOf(k)' = ItemsOf(k)
      /\ Apart'
  BY <1>6, ListsStay DEF Steady, Typed
<1>8. ASSUME NEW k \in Heads PROVE InOrder(k)'
  <2>1. Universe(k)' = Universe(k) /\ Universe(k) \subseteq Nat /\ InOrder(k)
    BY <1>1, KinAre DEF Universe
  <2>2. ASSUME NEW x \in Universe(k), NEW y \in Universe(k), Key(k, x)' # NULL, Key(k, y)' = NULL
        PROVE  x < y
    <3>1. CASE k \in Kin(h) /\ x = new
      <4>1. y # new /\ y \in Universe(h) /\ Key(h, y) = NULL
        <5>1. Key(k, y)' = Key(h, y)' /\ y \in Universe(h)
          BY <1>3, <1>4, <3>1
        <5> QED
          BY <2>2, <5>1
      <4>2. new <= y
        BY <4>1
      <4> QED
        BY <2>1, <3>1, <4>1, <4>2, SMT
    <3>2. CASE ~ (k \in Kin(h) /\ x = new)
      <4>1. ~ (k \in Kin(h) /\ y = new)
        <5>1. k \in Kin(h) => Key(k, new)' = Key(h, new)'
          BY <1>4
        <5> QED
          BY <2>2, <5>1
      <4>2. Key(k, x) # NULL /\ Key(k, y) = NULL
        BY <2>2, <3>2, <4>1
      <4> QED
        BY <2>1, <4>2 DEF InOrder
    <3> QED
      BY <3>1, <3>2
  <2> QED
    BY <2>1, <2>2 DEF InOrder
<1>9. Alone'
  <2> SUFFICES ASSUME NEW d \in Client, NEW e \in Client, Busy(d)', Busy(e)', cli'[d].head = cli'[e].head
               PROVE  d = e
    BY DEF Alone
  <2>1. CASE d = c \/ e = c
    BY <1>2, <2>1
  <2>2. CASE d # c /\ e # c
    BY <1>1, <1>2, <2>2 DEF Alone
  <2> QED
    BY <2>1, <2>2
<1>10. Joins(c)'
  <2>1. Kin(h)' = Kin(h) /\ \A k \in Kin(h) : new \notin ItemsOf(k)'
    <3>1. \A k \in Kin(h) : k \in Heads
      BY KinAre
    <3> QED
      BY <1>5, <1>7, <3>1 DEF Kin
  <2>2. ASSUME NEW m \in ItemsOf(h)' PROVE m < new /\ Key(h, m)' # Key(h, new)'
    <3>1. ItemsOf(h)' = ItemsOf(h) /\ Listed(h)
      BY <1>1, <1>7
    <3>2. m \in ItemsOf(h) /\ m \in Universe(h) /\ Key(h, m) # NULL
      BY <3>1 DEF Listed
    <3>3. m # new /\ Key(h, m)' = Key(h, m)
      BY <3>2
    <3> QED
      BY <1>1, <3>2, <3>3 DEF InOrder
  <2> QED
    BY <2>1, <2>2 DEF Joins
<1>11. ASSUME NEW d \in Client, d # c, Joining(d)
       PROVE  /\ Joins(d)'
              /\ cli[d].head \in Kin(h) => cli[d].item # new
  <2>1. Joins(d) /\ Busy(d)
    BY <1>1, <1>11 DEF Joining, Busy, Joiners
  <2>2. PICK k \in Heads : k = cli[d].head
    BY <2>1, BusyAdds
  <2>3. PICK i \in Universe(k) : i = cli[d].item /\ Key(k, i) # NULL
    BY <2>1, <2>2, BusyAdds
  <2>4. k \in Kin(h) => i # new
    <3>1. k \in Kin(h) => Key(k, new) = Key(h, new)
      BY <1>4
    <3> QED
      BY <2>3, <3>1
  <2>5. \A l \in Kin(k) : l \in Heads /\ i \notin ItemsOf(l)'
    <3>1. \A l \in Kin(k) : l \in Heads /\ i \notin ItemsOf(l)
      BY <2>1, <2>2, <2>3, KinAre DEF Joins
    <3> QED
      BY <1>7, <3>1
  <2>6. NextOf(k)'[i] = NextOf(k)[i] /\ Key(k, i)' = Key(k, i)
    BY <2>4
  <2>7. SameClient(d) /\ ItemsOf(k)' = ItemsOf(k) /\ Leaves(k)
    BY <1>2, <1>6, <1>7, <1>11
  <2> QED
    BY <2>1, <2>2, <2>3, <2>4, <2>5, <2>6, <2>7, JoinsStays
<1>12. Joiners'
  <2>1. ASSUME NEW d \in Client, Joining(d)' PROVE Joins(d)'
    BY <1>2, <1>10, <1>11, <2>1
  <2>2. ASSUME NEW d \in Client, NEW e \in Client, Joining(d)', Joining(e)',
               cli'[d].item = cli'[e].item, cli'[e].head \in Kin(cli'[d].head)
        PROVE  d = e
    <3>1. CASE d # c /\ e # c
      BY <1>1, <1>2, <2>2, <3>1 DEF Joiners
    <3>2. CASE d = c /\ e # c
      BY <1>2, <1>11, <2>2, <3>2
    <3>3. CASE d # c /\ e = c
      <4>1. Joining(d) /\ cli[d].item = new /\ h \in Kin(cli[d].head)
        BY <1>2, <2>2, <3>3
      <4>2. cli[d].head \in Heads
        BY <4>1, BusyAdds DEF Joining, Busy
      <4> QED
        BY <1>11, <3>3, <4>1, <4>2, KinAre
    <3> QED
      BY <3>1, <3>2, <3>3
  <2> QED
    BY <2>1, <2>2 DEF Joiners, Kin
<1>13. Linear'
  BY <1>7, <1>8, <1>9, <1>12 DEF Linear, Heads
<1> QED
  BY <1>7, <1>13 DEF Grows

(* A client links its item behind the tail it has read. *)
LEMMA LinkStays ==
  ASSUME Library, Steady, Steady', Linear, NEW c \in Client, NEW h \in Heads, NEW i \in Universe(h),
         h = cli[c].head, i = cli[c].item, cli[c].pc = "link",
         cli'[c].pc = "count", cli'[c].head = h, cli'[c].item = i, cli'[c].n = ListHead(h).count,
         \A d \in Client \ {c} : cli'[d] = cli[d],
         LinksHead(ListHead(h), ListHead(h)', cli[c].tail, i),
         \A k \in Heads \ {h} : SameHead(k),
         \A k \in Heads : \A x \in Universe(k) :
           /\ NextOf(k)'[x] = IF k \in Kin(h) /\ x = cli[c].tail THEN i ELSE NextOf(k)[x]
           /\ Key(k, x)' = Key(k, x),
         \A g \in Group : group'[g].id = group[g].id
  PROVE  Linear' /\ Grows
<1> DEFINE M == ItemsOf(h)
           t == cli[c].tail
<1>1. /\ \A k \in Heads : Listed(k) /\ InOrder(k) /\ Counted(k)
      /\ Apart /\ Alone /\ Joiners /\ Found
  BY DEF Linear
<1>2. /\ Busy(c) /\ Busy(c)' /\ Joining(c) /\ ~ Joining(c)'
      /\ \A k : ~ Counts(c, k) /\ (Counts(c, k)' <=> k = h)
  BY DEF Busy, Joining, Counts
<1>3. ASSUME NEW d \in Client, d # c
      PROVE  /\ SameClient(d) /\ (Busy(d)' <=> Busy(d)) /\ (Joining(d)' <=> Joining(d))
             /\ \A k : (Counts(d, k)' <=> Counts(d, k)) /\ (Counts(d, k) => cli'[d].n = cli[d].n)
             /\ cli'[d].head = cli[d].head /\ cli'[d].item = cli[d].item
  BY <1>3, SameOthers
<1>4. ASSUME NEW d \in Client, d # c, Busy(d) PROVE cli[d].head # h
  BY <1>1, <1>2, <1>4 DEF Alone
<1>5. NULL \notin Nat /\ Universe(h) \subseteq Nat /\ h \in Kin(h)
  BY KinAre, WccpAssumption
<1>6. /\ \A k \in Kin(h) : i \notin ItemsOf(k)
      /\ \A m \in M : m < i /\ Key(h, m) # Key(h, i)
      /\ NextOf(h)[i] = NULL
      /\ t = IF ListHead(h).next = NULL THEN NULL ELSE ListHead(h).prev
  <2>1. Joins(c)
    BY <1>1, <1>2 DEF Joiners
  <2> QED
    BY <2>1 DEF Joins
<1>7. /\ Chain(ListHead(h), NextOf(h), M) /\ M \subseteq Universe(h)
      /\ \A x \in M : Key(h, x) # NULL
      /\ \A x, y \in M : Key(h, x) = Key(h, y) => x = y
  BY <1>1 DEF Listed
<1>8. t \in M \cup {NULL}
  BY <1>6, <1>7 DEF Chain
<1> HIDE DEF M, t
<1>9. ItemsOf(h)' = M \cup {i} /\ Chain(ListHead(h)', NextOf(h)', M \cup {i})
  <2>1. PICK head : head = ListHead(h)
    OBVIOUS
  <2>2. PICK head2 : head2 = ListHead(h)'
    OBVIOUS
  <2>3. PICK next : next = NextOf(h)
    OBVIOUS
  <2>4. PICK next2 : next2 = NextOf(h)'
    OBVIOUS
  <2>5. M \in SUBSET Nat /\ i \in Nat /\ M \cup {i} \in SUBSET Universe(h)
    BY <1>5, <1>7
  <2>6. \A m \in M \cup {i} : next2[m] = IF m = t THEN i ELSE next[m]
    BY <1>5, <2>3, <2>4, <2>5 DEF t
  <2>7. head2.next = (IF t = NULL THEN i ELSE head.next) /\ head2.prev = i
    BY <2>1, <2>2 DEF LinksHead, t
  <2>8. Chain(head, next, M) /\ next[i] = NULL /\ t = IF head.next = NULL THEN NULL ELSE head.prev
    BY <1>6, <1>7, <2>1, <2>3
  <2>9. \A m \in M : m < i
    BY <1>6
  <2>10. Chain(head2, next2, M \cup {i})
    BY <1>5, <2>5, <2>6, <2>7, <2>8, <2>9, ChainGrows, SMT
  <2>11. Chain(ListHead(h)', NextOf(h)', M \cup {i})
    BY <2>2, <2>4, <2>10
  <2> QED
    BY <2>5, <2>11, ItemsBecome DEF Steady, Typed
<1>10. ASSUME NEW k \in Heads, k # h
       PROVE  /\ Leaves(k) /\ SameCount(k) /\ Listed(k)' /\ Counted(k)' /\ ItemsOf(k)' = ItemsOf(k)
  <2>1. SameHead(k) /\ Listed(k) /\ Counted(k) /\ ItemsOf(k) \subseteq Universe(k)
    BY <1>1, <1>10 DEF Listed
  <2>2. k \in Kin(h) => ItemsOf(k) \cap M = {}
    BY <1>1, <1>10 DEF Apart, M, Kin, Heads
  <2>3. \A x \in ItemsOf(k) : ~ (k \in Kin(h) /\ x = t)
    <3>1. NULL \notin ItemsOf(k)
      BY <2>1, KinAre, WccpAssumption
    <3> QED
      BY <1>8, <2>2, <3>1
  <2>4. Leaves(k)
    BY <2>1, <2>3 DEF SameHead, Leaves, t
  <2>5. SameCount(k)
    BY <1>2, <1>3, <1>10, <2>1 DEF SameHead, SameCount
  <2>6. Listed(k)' /\ ItemsOf(k)' = ItemsOf(k)
    BY <2>1, <2>4, ListedStays DEF Steady, Typed
  <2> QED
    BY <2>1, <2>4, <2>5, <2>6, CountedStays
<1>11. Listed(h)'
  <2>1. \A x \in M \cup {i} : x \in Universe(h) /\ Key(h, x)' = Key(h, x)
    BY <1>7
  <2>2. Key(h, i) # NULL
    BY <1>2, BusyAdds
  <2>3. \A x \in M \cup {i} : Key(h, x)' # NULL
    BY <1>7, <2>1, <2>2
  <2>4. \A x, y \in M \cup {i} : Key(h, x)' = Key(h, y)' => x = y
    <3>1. ASSUME NEW x \in M \cup {i}, NEW y \in M \cup {i}, Key(h, x)' = Key(h, y)' PROVE x = y
      <4>1. Key(h, x) = Key(h, y)
        BY <2>1, <3>1
      <4>2. CASE x = i
        BY <1>6, <4>1, <4>2
      <4>3. CASE y = i
        BY <1>6, <4>1, <4>3
      <4>4. CASE x \in M /\ y \in M
        BY <1>7, <4>1, <4>4
      <4> QED
        BY <4>2, <4>3, <4>4
    <3> QED
      BY <3>1
  <2> QED
    BY <1>9, <2>1, <2>3, <2>4 DEF Listed, Universe
<1>12. Counted(h)'
  <2>1. \A d \in Client : ~ Counts(d, h)
    BY <1>2, <1>4 DEF Counts, Busy
  <2>2. ListHead(h).count = Cardinality(M)
    BY <1>1, <2>1 DEF Counted, M
  <2>3. Cardinality(M \cup {i}) = Cardinality(M) + 1
    <3>1. IsFiniteSet(M) /\ i \notin M
      BY <1>5, <1>6, <1>7, Subset, Numbers DEF M, Universe
    <3> QED
      BY <3>1, AddElement
  <2>4. ListHead(h)'.count = ListHead(h).count
    BY DEF LinksHead
  <2>5. \A d \in Client : Counts(d, h)' => d = c
    BY <1>3, <2>1
  <2>6. Counts(c, h)'
    BY <1>2
  <2> QED
    BY <1>9, <2>2, <2>3, <2>4, <2>5, <2>6 DEF Counted
<1>13. ASSUME NEW k \in Heads PROVE InOrder(k)'
  <2>1. InOrder(k) /\ Universe(k)' = Universe(k) /\ \A x \in Universe(k) : Key(k, x)' = Key(k, x)
    BY <1>1 DEF Universe
  <2> QED
    BY <2>1 DEF InOrder
<1>14. Apart'
  <2> SUFFICES ASSUME NEW k \in Group, NEW l \in Group, k # l PROVE ItemsOf(k)' \cap ItemsOf(l)' = {}
    BY DEF Apart
  <2>1. k \in Heads /\ l \in Heads /\ ItemsOf(k) \cap ItemsOf(l) = {}
    BY <1>1 DEF Heads, Apart
  <2>2. CASE k # h /\ l # h
    BY <1>10, <2>1, <2>2
  <2>3. CASE k = h
    <3>1. i \notin ItemsOf(l) /\ ItemsOf(l)' = ItemsOf(l)
      BY <1>6, <1>10, <2>1, <2>3, Sizes DEF Kin
    <3> QED
      BY <1>9, <2>1, <2>3, <3>1 DEF M
  <2>4. CASE l = h
    <3>1. k \in Kin(h) /\ k # h
      BY <2>4, Sizes DEF Kin
    <3>2. i \notin ItemsOf(k) /\ ItemsOf(k)' = ItemsOf(k)
      BY <1>6, <1>10, <2>1, <3>1
    <3> QED
      BY <1>9, <2>1, <2>4, <3>2 DEF M
  <2> QED
    BY <2>2, <2>3, <2>4
<1>15. Alone'
  <2>1. ASSUME NEW d \in Client, Busy(d)' PROVE Busy(d) /\ cli'[d].head = cli[d].head
    BY <1>2, <1>3, <2>1
  <2> QED
    BY <1>1, <2>1 DEF Alone
<1>16. ASSUME NEW d \in Client, Joining(d)' PROVE d # c /\ Joining(d) /\ Joins(d)'
  <2>1. d # c /\ Joining(d)
    BY <1>2, <1>3, <1>16
  <2>2. Busy(d) /\ Joins(d)
    BY <1>1, <2>1 DEF Joining, Busy, Joiners
  <2>3. PICK k \in Heads : k = cli[d].head
    BY <2>2, BusyAdds
  <2>4. PICK j \in Universe(k) : j = cli[d].item
    BY <2>2, <2>3, BusyAdds
  <2>5. k # h
    BY <1>4, <2>1, <2>2, <2>3
  <2>6. \A l \in Kin(k) : l \in Heads /\ j \notin ItemsOf(l)
    BY <2>2, <2>3, <2>4, KinAre DEF Joins
  <2>7. h \in Kin(k) => j # i
    BY <1>1, <1>2, <2>1, <2>3, <2>4 DEF Joiners
  <2>8. \A l \in Kin(k) : j \notin ItemsOf(l)'
    <3>1. ASSUME NEW l \in Kin(k) PROVE j \notin ItemsOf(l)'
      <4>1. CASE l = h
        BY <1>9, <2>6, <2>7, <4>1 DEF M
      <4>2. CASE l # h
        BY <1>10, <2>6, <4>2
      <4> QED
        BY <4>1, <4>2
    <3> QED
      BY <3>1
  <2>9. Key(k, j)' = Key(k, j) /\ NextOf(k)'[j] = NextOf(k)[j]
    <3>1. ~ (k \in Kin(h) /\ j = t)
      <4>1. k \in Kin(h) => h \in Kin(k)
        BY <1>5, KinAre
      <4>2. j # NULL
        BY KinAre, WccpAssumption
      <4> QED
        BY <1>8, <2>6, <4>1, <4>2 DEF M
    <3> QED
      BY <3>1 DEF t
  <2>10. SameClient(d) /\ ItemsOf(k)' = ItemsOf(k) /\ Leaves(k)
    BY <1>3, <1>10, <2>1, <2>5
  <2>11. Joins(d)'
    BY <2>2, <2>3, <2>4, <2>8, <2>9, <2>10, JoinsStays
  <2> QED
    BY <2>1, <2>11
<1>17. Joiners'
  <2>1. \A d, e \in Client : Joining(d)' /\ Joining(e)' /\ cli'[d].item = cli'[e].item
                             /\ cli'[e].head \in Kin(cli'[d].head) => d = e
    <3>1. ASSUME NEW d \in Client, NEW e \in Client, Joining(d)', Joining(e)',
                 cli'[d].item = cli'[e].item, cli'[e].head \in Kin(cli'[d].head)
          PROVE  d = e
      <4>1. d # c /\ e # c /\ Joining(d) /\ Joining(e)
        BY <1>16, <3>1
      <4> QED
        BY <1>1, <3>1, <4>1 DEF Joiners
    <3> QED
      BY <3>1
  <2> QED
    BY <1>16, <2>1 DEF Joiners, Kin
<1>18. Found'
  <2>1. ASSUME NEW g \in Group, group'[g].id # NULL
        PROVE  \/ g \in ItemsOf(GROUPS)'
               \/ \E d \in Client : Joining(d)' /\ cli'[d].head = GROUPS /\ cli'[d].item = g
    <3>1. ItemsOf(GROUPS) \subseteq ItemsOf(GROUPS)' /\ (h = GROUPS => i \in ItemsOf(GROUPS)')
      BY <1>9, <1>10 DEF Heads, M
    <3>2. ASSUME NEW d \in Client, Joining(d), cli[d].head = GROUPS, cli[d].item = g
          PROVE  \/ g \in ItemsOf(GROUPS)'
                 \/ \E e \in Client : Joining(e)' /\ cli'[e].head = GROUPS /\ cli'[e].item = g
      <4>1. CASE d = c
        BY <3>1, <3>2, <4>1
      <4>2. CASE d # c
        BY <1>3, <3>2, <4>2
      <4> QED
        BY <4>1, <4>2
    <3> QED
      BY <1>1, <2>1, <3>1, <3>2 DEF Found
  <2>2. ASSUME NEW g \in Group, NEW k \in Group, group'[g].id # NULL, group'[g].id = group'[k].id
        PROVE  g = k
    <3>1. group[g].id # NULL /\ group[g].id = group[k].id => g = k
      BY <1>1 DEF Found
    <3> QED
      BY <2>2, <3>1
  <2> QED
    BY <2>1, <2>2 DEF Found
<1>19. \A k \in Heads : Listed(k)' /\ InOrder(k)' /\ Counted(k)'
  BY <1>10, <1>11, <1>12, <1>13
<1>20. Linear'
  BY <1>14, <1>15, <1>17, <1>18, <1>19 DEF Linear, Heads
<1>21. Grows
  BY <1>9, <1>10 DEF Grows, M
<1> QED
  BY <1>20, <1>21

(* A client counts the item it has linked. *)
LEMMA CountStays ==
  ASSUME Library, Steady, Steady', Linear, NEW c \in Client, NEW h \in Heads,
         h = cli[c].head, cli[c].pc = "count", cli'[c].pc = "idle",
         \A d \in Client \ {c} : cli'[d] = cli[d],
         ListHead(h)'.next = ListHead(h).next, ListHead(h)'.prev = ListHead(h).prev,
         ListHead(h)'.count = cli[c].n + 1, \A k \in Heads \ {h} : SameHead(k),
         \A k \in Heads : \A x \in Universe(k) :
           NextOf(k)'[x] = NextOf(k)[x] /\ Key(k, x)' = Key(k, x),
         \A g \in Group : group'[g].id = group[g].id
  PROVE  Linear' /\ Grows
<1>1. /\ \A k \in Heads : Listed(k) /\ InOrder(k) /\ Counted(k)
      /\ Apart /\ Alone /\ Joiners /\ Found
  BY DEF Linear
<1>2. /\ Busy(c) /\ ~ Busy(c)' /\ ~ Joining(c) /\ ~ Joining(c)'
      /\ \A k : ~ Counts(c, k)' /\ (Counts(c, k) <=> k = h)
  BY DEF Busy, Joining, Counts
<1>3. ASSUME NEW d \in Client, d # c
      PROVE  /\ SameClient(d) /\ (Busy(d)' <=> Busy(d)) /\ (Joining(d)' <=> Joining(d))
             /\ \A k : (Counts(d, k)' <=> Counts(d, k)) /\ (Counts(d, k) => cli'[d].n = cli[d].n)
             /\ cli'[d].head = cli[d].head /\ cli'[d].item = cli[d].item
  BY <1>3, SameOthers
<1>4. ASSUME NEW k \in Heads PROVE Leaves(k) /\ Listed(k)' /\ ItemsOf(k)' = ItemsOf(k)
  <2>1. ListHead(k)'.next = ListHead(k).next /\ ListHead(k)'.prev = ListHead(k).prev
    BY DEF SameHead
  <2> QED
    BY <1>1, <2>1, ListedStays DEF Leaves, Listed, Steady, Typed
<1>5. ASSUME NEW k \in Heads PROVE Counted(k)'
  <2>1. Counted(k) /\ ItemsOf(k)' = ItemsOf(k)
    BY <1>1, <1>4
  <2>2. CASE k # h
    BY <1>2, <1>3, <2>1, <2>2, CountedStays DEF SameHead, SameCount
  <2>3. CASE k = h
    <3>1. \A d \in Client : ~ Counts(d, h)'
      <4>1. \A d \in Client : d # c => ~ Counts(d, h)
        BY <1>1, <1>2 DEF Alone, Counts, Busy
      <4> QED
        BY <1>2, <1>3, <4>1
    <3>2. ListHead(h)'.count = Cardinality(ItemsOf(h)')
      BY <1>2, <2>1, <2>3 DEF Counted
    <3> QED
      BY <2>3, <3>1, <3>2 DEF Counted
  <2> QED
    BY <2>2, <2>3
<1>6. ASSUME NEW k \in Heads PROVE InOrder(k)'
  <2>1. InOrder(k) /\ Universe(k)' = Universe(k) /\ \A x \in Universe(k) : Key(k, x)' = Key(k, x)
    BY <1>1 DEF Universe
  <2> QED
    BY <2>1 DEF InOrder
<1>7. Apart'
  BY <1>1, <1>4 DEF Apart, Heads
<1>8. Alone'
  <2>1. ASSUME NEW d \in Client, Busy(d)' PROVE Busy(d) /\ cli'[d].head = cli[d].head
    BY <1>2, <1>3, <2>1
  <2> QED
    BY <1>1, <2>1 DEF Alone
<1>9. ASSUME NEW d \in Client, Joining(d)' PROVE d # c /\ Joining(d) /\ Joins(d)'
  <2>1. d # c /\ Joining(d)
    BY <1>2, <1>3, <1>9
  <2>2. Busy(d) /\ Joins(d)
    BY <1>1, <2>1 DEF Joining, Busy, Joiners
  <2>3. PICK k \in Heads : k = cli[d].head
    BY <2>2, BusyAdds
  <2>4. PICK j \in Universe(k) : j = cli[d].item
    BY <2>2, <2>3, BusyAdds
  <2>5. \A l \in Kin(k) : j \notin ItemsOf(l)'
    BY <1>4, <2>2, <2>3, <2>4, KinAre DEF Joins
  <2> QED
    BY <1>3, <1>4, <2>1, <2>2, <2>3, <2>4, <2>5, JoinsStays
<1>10. Joiners'
  <2>1. ASSUME NEW d \in Client, NEW e \in Client, Joining(d)', Joining(e)',
               cli'[d].item = cli'[e].item, cli'[e].head \in Kin(cli'[d].head)
        PROVE  d = e
    <3>1. d # c /\ e # c /\ Joining(d) /\ Joining(e)
      BY <1>9, <2>1
    <3> QED
      BY <1>1, <2>1, <3>1 DEF Joiners
  <2> QED
    BY <1>9, <2>1 DEF Joiners, Kin
<1>11. Found'
  <2>1. ASSUME NEW g \in Group, group'[g].id # NULL
        PROVE  \/ g \in ItemsOf(GROUPS)'
               \/ \E d \in Client : Joining(d)' /\ cli'[d].head = GROUPS /\ cli'[d].item = g
    <3>1. ItemsOf(GROUPS)' = ItemsOf(GROUPS)
      BY <1>4 DEF Heads
    <3>2. ASSUME NEW d \in Client, Joining(d), cli[d].head = GROUPS, cli[d].item = g
          PROVE  Joining(d)' /\ cli'[d].head = GROUPS /\ cli'[d].item = g
      BY <1>2, <1>3, <3>2
    <3> QED
      BY <1>1, <2>1, <3>1, <3>2 DEF Found
  <2>2. ASSUME NEW g \in Group, NEW k \in Group, group'[g].id # NULL, group'[g].id = group'[k].id
        PROVE  g = k
    <3>1. group[g].id # NULL /\ group[g].id = group[k].id => g = k
      BY <1>1 DEF Found
    <3> QED
      BY <2>2, <3>1
  <2> QED
    BY <2>1, <2>2 DEF Found
<1>12. Linear'
  BY <1>4, <1>5, <1>6, <1>7, <1>8, <1>10, <1>11 DEF Linear, Heads
<1> QED
  BY <1>4, <1>12 DEF Grows

-----------------------------------------------------------------------------
(* The steps keep the lists intact *)

(* The link of an item, and the items of the two kinds of lists. *)
LEMMA NextAt ==
  ASSUME NEW h \in Heads, NEW x \in Universe(h)
  PROVE  /\ h = GROUPS => /\ x \in Group /\ NextOf(h)[x] = group[x].next /\ NextOf(h)'[x] = group'[x].next
                          /\ Key(h, x) = group[x].id /\ Key(h, x)' = group'[x].id
         /\ h # GROUPS => /\ x \in Server /\ h \in Group
                          /\ NextOf(h)[x] = server[x].next /\ NextOf(h)'[x] = server'[x].next
                          /\ Key(h, x) = server[x].ip /\ Key(h, x)' = server'[x].ip
<1>1. CASE h = GROUPS
  BY <1>1, Sizes DEF NextOf, Key, GroupNext, Universe
<1>2. CASE h # GROUPS
  BY <1>2, Sizes DEF NextOf, Key, ServerNext, Universe, Heads
<1> QED
  BY <1>1, <1>2

(* The items and the heads of the list of groups and of the lists of       *)
(* servers.                                                                *)
LEMMA ItemsAre ==
  /\ ItemsOf(GROUPS) = Items(GroupList) /\ ListHead(GROUPS) = groups /\ ListHead(GROUPS)' = groups'
  /\ \A g \in Group : /\ ItemsOf(g) = Items(ServerList(g))
                      /\ ListHead(g) = group[g].servers /\ ListHead(g)' = group'[g].servers
BY Sizes DEF ItemsOf, NextOf, ServerList, ServersFrom, ServerNext, GroupList, GroupsFrom,
   GroupNext, ListHead

\* The lists and the keys are what they were.
SameLists ==
  /\ groups'.next = groups.next /\ groups'.prev = groups.prev /\ groups'.count = groups.count
  /\ \A g \in Group : /\ group'[g].id = group[g].id /\ group'[g].servers = group[g].servers
                      /\ group'[g].next = group[g].next
  /\ \A s \in Server : server'[s].ip = server[s].ip /\ server'[s].next = server[s].next

(* Lists that are what they were keep their shape. *)
LEMMA ListsShape ==
  ASSUME SameLists
  PROVE  SameShape
<1> SUFFICES ASSUME NEW h \in Heads
             PROVE  /\ ListHead(h)'.next = ListHead(h).next /\ ListHead(h)'.prev = ListHead(h).prev
                    /\ ListHead(h)'.count = ListHead(h).count
                    /\ \A x \in Universe(h) : NextOf(h)'[x] = NextOf(h)[x] /\ Key(h, x)' = Key(h, x)
  BY DEF SameShape
<1>1. ASSUME NEW x \in Universe(h) PROVE NextOf(h)'[x] = NextOf(h)[x] /\ Key(h, x)' = Key(h, x)
  <2>1. CASE h = GROUPS
    <3>1. /\ x \in Group /\ NextOf(h)[x] = group[x].next /\ NextOf(h)'[x] = group'[x].next
          /\ Key(h, x) = group[x].id /\ Key(h, x)' = group'[x].id
      BY <2>1, NextAt
    <3> QED
      BY <3>1 DEF SameLists
  <2>2. CASE h # GROUPS
    <3>1. /\ x \in Server /\ NextOf(h)[x] = server[x].next /\ NextOf(h)'[x] = server'[x].next
          /\ Key(h, x) = server[x].ip /\ Key(h, x)' = server'[x].ip
      BY <2>2, NextAt
    <3> QED
      BY <3>1 DEF SameLists
  <2> QED
    BY <2>1, <2>2
<1>2. CASE h = GROUPS
  BY <1>1, <1>2, ItemsAre DEF SameLists
<1>3. CASE h # GROUPS
  <2>1. h \in Group
    BY <1>3 DEF Heads
  <2> QED
    BY <1>1, <2>1, ItemsAre DEF SameLists
<1> QED
  BY <1>2, <1>3

(* Steps that leave lists and clients, or read the end of a list. *)
LEMMA QuietLinear ==
  ASSUME Library, Steady, Steady', Linear, SameLists, UNCHANGED raced,
         \A c \in Client : SameClient(c) \/ Loads(c)
  PROVE  Linear' /\ Grows
BY ListsShape, ShapeStays DEF SameLists

(* A command that only changes the client's mode or its data. *)
LEMMA ModeSame ==
  ASSUME Steady, NEW c \in Client, NEW x \in ClientType, cli' = [cli EXCEPT ![c] = x],
         x.pc = cli[c].pc, x.head = cli[c].head, x.item = cli[c].item, x.tail = cli[c].tail,
         x.n = cli[c].n
  PROVE  \A d \in Client : SameClient(d)
BY DEF SameClient, Steady, Typed, ClientsTyped

\* The commands that add nothing.
ModeOnly(c) ==
  \/ cli_wccp_password(c) \/ cli_exit_wccp_mode(c)
  \/ /\ Command(c) /\ UNCHANGED <<lists, w, network, history>>
     /\ \/ cli' = [cli EXCEPT ![c].mode = "global"]
        \/ \E g \in Group : /\ cli' = [cli EXCEPT ![c].mode = "wccp", ![c].data = g]
                            /\ group[g].id # NULL

(* A command that adds nothing leaves what every client adds. *)
LEMMA ModeClients ==
  ASSUME Steady, NEW c \in Client, ModeOnly(c)
  PROVE  /\ \A d \in Client : SameClient(d)
         /\ \A d \in Client \ {c} : cli'[d] = cli[d]
         /\ cli'[c].data = cli[c].data \/ cli'[c].data = NULL \/ group[cli'[c].data].id # NULL
         /\ UNCHANGED <<lists, w, network, history>>
<1>1. PICK r \in ClientType : r = cli[c]
  BY DEF Steady, Typed, ClientsTyped
<1>2. cli \in [Client -> ClientType]
  BY DEF Steady, Typed, ClientsTyped
<1> DEFINE Fits(x) == /\ x \in ClientType /\ cli' = [cli EXCEPT ![c] = x]
                      /\ x.pc = r.pc /\ x.head = r.head /\ x.item = r.item /\ x.tail = r.tail /\ x.n = r.n
                      /\ x.data = r.data \/ x.data = NULL \/ group[x.data].id # NULL
<1>3. \E x : Fits(x)
  <2>1. CASE cli_wccp_password(c)
    <3> DEFINE x == [r EXCEPT !.data = NULL]
    <3>1. /\ x \in ClientType /\ x.pc = r.pc /\ x.head = r.head /\ x.item = r.item /\ x.tail = r.tail
          /\ x.n = r.n /\ x.data = NULL
      BY DEF ClientType
    <3> QED
      BY <1>1, <1>2, <2>1, <3>1 DEF cli_wccp_password
  <2>2. CASE cli_exit_wccp_mode(c)
    <3> DEFINE x == [r EXCEPT !.mode = "global", !.data = NULL]
    <3>1. /\ x \in ClientType /\ x.pc = r.pc /\ x.head = r.head /\ x.item = r.item /\ x.tail = r.tail
          /\ x.n = r.n /\ x.data = NULL
      BY DEF ClientType
    <3> QED
      BY <1>1, <1>2, <2>2, <3>1 DEF cli_exit_wccp_mode
  <2>3. CASE cli' = [cli EXCEPT ![c].mode = "global"]
    <3> DEFINE x == [r EXCEPT !.mode = "global"]
    <3>1. /\ x \in ClientType /\ x.pc = r.pc /\ x.head = r.head /\ x.item = r.item /\ x.tail = r.tail
          /\ x.n = r.n /\ x.data = r.data
      BY DEF ClientType
    <3> QED
      BY <1>1, <1>2, <2>3, <3>1
  <2>4. ASSUME NEW g \in Group, cli' = [cli EXCEPT ![c].mode = "wccp", ![c].data = g], group[g].id # NULL
        PROVE  \E x : Fits(x)
    <3> DEFINE x == [r EXCEPT !.mode = "wccp", !.data = g]
    <3>1. /\ x \in ClientType /\ x.pc = r.pc /\ x.head = r.head /\ x.item = r.item /\ x.tail = r.tail
          /\ x.n = r.n /\ x.data = g
      BY DEF ClientType
    <3>2. cli' = [cli EXCEPT ![c] = x]
      BY <1>1, <1>2, <2>4
    <3> QED
      BY <2>4, <3>1, <3>2
  <2> QED
    BY <2>1, <2>2, <2>3, <2>4 DEF ModeOnly
<1>4. PICK x : Fits(x)
  BY <1>3
<1> QED
  BY <1>1, <1>2, <1>4, ModeSame DEF ModeOnly, cli_wccp_password, cli_exit_wccp_mode

\* Client c starts to add item new, made for it, to the list of h.
Starts(c, h, new) ==
  /\ cli[c].pc = "idle" /\ cli'[c].pc = "load" /\ cli'[c].head = h /\ cli'[c].item = new
  /\ cli'[c].data = cli[c].data /\ \A d \in Client \ {c} : cli'[d] = cli[d]
  /\ raced' = (raced \/ \E d \in Client \ {c} : cli[d].pc # "idle" /\ cli[d].head = h)
MakesGroup(c, id, new) ==
  /\ Starts(c, GROUPS, new) /\ id # NULL
  /\ group[new].id = NULL /\ \A y \in Group : group[y].id = NULL => new <= y
  /\ \A x \in Items(GroupList) : group[x].id # id
  /\ group'[new].id = id /\ group'[new].servers = EmptyHead /\ group'[new].next = NULL
  /\ \A g \in Group \ {new} : group'[g] = group[g]
  /\ UNCHANGED <<groups, server, w, torn, sent>>
MakesServer(c, ip, g, new) ==
  /\ Starts(c, g, new) /\ ip # NULL /\ cli[c].data = g
  /\ server[new].ip = NULL /\ \A y \in Server : server[y].ip = NULL => new <= y
  /\ \A x \in Items(ServerList(g)) : server[x].ip # ip
  /\ server'[new].ip = ip /\ server'[new].router_id = NULL /\ server'[new].next = NULL
  /\ \A s \in Server \ {new} : server'[s] = server[s]
  /\ UNCHANGED <<groups, group, w, torn, sent>>

(* What "wccp <service group>" does. *)
LEMMA EnterDoes ==
  ASSUME Library, Steady, NEW c \in Client, NEW id \in GroupId, cli_enter_wccp_mode(c, id)
  PROVE  ModeOnly(c) \/ \E new \in Group : MakesGroup(c, id, new)
<1>1. PICK g : g = find_wccp_service_group(id)
  OBVIOUS
<1>2. /\ Command(c) /\ commands' \in 0 .. MaxCommands /\ cli[c].pc = "idle"
      /\ UNCHANGED <<groups, server, w, network, torn, closed, sent>>
  BY CommandCount DEF cli_enter_wccp_mode, Command, Steady, Typed
<1>3. /\ g # NULL => g \in Group /\ group[g].id = id
      /\ g = NULL => \A x \in Items(GroupList) : group[x].id # id
  BY <1>1, Finds DEF Steady, Typed
<1>4. CASE /\ g # NULL
           /\ cli' = [cli EXCEPT ![c].mode = "wccp", ![c].data = g]
           /\ UNCHANGED <<group, raced>>
  BY <1>2, <1>3, <1>4, Sizes DEF ModeOnly, lists, history
<1>5. CASE /\ g = NULL /\ FreeGroups # {}
           /\ group' = [group EXCEPT ![Lowest(FreeGroups)] = [NoGroup EXCEPT !.id = id]]
           /\ Insert(c, GROUPS, Lowest(FreeGroups))
  <2>1. PICK new \in Group : /\ new = Lowest(FreeGroups) /\ group[new].id = NULL
                             /\ \A y \in Group : group[y].id = NULL => new <= y
    BY <1>5, LowestFree, Sizes DEF FreeGroups
  <2>2. PICK x : x = [NoGroup EXCEPT !.id = id]
    OBVIOUS
  <2>3. x.id = id /\ x.servers = EmptyHead /\ x.next = NULL
    BY <2>2, NewRecords
  <2>4. group' = [group EXCEPT ![new] = x] /\ new \in Nat /\ Insert(c, GROUPS, new)
    BY <1>5, <2>1, <2>2, Sizes
  <2>5. Starts(c, GROUPS, new)
    <3>1. /\ cli'[c].pc = "load" /\ cli'[c].head = GROUPS /\ cli'[c].item = new
          /\ cli'[c].data = cli[c].data /\ \A d \in Client \ {c} : cli'[d] = cli[d]
      BY <1>2, <2>4, InsertTyped
    <3> QED
      BY <1>2, <2>4, <3>1 DEF Starts, Insert
  <2> QED
    BY <1>2, <1>3, <1>5, <2>1, <2>3, <2>4, <2>5, Sizes DEF MakesGroup, ListsTyped, Steady,
       Typed
<1> QED
  BY <1>1, <1>4, <1>5 DEF cli_enter_wccp_mode

(* What "server <ip address>" does. *)
LEMMA ServerDoes ==
  ASSUME Library, Steady, NEW c \in Client, NEW ip \in Ip, cli_wccp_server(c, ip)
  PROVE  ModeOnly(c) \/ \E g \in Group : \E new \in Server : MakesServer(c, ip, g, new)
<1>1. ClientsTyped /\ ListsTyped
  BY DEF Steady, Typed
<1>2. PICK g \in Group \cup {NULL} : g = cli[c].data
  BY <1>1 DEF ClientType, ClientsTyped
<1>3. /\ Command(c) /\ commands' \in 0 .. MaxCommands /\ cli[c].pc = "idle"
      /\ UNCHANGED <<groups, group, w, network, torn, closed, sent>>
  BY <1>1, CommandCount DEF cli_wccp_server, Command
<1>4. CASE cli' = [cli EXCEPT ![c].mode = "global"] /\ UNCHANGED <<server, raced>>
  BY <1>3, <1>4 DEF ModeOnly, lists, history
<1>5. CASE /\ g # NULL /\ find_wccp_server(g, ip) = NULL /\ FreeServers # {}
           /\ server' = [server EXCEPT ![Lowest(FreeServers)] = [NoServer EXCEPT !.ip = ip]]
           /\ Insert(c, g, Lowest(FreeServers))
  <2>1. g \in Group /\ \A x \in Items(ServerList(g)) : server[x].ip # ip
    BY <1>1, <1>5, Finds
  <2>2. PICK new \in Server : /\ new = Lowest(FreeServers) /\ server[new].ip = NULL
                              /\ \A y \in Server : server[y].ip = NULL => new <= y
    BY <1>5, LowestFree, Sizes DEF FreeServers
  <2>3. PICK x : x = [NoServer EXCEPT !.ip = ip]
    OBVIOUS
  <2>4. x.ip = ip /\ x.router_id = NULL /\ x.next = NULL /\ ip # NULL
    BY <2>3, NewRecords, Sizes
  <2>5. server' = [server EXCEPT ![new] = x] /\ new \in Nat /\ Insert(c, g, new)
    BY <1>5, <2>2, <2>3, Sizes
  <2>6. Starts(c, g, new)
    <3>1. /\ cli'[c].pc = "load" /\ cli'[c].head = g /\ cli'[c].item = new
          /\ cli'[c].data = cli[c].data /\ \A d \in Client \ {c} : cli'[d] = cli[d]
      BY <1>3, <2>1, <2>5, InsertTyped
    <3> QED
      BY <1>3, <2>5, <3>1 DEF Starts, Insert
  <2> QED
    BY <1>1, <1>2, <1>3, <2>1, <2>2, <2>4, <2>5, <2>6 DEF MakesServer, ListsTyped
<1> QED
  BY <1>2, <1>4, <1>5 DEF cli_wccp_server

(* A client that starts to add alone was idle, and no other adds there. *)
LEMMA StartsAlone ==
  ASSUME NEW c \in Client, NEW h, NEW new, Starts(c, h, new), ~ raced'
  PROVE  /\ ~ raced /\ ~ Busy(c) /\ cli'[c].pc = "load" /\ cli'[c].head = h /\ cli'[c].item = new
         /\ \A d \in Client \ {c} : cli'[d] = cli[d] /\ ~ (Busy(d) /\ cli[d].head = h)
BY DEF Starts, Busy

(* A group is made, and about to be added. *)
LEMMA GroupLinear ==
  ASSUME Library, Steady, Steady', Made, Linear, ~ raced', NEW c \in Client, NEW id, NEW new \in Group,
         MakesGroup(c, id, new)
  PROVE  Linear' /\ Grows
<1>1. /\ ~ Busy(c) /\ cli'[c].pc = "load" /\ cli'[c].head = GROUPS /\ cli'[c].item = new
      /\ \A d \in Client \ {c} : cli'[d] = cli[d] /\ ~ (Busy(d) /\ cli[d].head = GROUPS)
  <2>1. Starts(c, GROUPS, new)
    BY DEF MakesGroup
  <2> QED
    BY <2>1, StartsAlone, SMT
<1>2. /\ id # NULL /\ group[new].id = NULL /\ \A y \in Group : group[y].id = NULL => new <= y
      /\ group'[new].id = id /\ group'[new].servers = EmptyHead /\ group'[new].next = NULL
      /\ \A g \in Group \ {new} : group'[g] = group[g]
      /\ groups' = groups /\ server' = server
  BY DEF MakesGroup
<1>3. \A m \in ItemsOf(GROUPS) : group[m].id # id
  BY ItemsAre DEF MakesGroup
<1>4. \A g \in Group : group'[g].servers = group[g].servers
  BY <1>2 DEF Made
<1>5. GROUPS \in Heads /\ new \in Universe(GROUPS) /\ Universe(GROUPS) = Group
  BY DEF Heads, Universe
<1>6. \A k \in Heads : SameHead(k)
  <2> SUFFICES ASSUME NEW k \in Heads PROVE SameHead(k)
    OBVIOUS
  <2>1. CASE k = GROUPS
    BY <1>2, <2>1, ItemsAre DEF SameHead
  <2>2. CASE k \in Group
    BY <1>4, <2>2, ItemsAre DEF SameHead
  <2> QED
    BY <2>1, <2>2 DEF Heads
<1>7. /\ \A x \in Group : Key(GROUPS, x) = group[x].id /\ Key(GROUPS, x)' = group'[x].id
      /\ \A x \in Group : /\ NextOf(GROUPS)[x] = group[x].next
                          /\ NextOf(GROUPS)'[x] = group'[x].next
  BY <1>5, NextAt
<1>8. ItemsOf(GROUPS) \subseteq Group
  BY <1>5 DEF Linear, Listed
<1>9. ASSUME NEW k \in Heads, NEW x \in Universe(k), ~ (k \in Kin(GROUPS) /\ x = new)
      PROVE  NextOf(k)'[x] = NextOf(k)[x] /\ Key(k, x)' = Key(k, x)
  <2>1. CASE k = GROUPS
    <3>1. /\ NextOf(k)[x] = group[x].next /\ NextOf(k)'[x] = group'[x].next
          /\ Key(k, x) = group[x].id /\ Key(k, x)' = group'[x].id
      BY <2>1, NextAt
    <3> QED
      BY <1>2, <1>5, <1>9, <2>1, <3>1 DEF Kin
  <2>2. CASE k # GROUPS
    <3>1. /\ NextOf(k)[x] = server[x].next /\ NextOf(k)'[x] = server'[x].next
          /\ Key(k, x) = server[x].ip /\ Key(k, x)' = server'[x].ip
      BY <2>2, NextAt
    <3> QED
      BY <1>2, <3>1
  <2> QED
    BY <2>1, <2>2
<1>10. Found'
  <2>1. ItemsOf(GROUPS)' = ItemsOf(GROUPS)
    <3>1. new \notin ItemsOf(GROUPS) /\ Listed(GROUPS)
      BY <1>2, <1>5, <1>7 DEF Linear, Listed
    <3>2. \A m \in ItemsOf(GROUPS) : /\ NextOf(GROUPS)'[m] = NextOf(GROUPS)[m]
                                     /\ Key(GROUPS, m)' = Key(GROUPS, m)
      <4> SUFFICES ASSUME NEW m \in ItemsOf(GROUPS)
                   PROVE  /\ NextOf(GROUPS)'[m] = NextOf(GROUPS)[m]
                          /\ Key(GROUPS, m)' = Key(GROUPS, m)
        OBVIOUS
      <4>1. group'[m] = group[m]
        BY <1>2, <1>8, <3>1
      <4> QED
        BY <1>7, <1>8, <3>1, <4>1
    <3> QED
      BY <1>5, <1>6, <3>1, <3>2, ListedStays DEF Steady, Typed, SameHead, Leaves
  <2>2. \A g \in Group : group[g].id # NULL => g \in ItemsOf(GROUPS)
    BY <1>1 DEF Linear, Found, Joining, Busy
  <2>3. ASSUME NEW g \in Group, group'[g].id # NULL
        PROVE  \/ g \in ItemsOf(GROUPS)'
               \/ \E d \in Client : Joining(d)' /\ cli'[d].head = GROUPS /\ cli'[d].item = g
    BY <1>1, <1>2, <2>1, <2>2, <2>3 DEF Joining
  <2>4. ASSUME NEW g \in Group, NEW h \in Group, group'[g].id # NULL, group'[g].id = group'[h].id
        PROVE  g = h
    <3>1. CASE g = new \/ h = new
      BY <1>2, <1>3, <2>2, <2>4, <3>1
    <3>2. CASE g # new /\ h # new
      <4>1. group[g].id # NULL /\ group[g].id = group[h].id
        BY <1>2, <2>4, <3>2
      <4> QED
        BY <4>1 DEF Linear, Found
    <3> QED
      BY <3>1, <3>2
  <2> QED
    BY <2>3, <2>4 DEF Found
<1>11. /\ Key(GROUPS, new) = NULL /\ \A y \in Universe(GROUPS) : Key(GROUPS, y) = NULL => new <= y
       /\ Key(GROUPS, new)' # NULL /\ NextOf(GROUPS)'[new] = NULL
       /\ \A m \in ItemsOf(GROUPS) : Key(GROUPS, m) # Key(GROUPS, new)'
  <2>1. \A m \in ItemsOf(GROUPS) : Key(GROUPS, m) # id
    BY <1>3, <1>7, <1>8
  <2> QED
    BY <1>2, <1>5, <1>7, <2>1
<1> QED
  BY <1>1, <1>5, <1>6, <1>9, <1>10, <1>11, InsertStays, SMT

(* A server is made, and about to be added. *)
LEMMA ServerLinear ==
  ASSUME Library, Steady, Steady', Linear, ~ raced', NEW c \in Client, NEW ip, NEW h \in Group,
         NEW new \in Server, MakesServer(c, ip, h, new)
  PROVE  Linear' /\ Grows
<1>1. /\ ~ Busy(c) /\ cli'[c].pc = "load" /\ cli'[c].head = h /\ cli'[c].item = new
      /\ \A d \in Client \ {c} : cli'[d] = cli[d] /\ ~ (Busy(d) /\ cli[d].head = h)
  <2>1. Starts(c, h, new)
    BY DEF MakesServer
  <2> QED
    BY <2>1, StartsAlone, SMT
<1>2. /\ ip # NULL /\ server[new].ip = NULL /\ \A y \in Server : server[y].ip = NULL => new <= y
      /\ server'[new].ip = ip /\ server'[new].next = NULL
      /\ \A s \in Server \ {new} : server'[s] = server[s]
      /\ groups' = groups /\ group' = group
  BY DEF MakesServer
<1>3. \A m \in ItemsOf(h) : server[m].ip # ip
  BY ItemsAre DEF MakesServer
<1>4. h \in Heads /\ h # GROUPS /\ new \in Universe(h) /\ Universe(h) = Server /\ Kin(h) = Group
  BY Sizes DEF Heads, Universe, Kin
<1>5. \A k \in Heads : SameHead(k)
  BY <1>2, ItemsAre DEF SameHead, Heads
<1>6. /\ \A x \in Server : Key(h, x) = server[x].ip /\ Key(h, x)' = server'[x].ip
      /\ \A x \in Server : NextOf(h)[x] = server[x].next /\ NextOf(h)'[x] = server'[x].next
  BY <1>4, NextAt
<1>7. ASSUME NEW k \in Heads, NEW x \in Universe(k), ~ (k \in Kin(h) /\ x = new)
      PROVE  NextOf(k)'[x] = NextOf(k)[x] /\ Key(k, x)' = Key(k, x)
  <2>1. CASE k = GROUPS
    <3>1. /\ NextOf(k)[x] = group[x].next /\ NextOf(k)'[x] = group'[x].next
          /\ Key(k, x) = group[x].id /\ Key(k, x)' = group'[x].id
      BY <2>1, NextAt
    <3> QED
      BY <1>2, <3>1
  <2>2. CASE k # GROUPS
    <3>1. /\ x \in Server /\ k \in Group
          /\ NextOf(k)[x] = server[x].next /\ NextOf(k)'[x] = server'[x].next
          /\ Key(k, x) = server[x].ip /\ Key(k, x)' = server'[x].ip
      BY <2>2, NextAt
    <3> QED
      BY <1>2, <1>4, <1>7, <3>1
  <2> QED
    BY <2>1, <2>2
<1>8. Found'
  <2>1. ASSUME NEW g \in Group, group'[g].id # NULL
        PROVE  \/ g \in ItemsOf(GROUPS)'
               \/ \E d \in Client : Joining(d)' /\ cli'[d].head = GROUPS /\ cli'[d].item = g
    <3>1. CASE g \in ItemsOf(GROUPS)
      BY <1>2, <3>1, ItemsAre DEF ItemsOf, NextOf, GroupNext
    <3>2. ASSUME NEW d \in Client, Joining(d), cli[d].head = GROUPS, cli[d].item = g
          PROVE  \E e \in Client : Joining(e)' /\ cli'[e].head = GROUPS /\ cli'[e].item = g
      BY <1>1, <3>2 DEF Joining, Busy
    <3> QED
      BY <1>2, <2>1, <3>1, <3>2 DEF Linear, Found
  <2> QED
    BY <1>2, <2>1 DEF Found, Linear
<1>9. /\ Key(h, new) = NULL /\ \A y \in Universe(h) : Key(h, y) = NULL => new <= y
      /\ Key(h, new)' # NULL /\ NextOf(h)'[new] = NULL
      /\ \A m \in ItemsOf(h) : Key(h, m) # Key(h, new)'
  <2>1. \A m \in ItemsOf(h) : Key(h, m) # ip
    BY <1>3, <1>4, <1>6 DEF Linear, Listed
  <2> QED
    BY <1>2, <1>4, <1>6, <2>1
<1> QED
  BY <1>1, <1>4, <1>5, <1>7, <1>8, <1>9, InsertStays, SMT

(* A client reads the end of the list. *)
LEMMA LoadDoes ==
  ASSUME Steady, NEW c \in Client, insert_load(c)
  PROVE  /\ Loads(c) /\ cli'[c].data = cli[c].data /\ \A d \in Client \ {c} : cli'[d] = cli[d]
         /\ UNCHANGED <<lists, w, network, history>>
<1>1. PICK t : t = IF ListHead(cli[c].head).next = NULL THEN NULL ELSE ListHead(cli[c].head).prev
  OBVIOUS
<1>2. PICK r \in ClientType : r = cli[c]
  BY DEF Steady, Typed, ClientsTyped
<1>3. PICK x : x = [r EXCEPT !.pc = "link", !.tail = t]
  OBVIOUS
<1> QED
  BY <1>1, <1>2, <1>3 DEF Loads, insert_load, ClientType, Steady, Typed, ClientsTyped

(* Reading the end of a list leaves the lists, and is what a client should *)
(* read.                                                                   *)
LEMMA LoadLinear ==
  ASSUME Library, Steady, Steady', Linear, NEW c \in Client, insert_load(c)
  PROVE  Linear' /\ Grows
BY LoadDoes, QuietLinear DEF SameLists, SameClient, lists, history

(* A client links its item. *)
LEMMA LinkLinear ==
  ASSUME Library, Steady, Steady', Linear, NEW c \in Client, insert_link(c)
  PROVE  Linear' /\ Grows
<1>1. /\ cli[c].pc = "link" /\ cli'[c].pc = "count" /\ cli'[c].head = cli[c].head
      /\ cli'[c].item = cli[c].item /\ cli'[c].n = ListHead(cli[c].head).count
      /\ \A d \in Client \ {c} : cli'[d] = cli[d]
  BY LinkRecord DEF insert_link
<1>2. PICK h \in Heads : h = cli[c].head
  BY <1>1, BusyAdds DEF Busy
<1>3. PICK i \in Universe(h) : i = cli[c].item
  BY <1>1, <1>2, BusyAdds DEF Busy
<1>4. PICK t : t = cli[c].tail
  OBVIOUS
<1>5. KeepsData
  BY LinkSteady
<1>6. /\ LinksHead(ListHead(h), ListHead(h)', t, i)
      /\ \A k \in Heads \ {h} : SameHead(k)
      /\ \A k \in Heads : \A x \in Universe(k) :
           /\ NextOf(k)'[x] = IF k \in Kin(h) /\ x = t THEN i ELSE NextOf(k)[x]
           /\ Key(k, x)' = Key(k, x)
  <2>1. CASE h = GROUPS
    <3>1. /\ UNCHANGED server /\ LinksHead(groups, groups', t, i)
          /\ \A g \in Group : /\ group'[g].servers = group[g].servers
                              /\ group'[g].next = IF g = t THEN i ELSE group[g].next
      BY <1>2, <1>3, <1>4, <2>1, LinkGroup
    <3>2. ASSUME NEW k \in Heads \ {h} PROVE SameHead(k)
      BY <2>1, <3>1, ItemsAre DEF SameHead, Heads
    <3>3. ASSUME NEW k \in Heads, NEW x \in Universe(k)
          PROVE  /\ NextOf(k)'[x] = IF k \in Kin(h) /\ x = t THEN i ELSE NextOf(k)[x]
                 /\ Key(k, x)' = Key(k, x)
      <4>1. CASE k = GROUPS
        <5>1. /\ x \in Group /\ NextOf(k)[x] = group[x].next /\ NextOf(k)'[x] = group'[x].next
              /\ Key(k, x) = group[x].id /\ Key(k, x)' = group'[x].id
          BY <4>1, NextAt
        <5> QED
          BY <1>5, <2>1, <3>1, <4>1, <5>1 DEF Kin, KeepsData
      <4>2. CASE k # GROUPS
        <5>1. /\ x \in Server /\ NextOf(k)[x] = server[x].next /\ NextOf(k)'[x] = server'[x].next
              /\ Key(k, x) = server[x].ip /\ Key(k, x)' = server'[x].ip
          BY <4>2, NextAt
        <5> QED
          BY <2>1, <3>1, <4>2, <5>1 DEF Kin
      <4> QED
        BY <4>1, <4>2
    <3> QED
      BY <2>1, <3>1, <3>2, <3>3, ItemsAre
  <2>2. CASE h # GROUPS
    <3>1. /\ UNCHANGED groups /\ h \in Group
          /\ \A g \in Group :
               /\ group'[g].next = group[g].next
               /\ g = h => LinksHead(group[g].servers, group'[g].servers, t, i)
               /\ g # h => group'[g].servers = group[g].servers
          /\ \A s \in Server : server'[s].next = IF s = t THEN i ELSE server[s].next
      BY <1>2, <1>3, <1>4, <2>2, LinkServer
    <3>2. ASSUME NEW k \in Heads \ {h} PROVE SameHead(k)
      <4>1. CASE k = GROUPS
        BY <3>1, <4>1, ItemsAre DEF SameHead
      <4>2. CASE k \in Group
        BY <3>1, <4>2, ItemsAre DEF SameHead
      <4> QED
        BY <4>1, <4>2 DEF Heads
    <3>3. ASSUME NEW k \in Heads, NEW x \in Universe(k)
          PROVE  /\ NextOf(k)'[x] = IF k \in Kin(h) /\ x = t THEN i ELSE NextOf(k)[x]
                 /\ Key(k, x)' = Key(k, x)
      <4>1. CASE k = GROUPS
        <5>1. /\ x \in Group /\ NextOf(k)[x] = group[x].next /\ NextOf(k)'[x] = group'[x].next
              /\ Key(k, x) = group[x].id /\ Key(k, x)' = group'[x].id
          BY <4>1, NextAt
        <5> QED
          BY <1>5, <2>2, <3>1, <4>1, <5>1, Sizes DEF Kin, KeepsData
      <4>2. CASE k # GROUPS
        <5>1. /\ x \in Server /\ NextOf(k)[x] = server[x].next /\ NextOf(k)'[x] = server'[x].next
              /\ Key(k, x) = server[x].ip /\ Key(k, x)' = server'[x].ip /\ k \in Group
          BY <4>2, NextAt
        <5> QED
          BY <1>5, <2>2, <3>1, <5>1 DEF Kin, KeepsData
      <4> QED
        BY <4>1, <4>2
    <3> QED
      BY <3>1, <3>2, <3>3, ItemsAre
  <2> QED
    BY <2>1, <2>2
<1>7. \A g \in Group : group'[g].id = group[g].id
  BY <1>5 DEF KeepsData
<1> QED
  BY <1>1, <1>2, <1>3, <1>4, <1>6, <1>7, LinkStays, SMT

(* A client counts its item. *)
LEMMA CountLinear ==
  ASSUME Library, Steady, Steady', Linear, NEW c \in Client, insert_count(c)
  PROVE  Linear' /\ Grows
<1>1. PICK h \in Heads : h = cli[c].head
  BY BusyAdds, CountSteady DEF Busy, insert_count
<1>2. PICK n : n = cli[c].n
  OBVIOUS
<1>3. /\ groups'.next = groups.next /\ groups'.prev = groups.prev
      /\ groups'.count = IF h = GROUPS THEN n + 1 ELSE groups.count
      /\ \A g \in Group : /\ group'[g].id = group[g].id /\ group'[g].next = group[g].next
                          /\ group'[g].servers.next = group[g].servers.next
                          /\ group'[g].servers.prev = group[g].servers.prev
                          /\ group'[g].servers.count = IF g = h THEN n + 1 ELSE group[g].servers.count
  BY <1>1, <1>2, CountSteady, SMT
<1>4. ASSUME NEW k \in Heads
      PROVE  /\ ListHead(k)'.next = ListHead(k).next /\ ListHead(k)'.prev = ListHead(k).prev
             /\ ListHead(k)'.count = IF k = h THEN n + 1 ELSE ListHead(k).count
  <2>1. CASE k = GROUPS
    BY <1>3, <2>1, ItemsAre
  <2>2. CASE k \in Group
    <3>1. ListHead(k) = group[k].servers /\ ListHead(k)' = group'[k].servers
      BY <2>2, ItemsAre
    <3> QED
      BY <1>3, <2>2, <3>1
  <2> QED
    BY <2>1, <2>2 DEF Heads
<1>5. \A k \in Heads \ {h} : SameHead(k)
  BY <1>4 DEF SameHead
<1>6. ASSUME NEW k \in Heads, NEW x \in Universe(k)
      PROVE  NextOf(k)'[x] = NextOf(k)[x] /\ Key(k, x)' = Key(k, x)
  <2>1. CASE k = GROUPS
    <3>1. /\ x \in Group /\ NextOf(k)[x] = group[x].next /\ NextOf(k)'[x] = group'[x].next
          /\ Key(k, x) = group[x].id /\ Key(k, x)' = group'[x].id
      BY <2>1, NextAt
    <3> QED
      BY <1>3, <3>1
  <2>2. CASE k # GROUPS
    <3>1. /\ NextOf(k)[x] = server[x].next /\ NextOf(k)'[x] = server'[x].next
          /\ Key(k, x) = server[x].ip /\ Key(k, x)' = server'[x].ip
      BY <2>2, NextAt
    <3> QED
      BY <3>1, CountSteady DEF insert_count
  <2> QED
    BY <2>1, <2>2
<1>7. \A g \in Group : group'[g].id = group[g].id
  BY <1>3
<1> QED
  BY <1>1, <1>2, <1>4, <1>5, <1>6, <1>7, CountStays, CountSteady DEF insert_count

(* The WCCP thread and the network leave the lists and the clients. *)
LEMMA OthersQuiet ==
  ASSUME Library, Steady, ThreadActs \/ NetworkActs \/ UNCHANGED vars
  PROVE  SameLists /\ UNCHANGED <<cli, raced>>
<1>1. CASE UNCHANGED lists /\ UNCHANGED <<cli, raced>>
  BY <1>1 DEF lists, SameLists
<1>2. CASE UNCHANGED vars
  BY <1>1, <1>2 DEF vars, history
<1>3. CASE NetworkActs
  BY <1>1, <1>3 DEF NetworkActs, i_see_you, port_unreachable, history
<1>4. ASSUME NEW due, epoll_wait(due) PROVE UNCHANGED lists /\ UNCHANGED <<cli, raced>>
  BY <1>4 DEF epoll_wait, history
<1>5. CASE wccp_open
  BY <1>5, OpenSteady DEF SameLists, wccp_open
<1>6. CASE wccp_hello \/ wccp_here_i_am \/ wccp_redirect_assign \/ epoll_again
  BY <1>1, <1>6 DEF wccp_hello, wccp_here_i_am, wccp_redirect_assign, epoll_again
<1>7. ASSUME NEW d \in Fd, epoll_error(d) PROVE UNCHANGED lists /\ UNCHANGED <<cli, raced>>
  BY <1>7 DEF epoll_error
<1>8. ASSUME NEW d \in Fd, epoll_receive(d) \/ epoll_receive_fails(d)
      PROVE  SameLists /\ UNCHANGED <<cli, raced>>
  BY <1>8, ReceiveSteady DEF SameLists, Handled, epoll_receive, epoll_receive_fails
<1> QED
  BY <1>1, <1>2, <1>3, <1>4, <1>5, <1>6, <1>7, <1>8 DEF ThreadActs

(* What a client does. *)
LEMMA ClientDoes ==
  ASSUME Library, Steady, ClientActs
  PROVE  \E c \in Client :
           \/ ModeOnly(c) \/ insert_load(c) \/ insert_link(c) \/ insert_count(c)
           \/ \E id \in GroupId : \E new \in Group : MakesGroup(c, id, new)
           \/ \E ip \in Ip : \E g \in Group : \E new \in Server : MakesServer(c, ip, g, new)
<1>1. PICK c \in Client :
        \/ insert_load(c) \/ cli_wccp_password(c) \/ cli_exit_wccp_mode(c)
        \/ insert_link(c) \/ insert_count(c)
        \/ \E id \in GroupId : cli_enter_wccp_mode(c, id)
        \/ \E ip \in Ip : cli_wccp_server(c, ip)
  BY DEF ClientActs
<1>2. CASE cli_wccp_password(c) \/ cli_exit_wccp_mode(c)
  BY <1>2 DEF ModeOnly
<1>3. ASSUME NEW id \in GroupId, cli_enter_wccp_mode(c, id)
      PROVE  ModeOnly(c) \/ \E new \in Group : MakesGroup(c, id, new)
  BY <1>3, EnterDoes
<1>4. ASSUME NEW ip \in Ip, cli_wccp_server(c, ip)
      PROVE  ModeOnly(c) \/ \E g \in Group : \E new \in Server : MakesServer(c, ip, g, new)
  BY <1>4, ServerDoes
<1> QED
  BY <1>1, <1>2, <1>3, <1>4

(* The race, once it has happened, is on record. *)
LEMMA RacedStays ==
  ASSUME Library, Steady, [Next]_vars, ~ raced'
  PROVE  ~ raced
<1>1. CASE UNCHANGED raced
  BY <1>1
<1>2. CASE ClientActs
  <2>1. PICK c \in Client :
           \/ ModeOnly(c) \/ insert_load(c) \/ insert_link(c) \/ insert_count(c)
           \/ \E id \in GroupId : \E new \in Group : MakesGroup(c, id, new)
           \/ \E ip \in Ip : \E g \in Group : \E new \in Server : MakesServer(c, ip, g, new)
    BY <1>2, ClientDoes
  <2>2. CASE ModeOnly(c) \/ insert_load(c) \/ insert_link(c) \/ insert_count(c)
    BY <1>1, <2>2, ModeClients DEF insert_load, insert_link, insert_count, history
  <2>3. ASSUME NEW h, NEW new, Starts(c, h, new) PROVE ~ raced
    BY <2>3 DEF Starts
  <2> QED
    BY <2>1, <2>2, <2>3 DEF MakesGroup, MakesServer
<1>3. CASE ThreadActs \/ NetworkActs \/ UNCHANGED vars
  BY <1>1, <1>3, OthersQuiet
<1> QED
  BY <1>2, <1>3, Actors

(* Without a race the lists stay as they should be, and lose no item.     *)
LEMMA StepLinear ==
  ASSUME Library, Steady, Steady', Made, Linear, [Next]_vars, ~ raced'
  PROVE  Linear' /\ Grows
<1>1. CASE ClientActs
  <2>1. PICK c \in Client :
           \/ ModeOnly(c) \/ insert_load(c) \/ insert_link(c) \/ insert_count(c)
           \/ \E id \in GroupId : \E new \in Group : MakesGroup(c, id, new)
           \/ \E ip \in Ip : \E g \in Group : \E new \in Server : MakesServer(c, ip, g, new)
    BY <1>1, ClientDoes
  <2>2. CASE ModeOnly(c)
    BY <2>2, ModeClients, QuietLinear DEF SameLists, lists, history
  <2>3. CASE insert_load(c)
    BY <2>3, LoadLinear
  <2>4. CASE insert_link(c)
    BY <2>4, LinkLinear
  <2>5. CASE insert_count(c)
    BY <2>5, CountLinear
  <2>6. ASSUME NEW id \in GroupId, NEW new \in Group, MakesGroup(c, id, new)
        PROVE  Linear' /\ Grows
    BY <2>6, GroupLinear
  <2>7. ASSUME NEW ip \in Ip, NEW g \in Group, NEW new \in Server, MakesServer(c, ip, g, new)
        PROVE  Linear' /\ Grows
    BY <2>7, ServerLinear
  <2> QED
    BY <2>1, <2>2, <2>3, <2>4, <2>5, <2>6, <2>7
<1>2. CASE ThreadActs \/ NetworkActs \/ UNCHANGED vars
  BY <1>2, OthersQuiet, QuietLinear DEF SameClient
<1> QED
  BY <1>1, <1>2, Actors

-----------------------------------------------------------------------------
(* Groups are made before they are used, and the numbers read hold *)

(* A server is linked or counted in a group that was made. *)
LEMMA HeadIsMade ==
  ASSUME Made, NEW c \in Client, cli[c].pc # "idle", cli[c].head \in Group
  PROVE  group[cli[c].head].id # NULL
BY DEF Made, Busy

(* Every step keeps the groups of the clients made. *)
LEMMA MadeStep ==
  ASSUME Library, Steady, Made, [Next]_vars
  PROVE  Made'
<1> DEFINE Own(d) == /\ cli'[d].data # NULL => group'[cli'[d].data].id # NULL
                     /\ Busy(d)' /\ cli'[d].head \in Group => group'[cli'[d].head].id # NULL
           Fresh == \A g \in Group : group'[g].id = NULL => group'[g].servers = EmptyHead
<1>1. ASSUME \A d \in Client : Own(d), Fresh PROVE Made'
  BY <1>1 DEF Made
<1>2. ASSUME NEW d \in Client PROVE cli[d].data \in Group \cup {NULL}
  BY DEF ClientType, Steady, Typed, ClientsTyped
<1>3. ASSUME NEW d \in Client, cli'[d].data = cli[d].data, cli'[d].head = cli[d].head,
             Busy(d)' => Busy(d), \A g \in Group : group[g].id # NULL => group'[g].id # NULL
      PROVE  Own(d)
  BY <1>2, <1>3 DEF Made
<1>4. ASSUME NEW c \in Client, Own(c), \A d \in Client \ {c} : cli'[d] = cli[d],
             \A g \in Group : group[g].id # NULL => group'[g].id # NULL, Fresh
      PROVE  Made'
  BY <1>1, <1>3, <1>4 DEF Busy
<1>5. ASSUME \A g \in Group : group'[g].id = group[g].id /\ group'[g].servers = group[g].servers
      PROVE  Fresh
  BY <1>5 DEF Made
<1>6. ASSUME NEW c \in Client, NEW h, h = cli[c].head, cli[c].pc # "idle",
             \A g \in Group : group'[g].id = group[g].id,
             \A g \in Group : g # h => group'[g].servers = group[g].servers
      PROVE  Fresh
  BY <1>6, HeadIsMade DEF Made
<1> HIDE DEF Own, Fresh
<1>7. CASE ThreadActs \/ NetworkActs \/ UNCHANGED vars
  BY <1>1, <1>3, <1>5, <1>7, OthersQuiet DEF SameLists, Busy
<1>8. ASSUME NEW c \in Client, ModeOnly(c) PROVE Made'
  <2>1. /\ group' = group /\ SameClient(c) /\ \A d \in Client \ {c} : cli'[d] = cli[d]
        /\ cli'[c].data = cli[c].data \/ cli'[c].data = NULL \/ group[cli'[c].data].id # NULL
    BY <1>8, ModeClients DEF lists
  <2>2. Own(c)
    BY <2>1 DEF Own, Made, SameClient, Busy
  <2> QED
    BY <1>4, <1>5, <2>1, <2>2
<1>9. ASSUME NEW c \in Client, insert_load(c) PROVE Made'
  <2>1. /\ group' = group /\ cli'[c].data = cli[c].data /\ \A d \in Client \ {c} : cli'[d] = cli[d]
        /\ Loads(c)
    BY <1>9, LoadDoes DEF lists
  <2> QED
    BY <1>3, <1>4, <1>5, <2>1 DEF Loads, Busy
<1>10. ASSUME NEW c \in Client, insert_link(c) PROVE Made'
  <2>1. /\ cli'[c].data = cli[c].data /\ cli'[c].head = cli[c].head
        /\ \A d \in Client \ {c} : cli'[d] = cli[d]
    BY <1>10, LinkRecord
  <2>2. \A g \in Group : group'[g].id = group[g].id
    BY <1>10, LinkSteady DEF KeepsData
  <2>3. \A g \in Group : g # cli[c].head => group'[g].servers = group[g].servers
    BY <1>10, LinkGroup, LinkServer
  <2>4. Fresh
    BY <1>6, <1>10, <2>2, <2>3 DEF insert_link, Busy
  <2> QED
    BY <1>3, <1>4, <1>10, <2>1, <2>2, <2>4 DEF insert_link, Busy
<1>11. ASSUME NEW c \in Client, insert_count(c) PROVE Made'
  <2>1. /\ cli'[c].pc = "idle" /\ \A d \in Client \ {c} : cli'[d] = cli[d]
        /\ cli'[c].data = IF cli[c].head = GROUPS THEN cli[c].item ELSE cli[c].head
        /\ \A g \in Group : group'[g].id = group[g].id
    BY <1>11, CountSteady
  <2>2. cli[c].pc = "count" /\ Busy(c) /\ cli[c].pc # "idle" /\ ~ Busy(c)'
    BY <1>11, <2>1 DEF insert_count, Busy
  <2>3. ASSUME NEW g \in Group, g # cli[c].head PROVE group'[g].servers = group[g].servers
    BY <1>11, <2>3 DEF insert_count, Steady, Typed, ListsTyped
  <2>4. Fresh
    BY <1>6, <2>1, <2>2, <2>3
  <2>5. cli'[c].data \in Group /\ group[cli'[c].data].id # NULL
    BY <2>1, <2>2, BusyAdds, HeadIsMade DEF Universe, Key, Heads
  <2> QED
    BY <1>4, <2>1, <2>2, <2>4, <2>5 DEF Own
<1>12. ASSUME NEW c \in Client, NEW id, NEW new \in Group, MakesGroup(c, id, new) PROVE Made'
  <2>1. /\ cli'[c].head = GROUPS /\ cli'[c].data = cli[c].data
        /\ \A d \in Client \ {c} : cli'[d] = cli[d]
        /\ id # NULL /\ group'[new].id = id /\ \A g \in Group \ {new} : group'[g] = group[g]
    BY <1>12 DEF MakesGroup, Starts
  <2>2. \A g \in Group : group[g].id # NULL => group'[g].id # NULL
    BY <2>1
  <2>3. ASSUME NEW g \in Group, group'[g].id = NULL PROVE group'[g].servers = EmptyHead
    BY <2>1, <2>3 DEF Made
  <2>4. Own(c)
    BY <1>2, <2>1, <2>2, Sizes DEF Own, Made
  <2> QED
    BY <1>4, <2>1, <2>2, <2>3, <2>4 DEF Fresh
<1>13. ASSUME NEW c \in Client, NEW ip, NEW g \in Group, NEW new \in Server, MakesServer(c, ip, g, new)
       PROVE  Made'
  <2>1. /\ cli'[c].head = g /\ cli'[c].data = g /\ cli[c].data = g
        /\ \A d \in Client \ {c} : cli'[d] = cli[d]
        /\ group' = group
    BY <1>13 DEF MakesServer, Starts
  <2>2. group[g].id # NULL
    BY <2>1, Sizes DEF Made
  <2> QED
    BY <1>4, <1>5, <2>1, <2>2 DEF Own
<1>14. CASE ClientActs
  BY <1>8, <1>9, <1>10, <1>11, <1>12, <1>13, <1>14, ClientDoes
<1> QED
  BY <1>7, <1>14, Actors

MessageStates == {"here_i_am", "redirect_assign"}

(* The steps of the WCCP thread after which no message is being built. *)
LEMMA LeavesMessage ==
  ASSUME Library, Steady, \/ \E due \in SUBSET Server : epoll_wait(due)
                 \/ wccp_open \/ wccp_redirect_assign \/ epoll_again
                 \/ \E d \in Fd : epoll_error(d) \/ epoll_receive(d) \/ epoll_receive_fails(d)
  PROVE  w'.pc \notin MessageStates
<1>1. ListsTyped /\ w \in ThreadType /\ groups.next \in Group \cup {NULL}
  BY DEF Steady, Typed, ThreadFits, ListsTyped, ListHeadType
<1>2. ASSUME NEW x, NEW due, Walks(x, due) PROVE x.pc \notin MessageStates /\ x \in ThreadType
  BY <1>2 DEF Walks, MessageStates
<1>3. ASSUME NEW due \in SUBSET Server, epoll_wait(due) PROVE w'.pc \notin MessageStates
  <2>1. PICK x : x = FromGroup(DueGroup(groups.next, due), due)
    OBVIOUS
  <2>2. PICK e, f : w' = [x EXCEPT !.events = e, !.errs = f]
    BY <1>3, <2>1 DEF epoll_wait
  <2> QED
    BY <1>1, <1>2, <2>1, <2>2, WalkFits DEF ThreadType
<1>4. ASSUME wccp_open \/ wccp_redirect_assign PROVE w'.pc \notin MessageStates
  BY <1>1, <1>2, <1>4, AtServerHas, WalkFits DEF wccp_open, wccp_redirect_assign, AtServer
<1>5. CASE epoll_again
  BY <1>5 DEF Waiting, MessageStates, epoll_again
<1>6. ASSUME NEW d \in Fd, epoll_error(d) \/ epoll_receive(d) \/ epoll_receive_fails(d)
      PROVE  w'.pc \notin MessageStates
  BY <1>1, <1>6 DEF MessageStates, ThreadType, epoll_error, epoll_receive,
     epoll_receive_fails
<1> QED
  BY <1>3, <1>4, <1>5, <1>6

(* A step of a client that does not tear the message that is being built. *)
LEMMA ClientNumber ==
  ASSUME Steady, NumberHolds, w' = w, torn => torn',
         \A g \in Group : Building(g) /\ ~ torn' =>
           /\ group'[g].servers.count = group[g].servers.count
           /\ \A d \in Client : cli'[d].pc = "count" /\ cli'[d].head = g =>
                                cli[d].pc = "count" /\ cli[d].head = g
  PROVE  NumberHolds'
<1> SUFFICES ASSUME w.pc \in MessageStates, ~ torn'
             PROVE  ~ Adding(w.g)' /\ w.n = group'[w.g].servers.count
  BY DEF NumberHolds, MessageStates
<1> QED
  BY DEF Adding, NumberHolds, MessageStates, Building, Steady, ThreadFits, AtServer

(* A step of a client leaves the number read, or tears the message. *)
LEMMA ClientsNumber ==
  ASSUME Library, Steady, Made, NumberHolds, ClientActs
  PROVE  NumberHolds'
<1> DEFINE Other(c) == \A d \in Client \ {c} : cli'[d] = cli[d]
           NoTear(g) == /\ group'[g].servers.count = group[g].servers.count
                        /\ \A d \in Client : cli'[d].pc = "count" /\ cli'[d].head = g =>
                                             cli[d].pc = "count" /\ cli[d].head = g
<1>1. PICK c \in Client :
         \/ ModeOnly(c) \/ insert_load(c) \/ insert_link(c) \/ insert_count(c)
         \/ \E id \in GroupId : \E new \in Group : MakesGroup(c, id, new)
         \/ \E ip \in Ip : \E g \in Group : \E new \in Server : MakesServer(c, ip, g, new)
  BY ClientDoes
<1>2. ASSUME w' = w, torn => torn', \A g \in Group : Building(g) /\ ~ torn' => NoTear(g)
      PROVE  NumberHolds'
  BY <1>2, ClientNumber
<1>3. ASSUME NEW g \in Group, Other(c), ~ (cli'[c].pc = "count" /\ cli'[c].head = g),
             group'[g].servers.count = group[g].servers.count
      PROVE  NoTear(g)
  BY <1>3
<1> HIDE DEF Other, NoTear
<1>4. CASE ModeOnly(c)
  BY <1>2, <1>4, ModeClients DEF NoTear, SameClient, lists, history
<1>5. CASE insert_load(c)
  BY <1>2, <1>3, <1>5, LoadDoes DEF Loads, lists, history, Other
<1>6. CASE insert_link(c)
  <2>1. ASSUME NEW g \in Group, Building(g), ~ torn' PROVE NoTear(g)
    <3>1. g # cli[c].head /\ group'[g].servers = group[g].servers
      <4>1. CASE cli[c].head = GROUPS
        BY <1>6, <4>1, LinkGroup, Sizes
      <4>2. CASE cli[c].head # GROUPS
        BY <1>6, <2>1, <4>2, LinkServer
      <4> QED
        BY <4>1, <4>2
    <3> QED
      BY <1>3, <1>6, <3>1, LinkRecord DEF insert_link, Other
  <2> QED
    BY <1>2, <1>6, <2>1, LinkGroup, LinkRecord, LinkServer DEF insert_link, Other
<1>7. CASE insert_count(c)
  <2>1. /\ cli'[c].pc = "idle" /\ Other(c) /\ w' = w
        /\ \A g \in Group : group'[g].servers.count = IF g = cli[c].head THEN cli[c].n + 1
                                                      ELSE group[g].servers.count
    BY <1>7, CountSteady DEF insert_count, Other
  <2>2. ASSUME NEW g \in Group, Building(g), ~ torn' PROVE NoTear(g)
    BY <1>3, <1>7, <2>1, <2>2, Sizes DEF insert_count
  <2> QED
    BY <1>2, <1>7, <2>1, <2>2 DEF insert_count
<1>8. ASSUME NEW id, NEW new \in Group, MakesGroup(c, id, new) PROVE NumberHolds'
  BY <1>2, <1>3, <1>8 DEF Made, MakesGroup, Starts, Other
<1>9. ASSUME NEW ip, NEW h \in Group, NEW new \in Server, MakesServer(c, ip, h, new)
      PROVE  NumberHolds'
  BY <1>2, <1>3, <1>9 DEF MakesServer, Starts, Other
<1> QED
  BY <1>1, <1>4, <1>5, <1>6, <1>7, <1>8, <1>9

(* The number read stays the number of routers, or the message is torn. *)
LEMMA StepNumber ==
  ASSUME Library, Steady, Made, NumberHolds, [Next]_vars
  PROVE  NumberHolds'
<1>1. CASE ClientActs
  BY <1>1, ClientsNumber
<1>2. CASE NetworkActs \/ UNCHANGED vars
  <2>1. UNCHANGED <<w, torn, cli, group>>
    BY <1>2 DEF NetworkActs, i_see_you, port_unreachable, vars, lists, history
  <2> QED
    BY <2>1 DEF NumberHolds, Adding
<1>3. CASE wccp_hello \/ wccp_here_i_am
  <2>1. PICK n : n = group[w.g].servers.count
    OBVIOUS
  <2>2. PICK p : w' = [w EXCEPT !.pc = p, !.n = n]
    BY <1>3, <2>1 DEF wccp_hello, wccp_here_i_am
  <2>3. ~ torn' => ~ Adding(w.g)
    BY <1>3 DEF wccp_hello, wccp_here_i_am, NumberHolds
  <2> QED
    BY <1>3, <2>1, <2>2, <2>3, HelloSteady DEF NumberHolds, Adding, ThreadType, Steady,
       ThreadFits
<1>4. CASE \/ \E due \in SUBSET Server : epoll_wait(due)
           \/ wccp_open \/ wccp_redirect_assign \/ epoll_again
           \/ \E d \in Fd : epoll_error(d) \/ epoll_receive(d) \/ epoll_receive_fails(d)
  BY <1>4, LeavesMessage DEF NumberHolds, MessageStates
<1> QED
  BY <1>1, <1>2, <1>3, <1>4, Actors DEF ThreadActs

-----------------------------------------------------------------------------
(* The lists and the messages *)

(* A message that is sent while the number holds lists that many routers. *)
LEMMA SendsWell ==
  ASSUME Steady, NumberHolds, WellFormed, ~ raced => Linear, ~ raced' => ~ raced,
         Send, w.pc \in MessageStates
  PROVE  WellFormed'
<1> SUFFICES ASSUME sent' # NULL, ~ sent'.torn, ~ raced'
             PROVE  sent'.n = Cardinality(sent'.routers) /\ sent'.m = sent'.n
  BY DEF WellFormed
<1> QED
  BY ItemsAre DEF Counted, Linear, Heads, Adding, Counts, NumberHolds, MessageStates, Steady,
     ThreadFits, AtServer, Send

(* Every step keeps the last message well-formed. *)
LEMMA StepWellFormed ==
  ASSUME Library, Steady, NumberHolds, WellFormed, ~ raced => Linear, [Next]_vars
  PROVE  WellFormed'
<1>1. CASE sent' = sent \/ sent' = NULL
  BY <1>1, RacedStays DEF WellFormed
<1>2. CASE wccp_here_i_am \/ wccp_redirect_assign
  BY <1>2, RacedStays, SendsWell DEF wccp_here_i_am, wccp_redirect_assign, MessageStates
<1>3. CASE ClientActs
  <2>1. sent' = sent
    BY <1>3 DEF ClientActs, insert_load, insert_link, insert_count, cli_wccp_password,
       cli_exit_wccp_mode, cli_enter_wccp_mode, cli_wccp_server, history
  <2> QED
    BY <1>1, <2>1
<1>4. CASE NetworkActs \/ UNCHANGED vars
  BY <1>1, <1>4 DEF NetworkActs, i_see_you, port_unreachable, vars, history
<1>5. CASE ThreadActs
  BY <1>1, <1>2, <1>5 DEF ThreadActs, epoll_wait, wccp_open, wccp_hello, epoll_again,
     epoll_error, epoll_receive, epoll_receive_fails, history
<1> QED
  BY <1>3, <1>4, <1>5, Actors

(* At first all lists are empty. *)
LEMMA InitIntact ==
  ASSUME Library, Init
  PROVE  Intact
<1>1. /\ groups = EmptyHead /\ \A g \in Group : group[g] = NoGroup
      /\ \A s \in Server : server[s] = NoServer
      /\ \A c \in Client : cli[c] = IdleClient
  BY DEF Init
<1>2. /\ NoGroup.id = NULL /\ NoGroup.servers = EmptyHead /\ NoServer.ip = NULL
      /\ EmptyHead.next = NULL /\ EmptyHead.count = 0
      /\ IdleClient.pc = "idle" /\ IdleClient.data = NULL
  BY DEF NoGroup, NoServer, EmptyHead, IdleClient
<1>3. ASSUME NEW h \in Heads
      PROVE  ItemsOf(h) = {} /\ ListHead(h) = EmptyHead /\ \A x \in Universe(h) : Key(h, x) = NULL
  <2>1. PICK N \in Nat : Universe(h) = 1 .. N
    BY WccpAssumption DEF Universe, Group, Server
  <2>2. PICK next : next = NextOf(h)
    OBVIOUS
  <2>3. ListsTyped
    BY InitSteady DEF Steady, Typed
  <2>4. next \in [(1 .. N) \cup {NULL} -> (1 .. N) \cup {NULL}] /\ next[NULL] = NULL
    BY <2>1, <2>2, <2>3, NextTyped
  <2>5. Chain(EmptyHead, next, {})
    BY <1>2 DEF Chain
  <2>6. NULL \notin Nat /\ {} \in SUBSET (1 .. N)
    BY WccpAssumption
  <2>7. Items(Nth(EmptyHead.next, next)) = {}
    BY <2>4, <2>5, <2>6, ChainItems, SMT
  <2> QED
    BY <1>1, <1>2, <2>2, <2>7, ItemsAre DEF ItemsOf, Heads, Universe, Key
<1>4. Linear
  <2>1. ASSUME NEW h \in Heads PROVE Listed(h) /\ InOrder(h) /\ Counted(h)
    BY <1>1, <1>2, <1>3, Small DEF Listed, InOrder, Counted, Chain, Busy, Joining,
       Counts
  <2> QED
    BY <1>1, <1>2, <1>3, <2>1 DEF Linear, Found, Alone, Joiners, Apart, Heads, Busy, Joining,
       Counts
<1> QED
  BY <1>1, <1>2, <1>4 DEF Intact, Init, WellFormed, NumberHolds, MessageStates, Waiting,
     Made, Busy, Joining, Counts

(* Every step keeps the lists, the numbers read and the messages as they   *)
(* should be.                                                              *)
LEMMA StepIntact ==
  ASSUME Library, Steady, Intact, [Next]_vars
  PROVE  Intact'
BY MadeStep, RacedStays, StepLinear, StepNumber, StepSteady, StepWellFormed DEF Intact

(* One client at most is between linking and counting an item of a list.   *)
LEMMA CountedOnce ==
  ASSUME Library, ListsTyped, Linear, NEW h \in Heads
  PROVE  ListHead(h).count + Cardinality(Counting(h)) = Cardinality(ItemsOf(h))
<1>1. ListHead(h).count \in Nat
  BY ItemsAre DEF ListsTyped, ListHeadType, GroupType, Heads
<1>2. CASE Counting(h) = {}
  <2>1. ListHead(h).count = Cardinality(ItemsOf(h))
    BY <1>2 DEF Counted, Counting, Counts, Linear
  <2>2. Cardinality(Counting(h)) = 0
    BY <1>2, Small
  <2> QED
    BY <1>1, <2>1, <2>2, SMT
<1>3. ASSUME NEW c \in Counting(h)
      PROVE  ListHead(h).count + Cardinality(Counting(h)) = Cardinality(ItemsOf(h))
  <2>1. Counting(h) = {c}
    BY DEF Linear, Alone, Counting, Busy
  <2> QED
    BY <1>1, <1>3, <2>1, Small DEF Counted, Counting, Counts, Linear
<1> QED
  BY <1>2, <1>3

(* What Linear says of the lists. *)
LEMMA IntactLists ==
  ASSUME Library, Steady, Intact, CachesOnce
  PROVE  ListsIntact
<1>1. ASSUME ~ raced
      PROVE  /\ groups.count + Cardinality(Counting(GROUPS)) = Cardinality(Items(GroupList))
             /\ \A g \in Group :
                  /\ group[g].servers.count + Cardinality(Counting(g)) = Cardinality(Items(ServerList(g)))
                  /\ \A s, t \in Items(ServerList(g)) : server[s].ip = server[t].ip => s = t
                  /\ g \notin FreeGroups => \/ g \in Items(GroupList)
                                     \/ \E c \in Client : cli[c].head = GROUPS /\ cli[c].item = g
             /\ \A g, h \in Group : g \notin FreeGroups /\ group[g].id = group[h].id => g = h
  <2>1. Linear /\ ListsTyped
    BY <1>1 DEF Intact, Steady, Typed
  <2>2. ASSUME NEW g \in Group
        PROVE  group[g].servers.count + Cardinality(Counting(g)) = Cardinality(Items(ServerList(g)))
    BY <2>1, CountedOnce, ItemsAre DEF Heads
  <2>3. ASSUME NEW g \in Group, NEW s \in Items(ServerList(g)), NEW t \in Items(ServerList(g)),
               server[s].ip = server[t].ip
        PROVE  s = t
    <3>1. Listed(g) /\ ItemsOf(g) = Items(ServerList(g)) /\ g # GROUPS
      BY <2>1, ItemsAre, Sizes DEF Linear, Heads
    <3> QED
      BY <2>3, <3>1 DEF Listed, Key
  <2>4. ASSUME NEW g \in Group, g \notin FreeGroups
        PROVE  \/ g \in Items(GroupList)
               \/ \E c \in Client : cli[c].head = GROUPS /\ cli[c].item = g
    BY <2>1, <2>4, ItemsAre DEF Linear, Found, FreeGroups
  <2> QED
    BY <2>1, <2>2, <2>3, <2>4, CountedOnce, ItemsAre DEF Linear, Found, FreeGroups, Heads
<1> QED
  BY <1>1, SteadyTypeOK DEF ListsIntact, CachesOnce

-----------------------------------------------------------------------------
(* What the servers and the groups hear *)

\* What a step may make of the router ID of a server: nothing, the ID of that router, or
\* it is new.
Hears(s) ==
  \/ server'[s].ip = server[s].ip /\ server'[s].router_id = server[s].router_id
  \/ /\ server[s].ip # NULL /\ server'[s].ip = server[s].ip
     /\ server'[s].router_id = server[s].ip
  \/ server[s].ip = NULL /\ server'[s].router_id = NULL

(* Every step changes the router IDs as Hears says. *)
LEMMA StepHears ==
  ASSUME Library, Steady, [Next]_vars
  PROVE  \A s \in Server : Hears(s)
<1>1. CASE UNCHANGED server
  BY <1>1 DEF Hears
<1>2. CASE ClientActs
  <2>1. PICK c \in Client :
           \/ ModeOnly(c) \/ insert_load(c) \/ insert_link(c) \/ insert_count(c)
           \/ \E id \in GroupId : \E new \in Group : MakesGroup(c, id, new)
           \/ \E ip \in Ip : \E g \in Group : \E new \in Server : MakesServer(c, ip, g, new)
    BY <1>2, ClientDoes
  <2>2. CASE ModeOnly(c)
    BY <1>1, <2>2, ModeClients DEF lists
  <2>3. CASE insert_load(c) \/ insert_count(c)
    BY <1>1, <2>3 DEF insert_load, insert_count, lists
  <2>4. CASE insert_link(c)
    BY <2>4, LinkSteady DEF KeepsData, Hears
  <2>5. ASSUME NEW id \in GroupId, NEW new \in Group, MakesGroup(c, id, new)
        PROVE  \A s \in Server : Hears(s)
    BY <1>1, <2>5 DEF MakesGroup
  <2>6. ASSUME NEW ip \in Ip, NEW g \in Group, NEW new \in Server, MakesServer(c, ip, g, new)
        PROVE  \A s \in Server : Hears(s)
    BY <2>6 DEF MakesServer, Hears
  <2> QED
    BY <2>1, <2>2, <2>3, <2>4, <2>5, <2>6
<1>3. CASE ThreadActs
  <2>1. CASE wccp_open
    BY <1>1, <2>1, OpenSteady DEF Hears
  <2>2. ASSUME NEW d \in Fd, epoll_receive(d) \/ epoll_receive_fails(d)
        PROVE  \A s \in Server : Hears(s)
    BY <2>2, ReceiveSteady DEF Handled, Hears
  <2> QED
    BY <1>1, <1>3, <2>1, <2>2 DEF ThreadActs, epoll_wait, wccp_hello, wccp_here_i_am,
       wccp_redirect_assign, epoll_error, epoll_again, lists
<1>4. CASE NetworkActs
  BY <1>1, <1>4 DEF NetworkActs, i_see_you, port_unreachable, lists
<1> QED
  BY <1>1, <1>2, <1>3, <1>4, Actors DEF vars, lists

(* The items of the lists of servers, after a step. *)
LEMMA ItemsNext ==
  \A g \in Group : ItemsOf(g)' = Items(ServerList(g))'
BY Sizes DEF ItemsOf, NextOf, ServerList, ServersFrom, ServerNext, ListHead

(* Every step keeps what the routers tell put down to them. *)
LEMMA StepHeard ==
  ASSUME Library, Steady, Intact, RoutersHeard, [Next]_vars
  PROVE  RoutersHeard'
<1>1. \A s \in Server : server'[s].router_id \in {NULL, server'[s].ip}
  BY StepHears DEF Hears, RoutersHeard
<1>2. ASSUME ~ raced', NEW g \in Group, group'[g].change # 0 \/ group'[g].caches # <<>>
      PROVE  \E s \in Items(ServerList(g))' : server'[s].router_id # NULL
  <2>1. ~ raced /\ Linear /\ Made
    BY <1>2, RacedStays DEF Intact
  <2>2. Items(ServerList(g)) \subseteq Items(ServerList(g))'
    BY <1>2, <2>1, ItemsAre, ItemsNext, StepLinear, StepSteady DEF Grows, Heads
  <2>3. \A s \in Items(ServerList(g)) : s \in Server /\ server[s].ip # NULL
    <3>1. Listed(g) /\ ItemsOf(g) = Items(ServerList(g)) /\ g # GROUPS
      BY <2>1, ItemsAre, Sizes DEF Linear, Heads
    <3> QED
      BY <3>1 DEF Listed, Universe, Key
  <2>4. CASE group[g].change # 0 \/ group[g].caches # <<>>
    <3>1. PICK s \in Items(ServerList(g)) : server[s].router_id # NULL
      BY <2>1, <2>4 DEF RoutersHeard
    <3>2. s \in Server /\ server[s].ip # NULL /\ s \in Items(ServerList(g))'
      BY <2>2, <2>3
    <3>3. server'[s].router_id # NULL
      BY <3>1, <3>2, StepHears DEF Hears
    <3> QED
      BY <3>2, <3>3
  <2> QED
    BY <1>2, <2>2, <2>4, StepLearning DEF Learning
<1> QED
  BY <1>1, <1>2 DEF RoutersHeard

-----------------------------------------------------------------------------
(* The theorems *)

FS == INSTANCE FiniteSetTheorems

(* What was taken from the library is there. *)
LEMMA LibraryHolds == Library
<1>1. LeastNumber
  <2> SUFFICES ASSUME NEW T \in SUBSET Nat, T # {} PROVE \E x \in T : \A y \in T : x <= y
    BY DEF LeastNumber
  <2>1. PICK x \in T : \A y \in T : ~ (<<y, x>> \in FS!OpToRel(<, Nat))
    BY FS!NatLessThanWellFounded, FS!WFMin
  <2>2. \A y \in T : ~ (y < x)
    BY <2>1 DEF FS!OpToRel
  <2> QED
    BY <2>2, SMT
<1>2. /\ \A S : IsFiniteSet(S) <=> FS!IsFiniteSet(S)
      /\ \A S : Cardinality(S) = FS!Cardinality(S)
  BY DEF IsFiniteSet, FS!IsFiniteSet, Cardinality, FS!Cardinality
<1>3. Intervals
  <2> SUFFICES ASSUME NEW n \in Nat PROVE IsFiniteSet(1 .. n) /\ Cardinality(1 .. n) = n
    BY DEF Intervals
  <2>1. FS!IsFiniteSet(1 .. n) /\ FS!Cardinality(1 .. n) = n
    BY FS!FS_Interval, SMT
  <2> QED
    BY <1>2, <2>1
<1>4. FewElements
  BY <1>2, FS!FS_EmptySet, FS!FS_Singleton DEF FewElements
<1>5. FiniteParts
  BY <1>2, FS!FS_Subset DEF FiniteParts
<1>6. FiniteGrow
  BY <1>2, FS!FS_AddElement DEF FiniteGrow
<1> QED
  BY <1>1, <1>3, <1>4, <1>5, <1>6 DEF Library

(* A server has the router ID of its own router or none, whichever buffer  *)
(* wccp_handler is given, and a group that learned web-caches or a change  *)
(* number has heard of a server that is still in its list, unless two      *)
(* clients were adding to one list at once (wccp_handler, epoll_handler,   *)
(* process_wccp_router_view_component).                                    *)
THEOREM RoutersAreHeard == Spec => []RoutersHeard
<1>1. Init => Steady /\ Intact /\ RoutersHeard
  <2> SUFFICES ASSUME Init PROVE Steady /\ Intact /\ RoutersHeard
    OBVIOUS
  <2>1. RoutersHeard
    BY SMT DEF Init, RoutersHeard, NoGroup, NoServer
  <2> QED
    BY <2>1, InitIntact, LibraryHolds, InitSteady
<1>2. Steady /\ Intact /\ RoutersHeard /\ [Next]_vars => (Steady /\ Intact /\ RoutersHeard)'
  BY LibraryHolds, StepHeard, StepIntact, StepSteady
<1> QED
  BY <1>1, <1>2, PTL DEF Spec

(* The socket of a server is connected to it, and no message goes to       *)
(* another server, unless epoll_handler has closed the socket              *)
(* (wccp_process_server, epoll_handler).                                   *)
THEOREM SocketsAreOwn == Spec => []OwnSocket
<1>1. Init => Steady /\ OwnSocket
  BY InitSteady, SMT DEF Init, OwnSocket, NoServer
<1>2. Steady /\ OwnSocket /\ [Next]_vars => (Steady /\ OwnSocket)'
  BY LibraryHolds, StepOwns, StepSteady
<1> QED
  BY <1>1, <1>2, PTL DEF Spec

(* Unless two clients were adding to one list at once, every group and     *)
(* server that a command has added is in its list once, is counted once    *)
(* and is the only one with its number or address: insert_list_item and    *)
(* the look-up before it, run without a lock, need no more than that.      *)
(* No web-cache is twice in the list of its group.                         *)
THEOREM ListsKeptIntact == Spec => []ListsIntact
<1>1. Init => Steady /\ Intact /\ CachesOnce
  <2> SUFFICES ASSUME Init PROVE Steady /\ Intact /\ CachesOnce
    OBVIOUS
  <2>1. CachesOnce
    BY SMT DEF Init, CachesOnce, NoGroup
  <2> QED
    BY <2>1, InitIntact, LibraryHolds, InitSteady
<1>2. Steady /\ Intact /\ CachesOnce /\ [Next]_vars => (Steady /\ Intact /\ CachesOnce)'
  BY LibraryHolds, StepCaches, StepIntact, StepSteady
<1>3. Steady /\ Intact /\ CachesOnce => ListsIntact
  BY LibraryHolds, IntactLists
<1> QED
  BY <1>1, <1>2, <1>3, PTL DEF Spec

(* A message lists as many routers as it says, and its web-caches are      *)
(* right behind them, unless a client was adding a server to the group     *)
(* meanwhile or two were adding to one list at once: the WCCP thread reads *)
(* the number twice and walks the list in between.                         *)
THEOREM MessagesWellFormed == Spec => []WellFormed
<1>1. Init => Steady /\ Intact
  BY InitIntact, InitSteady, LibraryHolds
<1>2. Steady /\ Intact /\ [Next]_vars => (Steady /\ Intact)'
  BY LibraryHolds, StepIntact, StepSteady
<1>3. Steady /\ Intact => WellFormed
  BY DEF Intact
<1> QED
  BY <1>1, <1>2, <1>3, PTL DEF Spec

=============================================================================
