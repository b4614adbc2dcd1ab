# OpenNOP in TLA+

Specifications of the OpenNOP daemon (`src/opennopd`) and of its kernel module
(`src/opennopdrv`): state machines translated from the C code, TLC runs that
check them on small instances, and TLAPS proofs of the central invariants for
every value of the constants. `PROJECT.json` is the index: components, runs,
mutants, the map from definitions to source lines, findings, hazards, theorems.

## The system

OpenNOP is a network accelerator. Its kernel module hands forwarded TCP packets
to a Netfilter queue while the daemon is alive. The daemon's *fetcher* thread
takes each packet from the queue, finds its TCP session, and either accepts the
packet at once or copies it to a buffer for one of two threads of a *worker*:
one compresses what leaves for a neighboring accelerator, the other restores
what comes from one. The worker gives the verdict. Around this data path there
are threads for the buffers, dead sessions, heartbeats to the kernel, messages
to neighbors, WCCP, counters and the command line.

| Part | Source | Model |
|---|---|---|
| packet queues | `queuemanager.c`, `packet.c` | `PacketFifo`, `PacketQueue`, `PacketPoolProofs` |
| buffer pool and memory manager | `memorymanager.c` | `PacketPool`, `PacketPoolProofs` |
| fetcher and workers | `fetcher.c`, `worker.c` | `NfQueue`, `DataPath`, `DataPathProofs` |
| session table | `sessionmanager.c` | `SessionTable`, `SessionTableProofs` |
| dead session detection | `sessioncleanup.c`, `updateseq` | `DeadSession`, `TimeoutProofs` (one session), `SessionTable` (the walk) |
| heartbeat and kernel module | `healthagent.c`, `opennopdrv/` | `Heartbeat`, `TimeoutProofs` |
| signals and shutdown | `signals.c`, `opennopd.c` | `Lifecycle`, `LifecycleProofs` |
| neighbors (IPC), sockets | `ipc.c`, `sockets.c` | `Neighbors`, `NeighborsProofs` |
| TCP options, NOD header, compression of a packet | `tcpoptions.c`, `compression.c` | `TcpOptions`, `OptionPath` |
| checksums | `csum.c` | `Checksum`, `OptionPath` |
| counters | `counters.c` | `Counters`, `Lifecycle`, `LifecycleProofs` |
| WCCP | `wccpv2.c`, `list.h`, `sockets.c` | `Wccp`, `WccpProofs` |
| command line | `clicommands.c`, `climanager.c` | `CommandTree`, `Cli`, `CliProofs` |

## How the modules fit together

`PacketQueue` is the linked lists of `queuemanager.c`, one action per critical
section, and implements `PacketFifo`, a set of sequences. `PacketPool` composes
`PacketQueue` with the memory manager, the fetcher's `get_freepacket_buffer`
and the workers' `put_freepacket_buffer`; `StepsAreQueueOperations` says that
every step on the pool is a step of `PacketQueue`. `DataPath` therefore takes
the queues as sequences and the pool as a set of free buffers. It implements
`NfQueue`, what the kernel expects of a queue's user: at most one verdict per
packet, and only for a packet that was handed over. `SessionTable` has the
pointers of the session lists, which `DataPath` abstracts to a function of the
key, and `DeadSession` the counting that `SessionTable` leaves to chance.
`Heartbeat` and `Lifecycle` share `servicestate` with the data path, where it
is the Boolean `running`; a second signal, which only goes on from STOPPING to
STOPPED, is in `Lifecycle`. `Neighbors` has the states that `DataPath` takes as
the Boolean `up`, and `OptionPath` the bytes of which `DataPath` has the ID, the
flag and whether there are data; it composes `TcpOptions` and `Checksum`.
`Lifecycle` extends `Counters`, whose metrics its fetcher and worker count, and
`Cli` extends `CommandTree`, whose tree its clients' lines are looked up in.
`Neighbors` and `Wccp` are the two users of `epoll_handler`; the commands that
configure them, which the CLI's threads run, are actions of theirs.

### Granularity

What a mutex protects is one step. Outside of it a step ends where a thread
reads or writes what another one changes: a pointer of a list, the state of the
neighbor, `allocatedpacketbuffers`, `deadcounter` (load and store are two steps
because `++` is not atomic). Names of actions are those of the C functions,
with a suffix for the part of the function.

### Undefined behaviour

A thread that follows a pointer to a freed session, or uses the Netfilter queue
after another one has closed it, ends the model (`Undefined`);
the properties speak of what holds up to there. So does the IPC thread when the
CLI has deleted the neighbor it is at (`del_neighbor`, where the freed memory may
also still be what it was). The ID of a new neighbor is what `malloc` left there
(`Garbage`). Writes behind a packet's data go to the buffer's slack. In `Wccp` two
clients that add to a list no lock protects each take their steps in the order
of the code (load, link, count), in any interleaving. The staging queue of the
memory manager is an uninitialised local of which only `qlen` and the mutexes are set;
its `next` and `prev` are written by `queue_packet` before they are read, so the
model starts it empty.

## Modules

**PacketFifo, PacketQueue.** State: `next`, `prev`, `qlen` of each queue head,
the link `pnext` of each packet, the local variables of `move_queued_packets`,
and, as history, `where` a packet is and the `chain` of packets queued. Actions: `newpacket`,
`queue_packet`, `dequeue_packet`, and the two critical sections of
`move_queued_packets` (`move_from`, `move_to`), between which the packets are in
no list. `qlen` wraps at `QlenModulus`. `dequeue_packet` leaves the stale `prev`
of an emptied queue, as the code does.

**PacketPool.** The manager (`mm_*`), the fetcher (`get_*`) and
`put_freepacket_buffer`, with `mylock`, its condition variable (lost signals and
spurious wake-ups included) and the count `allocatedpacketbuffers`. The manager
initialises the pool after other threads have started; `quiet` records that no
packet came before. The manager also unlocks `mylock` without owning it when it
did not have to wait. Its loop may end at any look at the service's state
(`mm_check`); the fetcher then lives on the buffers there are and on the heap.

**NfQueue, DataPath.** Packets are records of what the code branches on: kind of
TCP segment, key, direction, accelerator ID, compressed or not, data or not.
`fetcher_callback` up to its first question about the neighbor is one action;
the two questions (`verify_neighbor_in_domain` is called again for each branch)
are two. The threads of a worker dequeue, look up the session, optimize or
deoptimize, read the flags, close the session and give the verdict. The cleanup
thread, the neighbor's state and the end of the service interleave freely. A
session is absent or established at first; others come about by the packets. When
the pool is empty and no memory is left, the fetcher leaves its packet undecided
(`fetcher_get_fails`; `starved` records it). `signal_handler` stops the service and
then closes the queue (`fetcher_graceful_exit`), and so does the fetcher when its
loop ends (`fetcher_function_ends`, the condition of the loop and the closing in
one step). Who comes second, or gives a verdict after that, uses freed memory, and
so does the library itself when the callback returns to it.

**SessionTable.** Heads, next and prev pointers of the session lists,
`workers[q].sessions`, and the threads' local pointers. `getsession` and
`cleanuplist` walk without a lock, one pointer per step; `insertsession` and
`clearsession` lock their bucket. `doubled` records that a session was cleared
by two threads.

**DeadSession.** Sequence numbers modulo `SeqModulus`, `deadcounter`, keepalives
on their way and ends that die. `raced` records that a packet counted between the
load and the store of `deadcounter++`, or between the test of the counter and
`clearsession` (`find_dead`, `remove`).

**Heartbeat.** The health agent's loop, the heartbeat command and the timer of
the kernel module, and its Netfilter hook as a state function
(`queue_function`). Time is in ticks; no thread is late, which is what `tick`
waits for.

**Counters, Lifecycle.** The conditions of the threads' loops, `signal_handler`
with `shutdown_workers`, and the joins of `main`. One worker thread has its queue
here, with the wait of `dequeue_packet`: an `if`, so a worker that is woken for
nothing goes on. The fetcher's `recv` may fail, which stops the service, or return
0, which ends the fetcher only. The fetcher and that worker register and count metrics; the
counters' thread reads the head of the list before it takes the lock, and
turns counts that roll over into rates. `since` and `span` record the true
number of packets.

**Neighbors.** The list of neighbors with their timers, the sockets with what
has arrived on them, the set of descriptors the edge-triggered `epoll` will
report, and the IPC thread: wait, one neighbor of `hello_neighbors`, one event.
The CLI changes the list between any two steps, and the neighbors' daemons
connect, send, close and reset as they like. Closed descriptors are given out
again, lowest first; `reused` records that one was that a neighbor still names,
`stale` the neighbors whose handler was last given a message that was read
before, from another socket, and `deaf` that `accept` has failed while connections
wait and none has come since: the edge of the listener was reported already.

**Wccp.** The list of service groups, their servers (routers) and web-caches, as
pointers and counts. A client thread runs a command in the steps of
`insert_list_item`; the WCCP thread is `epoll_handler` with its timeout function,
one server of the walk per step, and a message is built in two steps, between
which servers may be added. An I See You is an action of a router, and UDP may
lose, duplicate or reorder it: the inbox takes any message of the router at any
time. Byte order is modelled where the code depends on it: `service_id` is one
byte and is set from `htons(group_id)`. When `recv` fails the handler is called with
what was read before, and takes the router from the message. `raced`, `torn` and `closed` record two
clients adding to one list, a server added while a message was built, and the
sockets that `epoll_handler` has closed.

**CommandTree, Cli.** A node of the tree is its path. `register_command` finds or
adds a word under the node's lock and then sets the handler without it; `main`
and the CLI's thread do so at the same time. `Executed` is the search of
`execute_commands`. `Cli` has the server, which hands every thread the address
of the same `client_sock`, and the threads with the mode and the mode's data
they keep from line to line. An `accept` that fails (interrupted by the signal, or
for want of descriptors) sets `client_sock` to -1, 0 here, and makes a thread as
well, `th[NULL]`. `overwritten` records that `client_sock` was set
again before a thread had read it, `left` the clients that went away without a
command.

**TcpOptions, Checksum, OptionPath.** A packet is its option area, its data and the slack
behind them, all bytes; every function of `tcpoptions.c` is an operator on it.
`OptionPath` sends a packet through three accelerators, each of which marks a
SYN and lowers its MSS, or adds its ID and perhaps compresses, or restores the
data, and calculates the checksums where the code does; `Verifies` is the
receiver's test, the reference the sums are checked against. The arrangements of options are those of TCP endpoints: MSS, window scale,
SACK permitted, time stamps and a Fast Open cookie on a SYN, time stamps and up
to three SACK blocks on others, NOPs anywhere; and one option or none with up to 14
bytes of NOPs before it or of zeroes behind it. QuickLZ is any shortening that
can be undone.

## Runs

All are exhaustive. Every property of a passing run has a mutant in
`PROJECT.json`: a plausible bug in the code that TLC must find with it. The type
invariant `TypeOK` of a module is proved in a theorem of its own, or is the first
conjunct of an invariant that a run checks (`ListsIntact`, `SockLeadsHome`,
`OptionsKept`, `OwnThread`).

| Run | Bounds | Shows |
|---|---|---|
| `packet_queue` | 4 packets, 2 queues | lists intact, first in first out |
| `packet_pool` | 4 buffers, initial 2, minimum 2, 1 per refill | pool whole, the fetcher finds its buffer, the manager wakes, the fetcher returns |
| `data_path` | 1 key, 1 worker, 2 buffers, 2 packets of 8 kinds, on no or an open session | no packet forgotten, one user per buffer, one verdict, every packet decided |
| `data_path_race` | as above, 3 packets | *violation*: a packet is forgotten |
| `session_table` | 2 keys in one bucket, 3 sessions, 1 worker (4 threads) | lists, counts and ownership consistent until a session is cleared twice |
| `dead_session` | 4 sequence numbers, 3 packets besides answers | removed only when silent; dead sessions removed |
| `heartbeat` | periods 2 and 5 | a steady daemon stays up, a dead one is bypassed in time |
| `lifecycle` | 3 signals, 2 packets, counters modulo 2 | at most one late packet; how far the joins get; queues emptied; rates right and complete |
| `neighbors` | 2 neighbors, 2 descriptors, 1 key besides none, up to 3 CLI commands and 3 acts of the peers, 5 together | no edge lost, sockets lead home, UP needs an ID, its own, and a recent answer |
| `option_path` | up to 5 options and NOPs, or one and 7 to 14 bytes of padding, 0, 2 or 8 data bytes, 3 accelerators | data, options, MSS and ID come out right if there is room and the padding is below 12 bytes; checksums always |
| `wccp` | 2 groups, 2 routers, 2 descriptors, 2 clients, 3 commands, 2 messages or errors | lists whole, routers' messages put down to them, messages well formed, sockets the server's own, every server sent to |
| `cli` | 2 clients, 2 descriptors, 2 lines of 3, 13 commands | no line runs another's handler, every client has its thread, descriptors given back, lines read |

Why the bounds are enough: a list needs three elements to have a middle, and the
fourth packet is the one between lists; two queues are all an operation
touches. The pool needs one free, one held, one staged and one in the heap. Two
packets on a session that may already be open reach every pair of branches of
the fetcher and the two threads. Three sessions let a removed session have two
neighbours, with a bucket that collides. Periods 2 and 5 do not divide each
other, so that the timer meets the heartbeat at every distance. Two descriptors
for two neighbors run out and are reused; the timers of a neighbor are 1 tick
each, so that retry, time-out and a slow connect meet within a few steps. A
counter modulo 2 rolls over with the second packet. Two groups, of which one is
group 0, show what the byte order does; two clients and three commands put two
servers in a group, or one in each, with both clients in `insert_list_item`; two
messages are the fewest that can bring the same web-cache again. Of the CLI's
commands the 13 are those that share words or change the mode; the lines enter the
mode of WCCP, use its data, leave it or the session, or run nothing. Five
options and NOPs fill the area up to its 40 bytes and leave just enough or just
too little for the header (12 bytes) and the flag (3 bytes), the padding is on both
sides of the 12 bytes at which the header needs no more space, and
compression makes odd lengths for the checksum; of three
accelerators one is first, one last and one between them.

Deadlock is checked but where a bound, or `Undefined`, stops the model (the bounds
in `neighbors`, `wccp` and `cli`, `Undefined` in `data_path`), and in
`lifecycle`, where the threads that never end make no steps.

### Fairness

Weak fairness of the threads, which the scheduler runs: the fetcher and the
workers in `DataPath`, the cleanup thread, the health agent, the kernel's timer
and the clock, the threads and `main` in `Lifecycle`, the client threads in
`Wccp` and `Cli`. For threads that make finitely many steps it is written as
`[]<> ~ CanRun(t)`, which is the same and which TLC checks faster. The WCCP thread
never ends and takes a step again and again, since its wait has a timeout, and
every server is due again and again, since time passes. Nothing makes `recv` of
the fetcher return, and only a signal need wake a waiting worker. Strong fairness of taking
`mylock` in `PacketPool`: a thread that competes for a mutex gets it some time.
Nothing is assumed of the environment (packets may stop, keepalives may all be
lost, signals and neighbors come as they like) but in `PacketPool`, where
packets keep coming and workers finish with theirs: a signal that is lost
between the manager's check and its wait is made good only by the next packet.

## Proofs

| Module | Theorem | For every |
|---|---|---|
| `PacketPoolProofs` | `TypeCorrect`, `ListsAlwaysIntact`, `ListsImplementFifo` | set of packets and queues |
| | `PoolTypeCorrect`, `PoolStaysIntact`, `GetFindsItsBuffer`, `PoolRefinesQueues` | pool size, minimum and refill |
| `DataPathProofs` | `OneUserOfABuffer`, `BufferKept`, `OneVerdictOnly`, `TypesAreRight`, `PacketsAccounted` | number of workers, buffers, keys and packets |
| `SessionTableProofs` | `ListsStayIntact`, `OneSessionForEachKey`, `SessionsAreCounted` | number of sessions, buckets, keys and workers, and every hash |
| `TimeoutProofs` | `DeadSessionTypeCorrect`, `OnlySilentRemoved` | modulus of sequence numbers |
| | `HeartbeatTypeCorrect`, `QueuedOnlyIfHeardOf`, `SteadyStaysUp` | pair of periods |
| `LifecycleProofs` | `LifecycleTypeCorrect`, `RatesAreRight`, `AtMostOneIsLate` | even modulus of the counters, interval, number of signals and packets |
| `NeighborsProofs` | `EveryEdgeHandled`, `SocketsLeadHome`, `UpOnlyRecently`, `IdsAreTheirOwn` | number of neighbors, keys, descriptors, and all periods and bounds |
| `WccpProofs` | `RoutersAreHeard`, `SocketsAreOwn`, `ListsKeptIntact`, `MessagesWellFormed` | number of groups, servers, clients, descriptors, commands and messages |
| `CliProofs` | `ClientsHaveTheirThreads`, `LinesRunTheirHandlers` | table of commands that meets `TableAssumption`, number of clients, descriptors and lines |

*Queues.* `ListsIntact` relates the pointers to the history `chain` and is
inductive together with the type invariant: links, ends and count of a queue
are those of its chain, no packet is in a chain twice, and the packets `where`
says are in the queue are those of the chain. The refinement maps the queues
of `PacketFifo` to the chains.

*Pool.* `PoolInv` adds to the queues' invariant that the fetcher, between its
look at the count and its dequeue, has a packet in the pool's chain. Only the
fetcher takes packets from the pool, so no step in between can empty it.

*Data path.* `OneUser` is not inductive: a thread that gives a buffer back must
have one, so `Inv` says what each thread has at each of its places
(`FetcherPhase`, `WorkerPhase`), that a buffer is at one place only, once
(`Users`), and that the packet in a buffer in use waits for its verdict and is in no
other one (`Packets`). The last gives the refinement of `NfQueue`: who gives a
verdict has the packet, and it has none yet. `PacketsAccounted` needs more. A packet
is queued only if its session has a worker, so a live pointer has to lead to a
session of the table (`Sess`), and only if the fetcher's second question about the
neighbor has the answer of the first, which is so without the race (`Asked`);
then an undecided packet is the fetcher's or in a buffer in use (`AllHeld`).

*Session table.* Walks take no lock, so the invariant cannot speak of one list at
a time. `TableInv` says that there are ranks `r`, the order in which the sessions
were linked: `next` always leads to a higher rank and `prev` to a lower one, also
from a session that was taken out or freed, which is why no walk goes round in
circles, even after a session was cleared twice (`Ranked`). Until then heads and
links of a bucket fit each other and skip no session of it (`Lists`), a session
out of the lists is with one thread (`Held`), and a key has one session
(`Unique`). That getsession misses none while others link and unlink is `Ahead`:
there is a set `A` of sessions, those in the table since the walk began or linked
meanwhile, that the walk does not leave, and the session of its key, if in the
table, is not behind it. `r` and `A` are no variables: that there are such is the
invariant, and a step that links or takes out gives the new ones. The counters
come on top (`Lengths`, `Counts`): `qlen` and `sessions` are the sizes of sets
that a step changes by one element, which fit the width of the counter. That a
bucket's list, followed from its head, is all of its sessions is then proved from
the ranks, by induction over the position in the list.

`SessionTableProofs` and `WccpProofs` name the few facts about sizes of sets and
least numbers that they use (`Library`), assume them in the lemmas, and prove them
from the library of TLAPS before the theorems (`LibraryHolds`), which assume nothing
but what the modules say of their constants.

*Dead sessions.* Without a race, the unanswered keepalives are `deadcounter`, or
one more than what `deadcounter++` has loaded; a side whose sequence number has
moved since the last pass means that the counter is 0, and a session found dead
has three of them until it is removed.

*Heartbeat.* While the daemon is taken to be up, the age of the last heartbeat
plus the time to the next run of the timer is below two periods. For a steady
daemon the age is at most what its health agent has slept.

*Counters and late packets.* While fewer packets came since the last update than
a counter holds, the counter is that much further than it was, modulo its width
(`RatesInv`); that `calculate_ppsbps` gets the number back is arithmetic
(`CalculateRight`). A late packet finds the service stopped, which no step undoes,
and leaves the fetcher at a place from where it looks at the state before it
receives again (`LateInv`). For the types, the packet the fetcher is about to
queue has arrived and is not counted in the queue yet (`TypeInv`).

*Neighbors.* An open socket with something to read, or at its end, is in what
`epoll` will report or in the events in hand. What makes this inductive
(`EdgeInv`) is that the events are empty when the thread waits, so that the next
report cannot overwrite one; for the listener it holds unless `deaf`. `NbInv` has the types, which say that a neighbor's
socket is a descriptor. `Rest` has what the others need: the list has every
neighbor once (`ListInv`), an open socket of a neighbor leads to it until
descriptors are reused (`Home`), and what waits in a socket was sent by its peer
(`OwnMessages`), which gives the ID. For the age of an answer (`Recent`)
it matters how far `hello_neighbors` has come: a neighbor it has come by in this
round was heard of within the dead time when the round began, one ahead of it
may be a hello interval and the connects of two rounds older, and it is looked
at before the thread waits again.

*WCCP.* `Steady` has the types, that a client between the steps of
`insert_list_item` has an item and a list, what the thread has at each of its
places, and whose the open sockets are; it needs nothing of the lists, since a
walk along `next` ends within the number of items whatever the links are. It
gives `OwnSocket`. That a message is put down to its router needs that what is
on its way, or still in the buffer, bears the ID of the router it names (`Heard`);
a step then changes an ID to the router's own only (`Hears`), and what a group has
learned together with the ID of a server in its list (`Learning`), which stays there
(`StepHeard`). The lists are
intact as long as `raced` is false (`Linear`): items are taken from memory in
ascending order and one client at a time adds to a list, so a list is the chain of
its items in that order (`Chain`), the item a client is about to link is higher than
all of them and in no list (`Joiners`), the tail it has read is still the
tail, and the count lacks at most the item that its client has yet to count
(`Counted`). While no client adds to the list, the number the WCCP thread has read
stays that of the routers (`NumberHolds`), which gives `WellFormed`.

*Command line.* A thread that reads `client_sock` must find its own client there,
and one that ends must close its own connection: a descriptor belongs to one
client, which has a thread that is about to read it or waits on it, and a client
that is not accepted yet has neither (`Own`). This holds as long as `client_sock`
was not overwritten; that a thread on a connection has a descriptor at all
(`HaveSockets`) always does. The thread of a failed `accept` has read -1 or is about
to. A word is added to a node in the step that looked for it, so
none is twice in a node; the registrars are at a word of one of their commands
(`RegistersTyped`), whatever the commands are. For `RightHandler`, all that is in
the tree has to come from the tables (`FromTable`), and the commands a registrar
is through with have to be there (`Registered`); the CLI's own commands come after
main's first ones (`CliStarted`). The search for a command's own line goes down its
path (`WalkDown`) to the first word that is missing or has nothing under it
(`FirstStop`), and executes there the command's function or nothing (`Outcome`).
That it does not go on beside the path, where another command would be found, is
what `TableAssumption` is for: when a word has been added but none after it, the
search looks for the next word in the node of that word itself. In the tables of
the code no command goes on where another one ends, and the commands main adds
while clients may be served begin with a word that others go on from ("show"), or
go on with a word that is not also in that word's place ("compression enable").

The assumptions are those named in the modules that declare the constants
(`...Assumption`), which TLC evaluates in every run.

What a walk along a list computes is a recursive function, and what it is for
every length of the list is proved by a least counterexample: the natural numbers
are well-founded (`Least`), so a first position where the claim fails would have a
predecessor where it holds.

Only model-checked: `OptionPath`, since the operators of `TcpOptions` are
recursive, which the prover's back end does not take; how far the joins get in
`Lifecycle`; and all liveness, which is beyond the prover (fairness and ENABLED).

## What the runs found

`data_path_race` is the one run that ends in a violation; the finding quotes the
line it contradicts. The other places where the code falls short of what one
would expect of it are exceptions in properties that otherwise hold:

- `~ raced` in `Accounted`: the packet that `data_path_race` shows to be forgotten.
- `starved` in `Accounted` and `EveryPacketDecided`: without a buffer the fetcher
  returns and gives no verdict. `open` in the latter: the packets that are pending
  when the queue is closed get none from the daemon.
- `~ raced` in `RemovedWhenSilent`: `deadcounter++` overwrites a reset, or a packet
  comes after the counter was tested; a session that has just answered is removed.
  The comment at `sessioncleanup.c:115` says that keepalives go to both ends and that
  the session is removed when they fail to respond twice; the code asks one end in a
  pass and removes the session after three keepalives without an answer.
- `quiet` in the pool's: the manager resets the pool's count after a packet came.
- `Sound` in the session table's: no session cleared twice, no freed one used.
- `joined >= 3` in `StoppedJoins`: the loops of the IPC, WCCP and CLI threads have
  no end, so `main` joins no thread after the health agent.
- `reused` in the neighbors': a closed socket stays in the neighbor.
- `stale` in `IdIsItsOwn`: when `recv` brings nothing, `epoll_handler` calls the
  handler all the same, with the message read before, which gives the neighbor
  another's ID and brings it UP.
- `deaf` in `NoEdgeLost`: when `accept` fails, the connections that wait are taken up
  only when another one comes.
- `Padding` in the options' (`Takes`): with 12 bytes of NOPs or zeroes or more, no word
  need be added for the header, `add_tcpopt_addoff` returns -1 for that, and no header
  is put in; the next accelerator compresses, or lowers the MSS, once more.
- `Room` and `known` in the options': with time stamps and two SACK blocks the
  flag does not fit and compressed data go out unflagged.
- The 12 bytes of room in `DataIntact`: with three SACK blocks the header does
  not fit, `set_nod_header` ignores that, and writes it over the data.
- `raced`, `torn` and `closed` in WCCP's: list items are lost when two clients add
  at once, a message counts a router it does not list, and a server whose socket
  failed never gets another. `wccpv2.c:611` puts `htons` of the group in 8 bits: on a
  little-endian host every group says 0, so only group 0 learns from its routers,
  although the help at line 292 offers groups 0 to 254. The model has this in
  `wire_id` and `group_id`. The comment at `wccpv2.c:240` says that a router's assignment element has the last
  change number of that router; line 768 puts in the group's, which is that of
  the router heard of last. The model keeps one number for a group, as the code.
- `overwritten` and `left` in the CLI's: two threads on one client and none on
  the other, or none on the only one when `accept` failed next, and a descriptor that is never closed when a client goes away.

## Not modelled

- QuickLZ: a transformation of data, of which only that it can be undone matters
  here.
- Logging, help, version, the `show` commands and the utilities: output that no
  other part reads.
- The set-up of sockets, Netfilter, generic netlink and the daemon process, which
  ends the program on failure, before any other thread depends on it.
- The layout of messages and packets but for the options, the header and the
  checksums: of the others the models have the fields that code branches on.
- The release of the session table at exit and the joining of the workers,
  which `main` never gets to (`StoppedJoins`).
- `tcp_compress`'s memory for QuickLZ's state, which belongs to one thread.
