------------------------- MODULE SessionTableProofs -------------------------
(***************************************************************************)
(* The session table's lists, its one session for each key and the         *)
(* workers' counts, for any number of sessions, buckets and workers.       *)
(*                                                                         *)
(* The invariant has ranks r, the order in which the sessions were linked, *)
(* and a set A, the sessions that were in the table when the fetcher's     *)
(* walk began or are in it now: neither is a variable, that there are some *)
(* is what the invariant says.                                             *)
(***************************************************************************)
EXTENDS SessionTable, TLAPS

Holding == {"count", "free"}        \* has taken the session out of its list
Bringing == {"increment", "link"}   \* has made the session

\* What a pointer may lead to, and what is in a list.
Known == {s \in Sess : sess[s].mem \in {"linked", "out", "freed"}}
Linked == {s \in Sess : sess[s].mem = "linked"}
Place(s) == Hash[sess[s].key]

SessionType ==
  [mem : {"unused", "new", "linked", "out", "freed"}, key : Key \cup {Nil},
   queue : Worker \cup {Nil}, next : Sess \cup {Nil}, prev : Sess \cup {Nil}]
ThreadType ==
  [pc : Pc, key : Key \cup {Nil}, cur : Sess \cup {Nil}, at : Sess \cup {Nil}]

PcOf(t) ==
  IF t = Fetcher THEN {"idle", "walk", "found", "scan", "increment", "link", "undefined"}
  ELSE IF t = Cleanup
  THEN {"idle", "visit", "advance", "previous", "unlink", "count", "free", "undefined"}
  ELSE {"idle", "walk", "found", "unlink", "count", "free", "undefined"}

\* Types, and that pointers lead to sessions which are or were in the table.
TableTyped ==
  /\ hnext \in [Bucket -> Sess \cup {Nil}] /\ hprev \in [Bucket -> Sess \cup {Nil}]
  /\ qlen \in [Bucket -> 0 .. Modulus - 1]
  /\ sess \in [Sess -> SessionType]
  /\ \A b \in Bucket : hnext[b] \in Known \cup {Nil} /\ hprev[b] \in Known \cup {Nil}
  /\ \A s \in Sess :
       /\ sess[s].next \in Known \cup {Nil} /\ sess[s].prev \in Known \cup {Nil}
       /\ sess[s].mem \in {"unused", "new", "freed"} => sess[s].next = Nil /\ sess[s].prev = Nil
       /\ sess[s].mem \in {"new", "linked", "out"} =>
            sess[s].key \in Key /\ sess[s].queue \in Worker

\* What thread t may be at, in words of x, its part of th.
ThreadFits(t, x) ==
  /\ x.pc \in PcOf(t)
  /\ x.at \in Known \cup {Nil}
  /\ x.pc \notin Bringing => x.cur \in Known \cup {Nil}
  /\ x.pc \in {"walk", "scan"} \cup Bringing \/ (t = Fetcher /\ x.pc = "found") => x.key \in Key
  /\ x.pc \in Bringing => /\ x.cur \in Sess /\ sess[x.cur].mem = "new"
                         /\ sess[x.cur].key = x.key

ThreadsTyped ==
  /\ th \in [Thread -> ThreadType]
  /\ \A t \in Thread : ThreadFits(t, th[t])

RestTyped ==
  /\ sessions \in [Worker -> 0 .. Modulus - 1]
  /\ scan \in [i : 0 .. Workers, queuenum : Worker]
  /\ sent \subseteq Worker \X Key
  /\ doubled \in BOOLEAN

Typed == TableTyped /\ ThreadsTyped /\ RestTyped

\* next leads to what was linked later, prev to what was linked before.
Ranked(r) ==
  /\ r \in [Sess -> Nat] /\ \E m \in Nat : \A s \in Sess : r[s] <= m
  /\ \A s, x \in Known : r[s] = r[x] => s = x
  /\ \A s \in Sess : /\ sess[s].next # Nil => r[s] < r[sess[s].next]
                     /\ sess[s].prev # Nil => r[sess[s].prev] < r[s]

\* Nothing of the list x is in lies between x and the session x.next.
NoGap(r, x) ==
  \A s \in Linked : Place(s) = Place(x) /\ r[x] < r[s] =>
    sess[x].next # Nil /\ r[sess[x].next] <= r[s]

\* The list of a bucket, seen from its head and from each of its sessions.
HeadsFit ==
  \A b \in Bucket :
    /\ hnext[b] # Nil => hnext[b] \in Linked /\ Place(hnext[b]) = b /\ sess[hnext[b]].prev = Nil
    /\ hprev[b] # Nil => hprev[b] \in Linked /\ Place(hprev[b]) = b /\ sess[hprev[b]].next = Nil

LinksFit(r) ==
  \A s \in Linked :
    /\ sess[s].prev = Nil => hnext[Place(s)] = s
    /\ sess[s].next = Nil => hprev[Place(s)] = s
    /\ sess[s].next # Nil => sess[s].next \in Linked /\ sess[sess[s].next].prev = s
    /\ sess[s].prev # Nil => sess[s].prev \in Linked /\ sess[sess[s].prev].next = s
    /\ hnext[Place(s)] # Nil /\ r[hnext[Place(s)]] <= r[s]
    /\ NoGap(r, s)

\* A pointer does not lead to another bucket's list.
SamePlace ==
  \A s \in Sess : /\ sess[s].next \in Sess /\ sess[sess[s].next].mem # "freed" =>
                       Place(sess[s].next) = Place(s)
                  /\ sess[s].prev \in Sess /\ sess[sess[s].prev].mem # "freed" =>
                       Place(sess[s].prev) = Place(s)

Lists(r) == HeadsFit /\ LinksFit(r) /\ SamePlace

\* insert_link takes a list for empty when its length is 0.
Empties == \A b \in Bucket : qlen[b] = 0 => InList(b) = {}

\* One thread has each session that is not in a list, and knows it.
Held ==
  /\ \A t \in Thread : th[t].pc \in Holding => th[t].cur \in Sess /\ sess[th[t].cur].mem = "out"
  /\ \A t, u \in Thread :
       th[t].pc \in Holding /\ th[u].pc \in Holding /\ th[t].cur = th[u].cur => t = u
  /\ \A s \in Sess : /\ sess[s].mem = "out" =>
                          \E t \in Thread : th[t].pc \in Holding /\ th[t].cur = s
                     /\ sess[s].mem = "new" =>
                          th[Fetcher].pc \in Bringing /\ th[Fetcher].cur = s

\* A key has one session, and the fetcher makes one for a key without.
Unique ==
  /\ \A s, x \in Linked : sess[s].key = sess[x].key => s = x
  /\ th[Fetcher].pc \in {"scan", "increment", "link"} =>
       \A s \in Linked : sess[s].key # th[Fetcher].key

\* The fetcher's walk has the session of its key ahead of it, if there is one:
\* it is at a session of A, and from there next leads through A without a gap.
Ahead(r, A) ==
  LET x == th[Fetcher] IN
  x.pc = "walk" =>
    /\ Linked \subseteq A /\ A \subseteq Known
    /\ x.cur \in A \cup {Nil}
    /\ x.cur \in Sess /\ sess[x.cur].mem # "freed" => Place(x.cur) = Hash[x.key]
    /\ \A s \in A : sess[s].mem # "freed" => sess[s].next \in A \cup {Nil} /\ NoGap(r, s)
    /\ \A s \in Linked : sess[s].key = x.key => x.cur # Nil /\ r[x.cur] <= r[s]

Whole(r, A) == Lists(r) /\ Held /\ Unique /\ Ahead(r, A)

\* The invariant of the table, whatever its counters hold.
TableInv ==
  /\ Typed
  /\ \E r \in [Sess -> Nat], A \in SUBSET Sess : Ranked(r) /\ (Sound => Whole(r, A))

-----------------------------------------------------------------------------
(* The threads are different ones, and Nil is no session. *)
LEMMA ThreadFacts ==
  /\ Fetcher \in Thread /\ Cleanup \in Thread /\ Processor \subseteq Thread
  /\ Fetcher # Cleanup /\ Fetcher \notin Processor /\ Cleanup \notin Processor
  /\ Nil \notin Sess /\ 0 \in Worker
BY SessionTableAssumption DEF Thread, Processor, Fetcher, Cleanup, Worker

(* The counters stay in their range, and wrap at its ends only. *)
LEMMA ModulusFacts ==
  /\ Modulus \in Nat \ {0}
  /\ \A n \in 0 .. Modulus - 1 : /\ (n + 1) % Modulus \in 0 .. Modulus - 1
                                 /\ (n + Modulus - 1) % Modulus \in 0 .. Modulus - 1
                                 /\ n + 1 < Modulus => (n + 1) % Modulus = n + 1
                                 /\ 0 < n => (n + Modulus - 1) % Modulus = n - 1
<1>1. Modulus \in Nat \ {0}
  BY SessionTableAssumption, Zenon
<1>2. ASSUME NEW n \in 0 .. Modulus - 1
      PROVE  /\ (n + 1) % Modulus \in 0 .. Modulus - 1
             /\ (n + Modulus - 1) % Modulus \in 0 .. Modulus - 1
  BY <1>1
<1>3. ASSUME NEW n \in 0 .. Modulus - 1, n + 1 < Modulus PROVE (n + 1) % Modulus = n + 1
  BY <1>1, <1>3
<1>4. ASSUME NEW n \in 0 .. Modulus - 1, 0 < n PROVE (n + Modulus - 1) % Modulus = n - 1
  <2>1. (n - 1 + Modulus) % Modulus = (n - 1) % Modulus
    BY <1>1, <1>4
  <2>2. (n - 1) % Modulus = n - 1
    BY <1>1, <1>4
  <2> QED
    BY <1>1, <1>4, <2>1, <2>2
<1> QED
  BY <1>1, <1>2, <1>3, <1>4, Zenon

(* that thread fits.                                                       *)
LEMMA OneThread ==
  ASSUME ThreadsTyped, UNCHANGED sess, NEW t \in Thread, NEW x \in ThreadType,
         ThreadFits(t, x), th' = [th EXCEPT ![t] = x]
  PROVE  ThreadsTyped'
BY Zenon DEF ThreadsTyped, ThreadFits, Known

(* getsession starts at the head of a bucket. *)
LEMMA StartWalkTyped ==
  ASSUME Typed, UNCHANGED sess, NEW t \in Thread, t # Cleanup, NEW k \in Key, StartWalk(t, k)
  PROVE  ThreadsTyped'
<1> DEFINE x == [pc |-> "walk", key |-> k, cur |-> hnext[Hash[k]], at |-> Nil]
<1>1. Hash[k] \in Bucket
  BY SessionTableAssumption, Zenon
<1>2. x \in ThreadType
  BY <1>1, Zenon DEF Typed, TableTyped, ThreadType, Pc
<1>3. ThreadFits(t, x)
  BY <1>1, Zenon DEF Typed, TableTyped, ThreadFits, PcOf, Bringing
<1> QED
  BY <1>2, <1>3, OneThread, Zenon DEF StartWalk, Typed

(* A thread that returns is idle, one that goes on has a place to go. *)
LEMMA ReturnTyped ==
  ASSUME Typed, UNCHANGED sess, NEW t \in Thread, Return(t)
  PROVE  ThreadsTyped'
<1>1. Idle \in ThreadType /\ ThreadFits(t, Idle)
  BY Zenon DEF Idle, ThreadType, Pc, ThreadFits, PcOf, Bringing
<1> QED
  BY <1>1, OneThread, Zenon DEF Return, Typed

(* A thread that goes on with a session it has keeps the types. *)
LEMMA GotoTyped ==
  ASSUME Typed, UNCHANGED sess, NEW t \in Thread, NEW pc \in PcOf(t) \ Bringing, Goto(t, pc),
         th[t].cur \in Known \cup {Nil},
         pc \in {"walk", "scan"} \/ (t = Fetcher /\ pc = "found") => th[t].key \in Key
  PROVE  ThreadsTyped'
<1> DEFINE x == [th[t] EXCEPT !.pc = pc]
<1>1. th[t] \in ThreadType /\ ThreadFits(t, th[t])
  BY Zenon DEF Typed, ThreadsTyped
<1>2. x \in ThreadType
  BY <1>1, Zenon DEF ThreadType, PcOf, Pc
<1>3. ThreadFits(t, x)
  BY <1>1, <1>2, Zenon DEF ThreadType, ThreadFits
<1> QED
  BY <1>2, <1>3, OneThread, Zenon DEF Typed, Goto

(* getsession. *)
LEMMA WalkTyped ==
  ASSUME Typed, NEW t \in Thread,
         walk_next(t) \/ walk_found(t) \/ walk_none(t)
  PROVE  ThreadsTyped'
<1>0. th[t] \in ThreadType /\ ThreadFits(t, th[t]) /\ UNCHANGED sess
  BY Zenon DEF Typed, ThreadsTyped, walk_next, walk_found, walk_none
<1>1. CASE walk_next(t)
  <2> DEFINE x == [th[t] EXCEPT !.cur = sess[th[t].cur].next]
  <2>1. th[t].cur \in Sess
    BY <1>0, <1>1, Zenon DEF walk_next, ThreadType
  <2>2. x \in ThreadType
    BY <1>0, <2>1, Zenon DEF ThreadType, Typed, TableTyped, SessionType
  <2>3. ThreadFits(t, x)
    BY <1>0, <1>1, <2>1, Zenon DEF ThreadType, ThreadFits, Typed, TableTyped, walk_next, Bringing
  <2> QED
    BY <1>0, <1>1, <2>2, <2>3, OneThread, Zenon DEF walk_next, Typed
<1>2. CASE walk_found(t)
  BY <1>0, <1>2, GotoTyped, Zenon DEF walk_found, ThreadFits, PcOf, Bringing
<1>3. CASE walk_none(t)
  BY <1>0, <1>3, ReturnTyped, GotoTyped, Zenon DEF walk_none, ThreadFits, PcOf, Bringing
<1> QED
  BY <1>1, <1>2, <1>3, Zenon

(* fetcher_callback, worker_thread and what they do with a session. *)
LEMMA UseTyped ==
  ASSUME Typed, NEW t \in Thread,
         fetcher_use \/ (t \in Processor /\ worker_use(t))
  PROVE  ThreadsTyped'
<1>1. CASE fetcher_use
  BY <1>1, ReturnTyped, ThreadFacts, Zenon DEF fetcher_use
<1>2. CASE t \in Processor /\ worker_use(t)
  <2> DEFINE x == [pc |-> "unlink", key |-> Nil, cur |-> th[t].cur, at |-> Nil]
  <2>0. th[t] \in ThreadType /\ ThreadFits(t, th[t]) /\ UNCHANGED sess
    BY <1>2, Zenon DEF Typed, ThreadsTyped, worker_use
  <2>1. x \in ThreadType
    BY <2>0, Zenon DEF ThreadType, Pc
  <2>2. ThreadFits(t, x)
    BY <1>2, <2>0, ThreadFacts, Zenon DEF worker_use, ThreadFits, Bringing, PcOf
  <2> QED
    BY <1>2, <2>0, <2>1, <2>2, ReturnTyped, OneThread, Zenon DEF worker_use, Typed
<1> QED
  BY <1>1, <1>2, Zenon

(* cleanuplist. *)
LEMMA CleanupTyped ==
  ASSUME Typed,
         \/ \E b \in Bucket : cleanuplist(b)
         \/ cleanup_end \/ cleanup_visit \/ cleanup_advance \/ cleanup_previous
  PROVE  ThreadsTyped'
<1> DEFINE t == Cleanup
<1>0. /\ t \in Thread /\ th[t] \in ThreadType /\ ThreadFits(t, th[t])
      /\ PcOf(t) = {"idle", "visit", "advance", "previous", "unlink", "count", "free", "undefined"}
      /\ t # Fetcher /\ Nil \notin Sess
  BY ThreadFacts, Zenon DEF Typed, ThreadsTyped, PcOf
<1>1. ASSUME NEW b \in Bucket, cleanuplist(b) PROVE ThreadsTyped'
  <2> DEFINE x == [th[t] EXCEPT !.pc = "visit", !.cur = hnext[b]]
  <2>1. x \in ThreadType /\ ThreadFits(t, x)
    BY <1>0, Zenon DEF ThreadType, Pc, Typed, TableTyped, ThreadFits, Bringing
  <2> QED
    BY <1>0, <1>1, <2>1, OneThread, Zenon DEF cleanuplist, Typed
<1>2. CASE cleanup_end
  BY <1>0, <1>2, ReturnTyped, Zenon DEF cleanup_end
<1>3. CASE cleanup_visit
  <2> DEFINE x == [th[t] EXCEPT !.cur = sess[th[t].cur].next]
  <2>1. th[t].cur \in Sess /\ UNCHANGED sess
    BY <1>0, <1>3, Zenon DEF cleanup_visit, ThreadType
  <2>2. x \in ThreadType /\ ThreadFits(t, x)
    BY <1>0, <1>3, <2>1, Zenon
    DEF ThreadType, Typed, TableTyped, SessionType, ThreadFits, cleanup_visit, Bringing
  <2>3. CASE Goto(t, IF sess[th[t].cur].next # Nil THEN "advance" ELSE "unlink")
    BY <1>0, <1>3, <2>1, <2>3, GotoTyped, Zenon DEF cleanup_visit, ThreadFits, Bringing
  <2>4. CASE th' = [th EXCEPT ![t].cur = sess[th[t].cur].next]
    BY <1>0, <2>1, <2>2, <2>4, OneThread, Zenon DEF Typed
  <2> QED
    BY <1>3, <2>3, <2>4, Zenon DEF cleanup_visit
<1>4. CASE cleanup_advance
  <2> DEFINE x == [th[t] EXCEPT !.pc = "previous", !.at = sess[th[t].cur].next]
  <2>1. th[t].cur \in Sess /\ UNCHANGED sess
    BY <1>0, <1>4, Zenon DEF cleanup_advance, ThreadType, Safe, Touches, Wild
  <2>2. x \in ThreadType /\ ThreadFits(t, x)
    BY <1>0, <1>4, <2>1, Zenon
    DEF ThreadType, Pc, Typed, TableTyped, SessionType, ThreadFits, cleanup_advance, Bringing
  <2> QED
    BY <1>0, <1>4, <2>1, <2>2, OneThread, Zenon DEF cleanup_advance, Typed
<1>5. CASE cleanup_previous
  <2> DEFINE at == th[t].at
             x == IF sess[at].prev = Nil THEN [th[t] EXCEPT !.pc = "visit", !.cur = at, !.at = Nil]
                  ELSE [th[t] EXCEPT !.pc = "unlink", !.cur = sess[at].prev]
  <2>1. at \in Sess /\ UNCHANGED sess
    BY <1>0, <1>5, Zenon DEF cleanup_previous, ThreadType, Safe, Touches, Wild
  <2>2. sess[at].prev \in Known \cup {Nil} /\ at \in Known /\ Known \subseteq Sess
    BY <1>0, <2>1, Zenon DEF Typed, TableTyped, ThreadFits, Known
  <2>3. x \in ThreadType /\ ThreadFits(t, x)
    BY <1>0, <1>5, <2>2, Zenon DEF ThreadType, Pc, ThreadFits, Bringing
  <2> QED
    BY <1>0, <1>5, <2>1, <2>3, OneThread, Zenon DEF cleanup_previous, Typed
<1> QED
  BY <1>1, <1>2, <1>3, <1>4, <1>5, Zenon

(* insertsession: the new session is nobody else's. *)
LEMMA CallocTyped ==
  ASSUME Typed, insert_calloc
  PROVE  TableTyped' /\ ThreadsTyped' /\ Known' = Known
<1>0. /\ Fetcher \in Thread /\ th[Fetcher] \in ThreadType /\ ThreadFits(Fetcher, th[Fetcher])
      /\ th[Fetcher].pc = "scan" /\ th[Fetcher].key \in Key /\ scan.queuenum \in Worker
      /\ \A u \in Thread : u # Fetcher => th[u].pc \notin Bringing
  BY ThreadFacts, Zenon DEF Typed, ThreadsTyped, RestTyped, ThreadFits, insert_calloc, PcOf, Bringing
<1>1. PICK s \in Sess :
        /\ sess[s].mem = "unused"
        /\ sess' = [sess EXCEPT ![s] =
             [mem |-> "new", key |-> th[Fetcher].key, queue |-> scan.queuenum,
              next |-> Nil, prev |-> Nil]]
        /\ th' = [th EXCEPT ![Fetcher].pc = "increment", ![Fetcher].cur = s]
  BY Zenon DEF insert_calloc
<1>2. Known' = Known
  BY <1>1, Zenon DEF Typed, TableTyped, Known
<1>3. sess' \in [Sess -> SessionType]
  BY <1>0, <1>1, Zenon DEF Typed, TableTyped, SessionType
<1>4. UNCHANGED heads
  BY Zenon DEF insert_calloc
<1>5. TableTyped'
  BY <1>0, <1>1, <1>2, <1>3, <1>4, Zenon DEF Typed, TableTyped, heads
<1>6. th' \in [Thread -> ThreadType]
  BY <1>0, <1>1, Zenon DEF Typed, ThreadsTyped, ThreadType, Pc
<1>7. ASSUME NEW u \in Thread PROVE ThreadFits(u, th[u])'
  <2>1. CASE u = Fetcher
    BY <1>0, <1>1, <1>2, <2>1 DEF ThreadFits, ThreadType, PcOf, Typed, ThreadsTyped, TableTyped, Bringing
  <2>2. CASE u # Fetcher
    BY <1>0, <1>1, <1>2, <2>2, Zenon DEF ThreadFits, Typed, ThreadsTyped
  <2> QED
    BY <2>1, <2>2, Zenon
<1> QED
  BY <1>2, <1>5, <1>6, <1>7, Zenon DEF ThreadsTyped

\* insert_link links s behind l, as the first of its bucket if l is Nil.
LastOf(b) == IF qlen[b] = 0 THEN Nil ELSE hprev[b]
Links(s, l) ==
  /\ sess' \in [Sess -> SessionType]
  /\ \A x \in Sess :
       /\ sess'[x].mem = IF x = s THEN "linked" ELSE sess[x].mem
       /\ sess'[x].key = sess[x].key /\ sess'[x].queue = sess[x].queue
       /\ sess'[x].next = IF x = l THEN s ELSE sess[x].next
       /\ sess'[x].prev = IF x = s THEN l ELSE sess[x].prev

(* What insert_link finds and does. *)
LEMMA LinkEffect ==
  ASSUME Typed, insert_link
  PROVE  LET s == th[Fetcher].cur
             b == Hash[th[Fetcher].key]
             l == LastOf(b)
         IN  /\ s \in Sess /\ sess[s].mem = "new" /\ sess[s].key = th[Fetcher].key /\ b \in Bucket
             /\ l # Nil => l \in Sess /\ sess[l].mem \in {"linked", "out"}
             /\ Links(s, l)
             /\ hnext' = IF l = Nil THEN [hnext EXCEPT ![b] = s] ELSE hnext
             /\ hprev' = [hprev EXCEPT ![b] = s]
             /\ l = Nil <=> qlen[b] = 0
<1> DEFINE s == th[Fetcher].cur
           b == Hash[th[Fetcher].key]
           l == LastOf(b)
<1>0. /\ s \in Sess /\ sess[s].mem = "new" /\ sess[s].key = th[Fetcher].key /\ b \in Bucket
      /\ sess[s].prev = Nil /\ sess \in [Sess -> SessionType] /\ Nil \notin Sess
  BY ThreadFacts, SessionTableAssumption, Zenon
     DEF Typed, ThreadsTyped, ThreadFits, TableTyped, insert_link, Bringing
<1>1. CASE qlen[b] = 0
  <2>1. sess' = [sess EXCEPT ![s].mem = "linked"] /\ l = Nil
    BY <1>1, Zenon DEF insert_link, LastOf
  <2>2. Links(s, l)
    BY <1>0, <2>1 DEF SessionType, Links
  <2> QED
    BY <1>0, <1>1, <2>1, <2>2, Zenon DEF insert_link
<1>2. CASE qlen[b] # 0
  <2>0. l \in Sess /\ sess[l].mem \in {"linked", "out"} /\ l = hprev[b] /\ l # Nil
    BY <1>0, <1>2 DEF insert_link, Safe, Touches, Wild, Typed, TableTyped, Known, SessionType, LastOf
  <2>1. sess' = LinkAfter(l, s)
    BY <1>2, <2>0, Zenon DEF insert_link
  <2>2. /\ l # s /\ sess' = [x \in Sess |->
             IF x = l THEN [sess[l] EXCEPT !.next = s]
             ELSE IF x = s THEN [sess[s] EXCEPT !.prev = l, !.mem = "linked"] ELSE sess[x]]
    BY <1>0, <2>0, <2>1, Zenon DEF LinkAfter, SessionType
  <2>3. Links(s, l)
    <3> HIDE DEF s, l
    <3>1. ASSUME NEW x \in Sess
          PROVE  /\ sess'[x] \in SessionType
                 /\ sess'[x].mem = IF x = s THEN "linked" ELSE sess[x].mem
                 /\ sess'[x].key = sess[x].key /\ sess'[x].queue = sess[x].queue
                 /\ sess'[x].next = IF x = l THEN s ELSE sess[x].next
                 /\ sess'[x].prev = IF x = s THEN l ELSE sess[x].prev
      <4>0. sess[x] \in SessionType
        BY <1>0, Zenon
      <4>1. CASE x = l
        BY <2>0, <2>2, <4>0, <4>1, <1>0, Zenon DEF SessionType
      <4>2. CASE x = s
        BY <2>0, <2>2, <4>0, <4>2, Zenon DEF SessionType
      <4>3. CASE x # l /\ x # s
        BY <2>2, <4>0, <4>3, Zenon
      <4> QED
        BY <4>1, <4>2, <4>3, Zenon
    <3>2. sess' \in [Sess -> SessionType]
      BY <2>2, <3>1, Zenon
    <3> QED
      BY <3>1, <3>2, Zenon DEF Links
  <2> QED
    BY <1>0, <1>2, <2>0, <2>3, Zenon DEF insert_link
<1> QED
  BY <1>1, <1>2, Zenon

(* insertsession links the session it made, which is known from then on. *)
LEMMA LinkTyped ==
  ASSUME Typed, insert_link
  PROVE  TableTyped' /\ ThreadsTyped' /\ Known' = Known \cup {th[Fetcher].cur}
<1> DEFINE s == th[Fetcher].cur
           b == Hash[th[Fetcher].key]
           l == LastOf(b)
<1>0. /\ s \in Sess /\ sess[s].mem = "new" /\ b \in Bucket
      /\ l # Nil => l \in Sess /\ sess[l].mem \in {"linked", "out"}
      /\ Links(s, l)
      /\ hnext' = IF l = Nil THEN [hnext EXCEPT ![b] = s] ELSE hnext
      /\ hprev' = [hprev EXCEPT ![b] = s]
  BY LinkEffect, Zenon
<1>1. /\ Fetcher \in Thread /\ th[Fetcher] \in ThreadType /\ ThreadFits(Fetcher, th[Fetcher])
      /\ th[Fetcher].pc = "link" /\ th[Fetcher].key \in Key /\ Nil \notin Sess
      /\ \A u \in Thread : u # Fetcher => th[u].pc \notin Bringing
  BY ThreadFacts, Zenon DEF Typed, ThreadsTyped, ThreadFits, insert_link, PcOf, Bringing
<1>2. Known' = Known \cup {s}
  BY <1>0 DEF Known, Links
<1>3. qlen' \in [Bucket -> 0 .. Modulus - 1]
  BY <1>0, ModulusFacts, Zenon DEF Typed, TableTyped, insert_link
<1>4. hnext' \in [Bucket -> Sess \cup {Nil}] /\ hprev' \in [Bucket -> Sess \cup {Nil}]
  BY <1>0, Zenon DEF Typed, TableTyped
<1>5. \A c \in Bucket : hnext'[c] \in Known' \cup {Nil} /\ hprev'[c] \in Known' \cup {Nil}
  BY <1>0, <1>2, Zenon DEF Typed, TableTyped
<1>6. ASSUME NEW x \in Sess
      PROVE  /\ sess'[x].next \in Known' \cup {Nil} /\ sess'[x].prev \in Known' \cup {Nil}
             /\ sess'[x].mem \in {"unused", "new", "freed"} => sess'[x].next = Nil /\ sess'[x].prev = Nil
             /\ sess'[x].mem \in {"new", "linked", "out"} =>
                  sess'[x].key \in Key /\ sess'[x].queue \in Worker
  <2>1. /\ sess[x].next \in Known \cup {Nil} /\ sess[x].prev \in Known \cup {Nil}
        /\ sess[x].mem \in {"unused", "new", "freed"} => sess[x].next = Nil /\ sess[x].prev = Nil
        /\ sess[x].mem \in {"new", "linked", "out"} => sess[x].key \in Key /\ sess[x].queue \in Worker
    BY Zenon DEF Typed, TableTyped
  <2>2. l \in Known \cup {Nil}
    BY <1>0, Zenon DEF Known
  <2> HIDE DEF s, l
  <2>3. /\ sess'[x].mem = IF x = s THEN "linked" ELSE sess[x].mem
        /\ sess'[x].key = sess[x].key /\ sess'[x].queue = sess[x].queue
        /\ sess'[x].next = IF x = l THEN s ELSE sess[x].next
        /\ sess'[x].prev = IF x = s THEN l ELSE sess[x].prev
    BY <1>0, Zenon DEF Links
  <2>4. CASE x = s
    BY <1>0, <1>2, <2>1, <2>2, <2>3, <2>4, Zenon
  <2>5. CASE x # s /\ x # l
    BY <1>2, <2>1, <2>3, <2>5, Zenon
  <2>6. CASE x # s /\ x = l
    <3>1. l # Nil
      BY <1>1, <2>6, Zenon
    <3> QED
      BY <1>0, <1>2, <2>1, <2>3, <2>6, <3>1, Zenon
  <2> QED
    BY <2>4, <2>5, <2>6, Zenon
<1>7. TableTyped'
  BY <1>0, <1>3, <1>4, <1>5, <1>6, Zenon DEF TableTyped, Links
<1>8. th' \in [Thread -> ThreadType] /\ th' = [th EXCEPT ![Fetcher].pc = "found"]
  BY <1>1, Zenon DEF Typed, ThreadsTyped, ThreadType, Pc, insert_link, Goto
<1>9. ASSUME NEW u \in Thread PROVE ThreadFits(u, th[u])'
  <2>1. CASE u = Fetcher
    BY <1>0, <1>1, <1>2, <1>8, <2>1 DEF ThreadFits, ThreadType, PcOf, Bringing, Typed, ThreadsTyped
  <2>2. CASE u # Fetcher
    BY <1>1, <1>2, <1>8, <2>2, Zenon DEF ThreadFits, Typed, ThreadsTyped
  <2> QED
    BY <2>1, <2>2, Zenon
<1> QED
  BY <1>2, <1>7, <1>8, <1>9, Zenon DEF ThreadsTyped

\* clear_unlink takes s out from between p and n.
Unlinks(s, n, p) ==
  /\ sess' \in [Sess -> SessionType]
  /\ \A x \in Sess :
       /\ sess'[x].mem = IF x = s THEN "out" ELSE sess[x].mem
       /\ sess'[x].key = sess[x].key /\ sess'[x].queue = sess[x].queue
       /\ sess'[x].next = IF x = p /\ x # s THEN n ELSE sess[x].next
       /\ sess'[x].prev = IF x = n /\ x # s THEN p ELSE sess[x].prev

(* What clear_unlink finds and does. *)
LEMMA UnlinkEffect ==
  ASSUME Typed, NEW t \in Thread, clear_unlink(t)
  PROVE  LET s == th[t].cur
             n == sess[s].next
             p == sess[s].prev
             b == Place(s)
         IN  /\ s \in Sess /\ sess[s].mem \in {"linked", "out"} /\ b \in Bucket
             /\ n # Nil => n \in Sess /\ sess[n].mem \in {"linked", "out"}
             /\ p # Nil => p \in Sess /\ sess[p].mem \in {"linked", "out"}
             /\ Unlinks(s, n, p)
<1> DEFINE s == th[t].cur
           n == sess[s].next
           p == sess[s].prev
           b == Place(s)
<1>0. /\ th[t].pc = "unlink" /\ s \in Known \cup {Nil} /\ Nil \notin Sess /\ Known \subseteq Sess
      /\ Touches(t) = {s} \cup ({n, p} \ {Nil})
  BY ThreadFacts, Zenon
  DEF Typed, ThreadsTyped, ThreadFits, clear_unlink, Bringing, Touches, Neighbours, Known
<1>1. s # Nil /\ s \in Sess /\ sess[s].mem \in {"linked", "out"}
  BY <1>0, Zenon DEF clear_unlink, Safe, Wild, Known
<1>2. n \in Known \cup {Nil} /\ p \in Known \cup {Nil}
  BY <1>1, Zenon DEF Typed, TableTyped
<1>3. /\ n # Nil => n \in Sess /\ sess[n].mem \in {"linked", "out"}
      /\ p # Nil => p \in Sess /\ sess[p].mem \in {"linked", "out"}
  BY <1>0, <1>2, Zenon DEF clear_unlink, Safe, Wild, Known
<1>4. b \in Bucket
  BY <1>1, SessionTableAssumption, Zenon DEF Typed, TableTyped, Place
<1>5. sess' = [x \in Sess |->
       IF x = s THEN [sess[s] EXCEPT !.mem = "out"]
       ELSE [sess[x] EXCEPT !.next = IF x = p THEN n ELSE @, !.prev = IF x = n THEN p ELSE @]]
  BY Zenon DEF clear_unlink
<1>6. Unlinks(s, n, p)
  <2>1. n \in Sess \cup {Nil} /\ p \in Sess \cup {Nil} /\ sess \in [Sess -> SessionType]
    BY <1>2, Zenon DEF Known, Typed, TableTyped
  <2>2. ASSUME NEW x \in Sess
        PROVE  /\ sess'[x] \in SessionType
               /\ sess'[x].mem = IF x = s THEN "out" ELSE sess[x].mem
               /\ sess'[x].key = sess[x].key /\ sess'[x].queue = sess[x].queue
               /\ sess'[x].next = IF x = p /\ x # s THEN n ELSE sess[x].next
               /\ sess'[x].prev = IF x = n /\ x # s THEN p ELSE sess[x].prev
    <3>0. sess[x] \in SessionType
      BY <2>1, Zenon
    <3>1. CASE x = s
      BY <1>5, <3>0, <3>1, Zenon DEF SessionType
    <3>2. CASE x # s
      BY <1>5, <2>1, <3>0, <3>2, Zenon DEF SessionType
    <3> QED
      BY <3>1, <3>2, Zenon
  <2>3. sess' \in [Sess -> SessionType]
    BY <1>5, <2>2, Zenon
  <2> QED
    BY <2>2, <2>3, Zenon DEF Unlinks
<1> QED
  BY <1>1, <1>3, <1>4, <1>6, Zenon

(* clearsession takes a session out of the links; it stays known. *)
LEMMA UnlinkTyped ==
  ASSUME Typed, NEW t \in Thread, t # Fetcher, clear_unlink(t)
  PROVE  TableTyped' /\ ThreadsTyped' /\ Known' = Known
<1> DEFINE s == th[t].cur
           n == sess[s].next
           p == sess[s].prev
           b == Place(s)
<1>0. /\ s \in Sess /\ sess[s].mem \in {"linked", "out"} /\ b \in Bucket
      /\ n # Nil => n \in Sess /\ sess[n].mem \in {"linked", "out"}
      /\ p # Nil => p \in Sess /\ sess[p].mem \in {"linked", "out"}
      /\ Unlinks(s, n, p)
  BY UnlinkEffect, Zenon
<1>1. /\ th[t] \in ThreadType /\ ThreadFits(t, th[t]) /\ th[t].pc = "unlink"
      /\ Nil \notin Sess /\ th' = [th EXCEPT ![t].pc = "count"]
  BY ThreadFacts, Zenon DEF Typed, ThreadsTyped, clear_unlink, Goto
<1>2. /\ hnext' = HeadWithout(b, n, p) /\ hprev' = TailWithout(b, n, p)
      /\ qlen' = [qlen EXCEPT ![b] = (@ + Modulus - 1) % Modulus]
  BY Zenon DEF clear_unlink, Place
<1> HIDE DEF s, n, p, b
<1>3. Known' = Known
  BY <1>0 DEF Known, Unlinks
<1>4. n \in Known \cup {Nil} /\ p \in Known \cup {Nil}
  BY <1>0, Zenon DEF Known
<1>5. qlen' \in [Bucket -> 0 .. Modulus - 1]
  BY <1>0, <1>2, ModulusFacts, Zenon DEF Typed, TableTyped
<1>6. hnext' \in [Bucket -> Sess \cup {Nil}] /\ hprev' \in [Bucket -> Sess \cup {Nil}]
  BY <1>0, <1>2, Zenon DEF Typed, TableTyped, HeadWithout, TailWithout
<1>7. \A c \in Bucket : hnext'[c] \in Known' \cup {Nil} /\ hprev'[c] \in Known' \cup {Nil}
  BY <1>0, <1>2, <1>3, <1>4, Zenon DEF Typed, TableTyped, HeadWithout, TailWithout
<1>8. ASSUME NEW x \in Sess
      PROVE  /\ sess'[x].next \in Known' \cup {Nil} /\ sess'[x].prev \in Known' \cup {Nil}
             /\ sess'[x].mem \in {"unused", "new", "freed"} => sess'[x].next = Nil /\ sess'[x].prev = Nil
             /\ sess'[x].mem \in {"new", "linked", "out"} =>
                  sess'[x].key \in Key /\ sess'[x].queue \in Worker
  <2>1. /\ sess[x].next \in Known \cup {Nil} /\ sess[x].prev \in Known \cup {Nil}
        /\ sess[x].mem \in {"unused", "new", "freed"} => sess[x].next = Nil /\ sess[x].prev = Nil
        /\ sess[x].mem \in {"new", "linked", "out"} => sess[x].key \in Key /\ sess[x].queue \in Worker
    BY Zenon DEF Typed, TableTyped
  <2>2. /\ sess'[x].mem = IF x = s THEN "out" ELSE sess[x].mem
        /\ sess'[x].key = sess[x].key /\ sess'[x].queue = sess[x].queue
        /\ sess'[x].next = IF x = p /\ x # s THEN n ELSE sess[x].next
        /\ sess'[x].prev = IF x = n /\ x # s THEN p ELSE sess[x].prev
    BY <1>0, Zenon DEF Unlinks
  <2>3. sess'[x].next \in Known' \cup {Nil} /\ sess'[x].prev \in Known' \cup {Nil}
    BY <1>3, <1>4, <2>1, <2>2, Zenon
  <2>4. sess[x].mem \in {"unused", "new", "freed"} => x # s /\ x # p /\ x # n
    BY <1>0, <1>1, Zenon
  <2> QED
    BY <1>0, <2>1, <2>2, <2>3, <2>4, Zenon
<1>9. TableTyped'
  BY <1>0, <1>5, <1>6, <1>7, <1>8, Zenon DEF TableTyped, Unlinks
<1>10. th' \in [Thread -> ThreadType]
  BY <1>1, Zenon DEF Typed, ThreadsTyped, ThreadType, Pc
<1>11. ASSUME NEW u \in Thread PROVE ThreadFits(u, th[u])'
  <2>0. ThreadFits(u, th[u])
    BY Zenon DEF Typed, ThreadsTyped
  <2>1. CASE u = t
    BY <1>1, <1>3, <1>10, <2>1 DEF ThreadFits, ThreadType, PcOf, Bringing, Typed, ThreadsTyped
  <2>2. CASE u # t
    <3>1. th'[u] = th[u]
      BY <1>1, <2>2, Zenon DEF Typed, ThreadsTyped
    <3>2. th[u].pc \in Bringing => /\ th[u].cur \in Sess /\ sess'[th[u].cur].mem = "new"
                                   /\ sess'[th[u].cur].key = th[u].key
      BY <1>0, <2>0, Zenon DEF ThreadFits, Unlinks
    <3> QED
      BY <1>3, <2>0, <3>1, <3>2, Zenon DEF ThreadFits
  <2> QED
    BY <2>1, <2>2, Zenon
<1> QED
  BY <1>3, <1>9, <1>10, <1>11, Zenon DEF ThreadsTyped

(* What clear_free does: cur was Known and is freed. *)
LEMMA FreeEffect ==
  ASSUME Typed, NEW t \in Thread, clear_free(t)
  PROVE  /\ th[t].cur \in Sess /\ sess[th[t].cur].mem \in {"linked", "out"}
         /\ sess' = [sess EXCEPT ![th[t].cur] = [Unused EXCEPT !.mem = "freed"]]
         /\ sess' \in [Sess -> SessionType] /\ Known' = Known
         /\ [Unused EXCEPT !.mem = "freed"] =
              [mem |-> "freed", key |-> Nil, queue |-> Nil, next |-> Nil, prev |-> Nil]
<1>1. th[t].cur \in Known \cup {Nil} /\ Nil \notin Sess
  BY ThreadFacts, Zenon DEF Typed, ThreadsTyped, ThreadFits, clear_free, Bringing
<1>2. th[t].cur \in Sess /\ sess[th[t].cur].mem \in {"linked", "out"}
  BY <1>1, Zenon DEF clear_free, Safe, Touches, Wild, Known
<1>3. [Unused EXCEPT !.mem = "freed"] =
              [mem |-> "freed", key |-> Nil, queue |-> Nil, next |-> Nil, prev |-> Nil]
  BY DEF Unused
<1>4. sess' = [sess EXCEPT ![th[t].cur] =
              [mem |-> "freed", key |-> Nil, queue |-> Nil, next |-> Nil, prev |-> Nil]]
  BY <1>3, Zenon DEF clear_free
<1>5. sess' \in [Sess -> SessionType]
  BY <1>2, <1>4, Zenon DEF Typed, TableTyped, SessionType
<1>6. Known' = Known
  BY <1>2, <1>4, Zenon DEF Typed, TableTyped, Known
<1> QED
  BY <1>2, <1>3, <1>4, <1>5, <1>6, Zenon

(* A freed session stays known: pointers to it remain. *)
LEMMA FreeTyped ==
  ASSUME Typed, NEW t \in Thread, t # Fetcher, clear_free(t)
  PROVE  TableTyped' /\ ThreadsTyped'
<1>0. /\ th[t].cur \in Sess /\ sess[th[t].cur].mem \in {"linked", "out"}
      /\ sess' = [sess EXCEPT ![th[t].cur] =
              [mem |-> "freed", key |-> Nil, queue |-> Nil, next |-> Nil, prev |-> Nil]]
      /\ sess' \in [Sess -> SessionType] /\ Known' = Known
  BY FreeEffect, Zenon
<1>1. UNCHANGED heads
  BY Zenon DEF clear_free
<1>2. TableTyped'
  BY <1>0, <1>1, Zenon DEF Typed, TableTyped, heads
<1>3. th[t] \in ThreadType /\ ThreadFits(t, th[t]) /\ th[t].pc = "free"
  BY Zenon DEF Typed, ThreadsTyped, clear_free
<1> DEFINE y == IF t = Cleanup THEN [th[t] EXCEPT !.pc = "visit", !.cur = th[t].at, !.at = Nil]
                ELSE Idle
<1>4. th' = [th EXCEPT ![t] = y]
  BY Zenon DEF clear_free, Return
<1>10. y \in ThreadType
  BY <1>3, Zenon DEF ThreadType, Pc, Idle
<1>5. PICK x \in ThreadType : x = y /\ th' = [th EXCEPT ![t] = x]
  BY <1>4, <1>10, Zenon
<1>6. ThreadFits(t, x)'
  <2>1. CASE t = Cleanup
    <3>1. x.pc = "visit" /\ x.cur \in Known \cup {Nil} /\ x.at = Nil
      BY <1>3, <1>5, <2>1, Zenon DEF ThreadType, ThreadFits
    <3> QED
      BY <1>0, <2>1, <3>1, ThreadFacts, Zenon DEF ThreadFits, PcOf, Bringing
  <2>2. CASE t # Cleanup
    <3>1. x.pc = "idle" /\ x.cur = Nil /\ x.at = Nil
      BY <1>5, <2>2, Zenon DEF Idle
    <3> QED
      BY <2>2, <3>1, Zenon DEF ThreadFits, PcOf, Bringing
  <2> QED
    BY <2>1, <2>2, Zenon
<1>7. ASSUME NEW u \in Thread, u # t PROVE ThreadFits(u, th[u])'
  <2>1. ThreadFits(u, th[u]) /\ th'[u] = th[u]
    BY <1>5, <1>7, Zenon DEF Typed, ThreadsTyped
  <2>2. th[u].pc \in Bringing => /\ th[u].cur \in Sess /\ sess'[th[u].cur].mem = "new"
                                 /\ sess'[th[u].cur].key = th[u].key
    BY <1>0, <2>1, Zenon DEF ThreadFits, Typed, TableTyped
  <2> QED
    BY <1>0, <2>1, <2>2, Zenon DEF ThreadFits
<1>8. th' \in [Thread -> ThreadType] /\ th'[t] = x
  BY <1>5, Zenon DEF Typed, ThreadsTyped
<1> QED
  BY <1>2, <1>6, <1>7, <1>8, Zenon DEF ThreadsTyped

(* The counters of the workers, the scan and what is sent keep their types. *)
LEMMA RestKept ==
  ASSUME Typed, Next
  PROVE  RestTyped'
<1> USE DEF RestTyped
<1>0. RestTyped /\ Fetcher \in Thread /\ Cleanup \in Thread /\ Processor \subseteq Thread
  BY ThreadFacts, Zenon DEF Typed
<1>1. CASE UNCHANGED <<sessions, scan, sent, doubled>>
  BY <1>0, <1>1, Zenon
<1>2. CASE insert_scan
  <2>1. scan.i \in Worker /\ scan.i + 1 \in 0 .. Workers /\ scan.queuenum \in Worker
    <3>1. scan.i \in 0 .. Workers /\ scan.queuenum \in Worker
      BY <1>0, Zenon
    <3>2. scan.i < Workers /\ Workers \in Nat
      BY <1>2, SessionTableAssumption, Zenon DEF insert_scan
    <3> QED
      BY <3>1, <3>2 DEF Worker
  <2>2. /\ scan' = [i |-> scan.i + 1,
                    queuenum |-> IF sessions[scan.queuenum] > sessions[scan.i]
                                 THEN scan.i ELSE scan.queuenum]
        /\ UNCHANGED <<sessions, sent, doubled>>
    BY <1>2, Zenon DEF insert_scan
  <2>3. scan' \in [i : 0 .. Workers, queuenum : Worker]
    BY <2>1, <2>2, Zenon
  <2> QED
    BY <1>0, <2>2, <2>3, Zenon
<1>3. CASE insert_calloc
  BY <1>0, <1>3, ThreadFacts, SessionTableAssumption DEF insert_calloc
<1>4. CASE increment_worker_sessions
  <2>1. sess[th[Fetcher].cur].queue \in Worker
    BY <1>0, <1>4, Zenon DEF Typed, TableTyped, ThreadsTyped, ThreadFits, increment_worker_sessions, Bringing
  <2> QED
    BY <1>0, <1>4, <2>1, ModulusFacts, Zenon DEF increment_worker_sessions
<1>5. ASSUME NEW t \in Thread, clear_unlink(t) PROVE RestTyped'
  <2>1. doubled' \in BOOLEAN
    BY <1>5, <1>0, Zenon DEF clear_unlink
  <2> QED
    BY <1>0, <1>5, <2>1, Zenon DEF clear_unlink
<1>6. ASSUME NEW t \in Thread, decrement_worker_sessions(t) PROVE RestTyped'
  <2>1. sess[th[t].cur].queue \in Worker
    BY <1>0, <1>6 DEF Typed, TableTyped, ThreadsTyped, ThreadFits, decrement_worker_sessions, Bringing,
       Known, Safe, Touches, Wild
  <2> QED
    BY <1>0, <1>6, <2>1, ModulusFacts, Zenon DEF decrement_worker_sessions
<1>7. CASE fetcher_use
  <2>1. th[Fetcher].pc = "found" /\ th[Fetcher].key \in Key /\ th[Fetcher].cur \in Known \cup {Nil}
    BY <1>0, <1>7, Zenon DEF Typed, ThreadsTyped, ThreadFits, fetcher_use, Bringing
  <2>2. th[Fetcher].cur \in Sess /\ sess[th[Fetcher].cur].mem \in {"linked", "out"}
    BY <2>1, <1>7, Zenon DEF fetcher_use, Known, Safe, Touches, Wild
  <2>3. sess[th[Fetcher].cur].queue \in Worker
    BY <2>2, Zenon DEF Typed, TableTyped
  <2>4. sent' \subseteq Worker \X Key
    BY <1>0, <1>7, <2>1, <2>3 DEF fetcher_use
  <2> QED
    BY <1>0, <1>7, <2>4, Zenon DEF fetcher_use
<1>8. CASE insert_link
  BY <1>8, <1>1, Zenon DEF insert_link
<1>9. ASSUME NEW t \in Thread, clear_free(t) PROVE RestTyped'
  BY <1>1, <1>9, Zenon DEF clear_free
<1>10. ASSUME NEW t \in Thread, walk_next(t) \/ walk_found(t) \/ walk_none(t) \/ use_after_free(t)
       PROVE  RestTyped'
  BY <1>1, <1>10, Zenon DEF walk_next, walk_found, walk_none, use_after_free
<1>11. CASE \/ \E k \in Key : fetcher_callback(k)
            \/ \E t \in Processor, k \in Key : worker_thread(t, k)
            \/ \E t \in Processor : worker_use(t)
            \/ \E b \in Bucket : cleanuplist(b)
            \/ cleanup_end \/ cleanup_visit \/ cleanup_advance \/ cleanup_previous
  BY <1>1, <1>11, Zenon DEF fetcher_callback, worker_thread, worker_use, cleanuplist, cleanup_end,
     cleanup_visit, cleanup_advance, cleanup_previous
<1> HIDE DEF RestTyped
<1>12. CASE FetcherStep
  BY <1>0, <1>2, <1>3, <1>4, <1>7, <1>8, <1>10, <1>12, Zenon DEF FetcherStep
<1>13. ASSUME NEW t \in Processor, ProcessorStep(t) PROVE RestTyped'
  <2>1. t \in Thread
    BY <1>0, Zenon
  <2> QED
    BY <1>5, <1>6, <1>9, <1>10, <1>11, <1>13, <2>1, Zenon DEF ProcessorStep
<1>14. CASE CleanupStep
  BY <1>0, <1>5, <1>6, <1>9, <1>10, <1>11, <1>14, Zenon DEF CleanupStep
<1> QED
  BY <1>11, <1>12, <1>13, <1>14, Zenon DEF Next

(* Every step keeps the types. *)
LEMMA NextTyped == Typed /\ [Next]_vars => Typed'
<1> SUFFICES ASSUME Typed, [Next]_vars PROVE Typed'
  BY Zenon
<1>0. Fetcher \in Thread /\ Cleanup \in Thread /\ Processor \subseteq Thread
      /\ Fetcher # Cleanup /\ Fetcher \notin Processor /\ Cleanup \notin Processor
  BY ThreadFacts, Zenon
<1>1. CASE UNCHANGED vars
  BY <1>1 DEF vars, heads, Typed, TableTyped, ThreadsTyped, RestTyped, ThreadFits, Known
<1>2. CASE Next
  <2>0. RestTyped'
    BY <1>2, RestKept, Zenon
  <2>1. ASSUME UNCHANGED <<heads, sess>> PROVE TableTyped'
    BY <2>1, Zenon DEF heads, Typed, TableTyped, Known
  <2>2. ASSUME ThreadsTyped', UNCHANGED <<heads, sess>> PROVE Typed'
    BY <2>0, <2>1, <2>2, Zenon DEF Typed
  <2>3. ASSUME NEW t \in Thread, walk_next(t) \/ walk_found(t) \/ walk_none(t) PROVE Typed'
    BY <2>2, <2>3, WalkTyped, Zenon DEF walk_next, walk_found, walk_none
  <2>4. ASSUME NEW t \in Thread, use_after_free(t) PROVE Typed'
    <3>1. [Idle EXCEPT !.pc = "undefined"] = [pc |-> "undefined", key |-> Nil, cur |-> Nil, at |-> Nil]
      BY DEF Idle
    <3>2. th' = [u \in Thread |-> [pc |-> "undefined", key |-> Nil, cur |-> Nil, at |-> Nil]]
      BY <2>4, <3>1, Zenon DEF use_after_free
    <3>3. ThreadsTyped'
      BY <3>2, Zenon DEF ThreadsTyped, ThreadFits, ThreadType, Pc, PcOf, Bringing
    <3> QED
      BY <2>2, <2>4, <3>3, Zenon DEF use_after_free
  <2>5. ASSUME NEW t \in Thread, t # Fetcher,
               clear_unlink(t) \/ decrement_worker_sessions(t) \/ clear_free(t)
        PROVE  Typed'
    <3>1. CASE clear_unlink(t)
      BY <2>0, <2>5, <3>1, UnlinkTyped, Zenon DEF Typed
    <3>2. CASE clear_free(t)
      BY <2>0, <2>5, <3>2, FreeTyped, Zenon DEF Typed
    <3>3. CASE decrement_worker_sessions(t)
      <4>1. th[t].pc = "count" /\ th[t].cur \in Known \cup {Nil} /\ "free" \in PcOf(t) \ Bringing
        BY <2>5, <3>3, Zenon DEF decrement_worker_sessions, Typed, ThreadsTyped, ThreadFits, Bringing, PcOf
      <4>2. ThreadsTyped'
        BY <2>5, <3>3, <4>1, GotoTyped, Zenon DEF decrement_worker_sessions
      <4> QED
        BY <2>2, <3>3, <4>2, Zenon DEF decrement_worker_sessions
    <3> QED
      BY <2>5, <3>1, <3>2, <3>3, Zenon
  <2>6. CASE \E k \in Key : fetcher_callback(k)
    BY <1>0, <2>2, <2>6, StartWalkTyped, Zenon DEF fetcher_callback
  <2>7. ASSUME NEW t \in Processor, NEW k \in Key, worker_thread(t, k) PROVE Typed'
    BY <1>0, <2>2, <2>7, StartWalkTyped, Zenon DEF worker_thread
  <2>8. ASSUME NEW t \in Processor, worker_use(t) PROVE Typed'
    BY <1>0, <2>2, <2>8, UseTyped, Zenon DEF worker_use
  <2>9. CASE fetcher_use
    BY <1>0, <2>2, <2>9, UseTyped, Zenon DEF fetcher_use
  <2>10. CASE \/ \E b \in Bucket : cleanuplist(b)
              \/ cleanup_end \/ cleanup_visit \/ cleanup_advance \/ cleanup_previous
    BY <2>2, <2>10, CleanupTyped, Zenon DEF cleanuplist, cleanup_end, cleanup_visit, cleanup_advance,
       cleanup_previous
  <2>11. CASE insert_scan
    <3>1. ThreadsTyped'
      BY <2>11, Zenon DEF insert_scan, Typed, ThreadsTyped, ThreadFits, Known
    <3> QED
      BY <2>2, <2>11, <3>1, Zenon DEF insert_scan
  <2>12. CASE insert_calloc
    BY <2>0, <2>12, CallocTyped, Zenon DEF Typed
  <2>13. CASE insert_link
    BY <2>0, <2>13, LinkTyped, Zenon DEF Typed
  <2>14. CASE increment_worker_sessions
    <3> DEFINE x == [th[Fetcher] EXCEPT !.pc = "link"]
    <3>1. th[Fetcher] \in ThreadType /\ ThreadFits(Fetcher, th[Fetcher]) /\ th[Fetcher].pc = "increment"
      BY <1>0, <2>14, Zenon DEF Typed, ThreadsTyped, increment_worker_sessions
    <3>2. x \in ThreadType
      BY <3>1, Zenon DEF ThreadType, Pc
    <3>3. ThreadFits(Fetcher, x)
      BY <3>1, Zenon DEF ThreadFits, ThreadType, PcOf, Bringing
    <3>4. ThreadsTyped'
      BY <1>0, <2>14, <3>2, <3>3, OneThread, Zenon DEF increment_worker_sessions, Goto, Typed
    <3> QED
      BY <2>2, <2>14, <3>4, Zenon DEF increment_worker_sessions
  <2>15. CASE FetcherStep
    BY <1>0, <2>3, <2>4, <2>9, <2>11, <2>12, <2>13, <2>14, <2>15, Zenon DEF FetcherStep
  <2>16. ASSUME NEW t \in Processor, ProcessorStep(t) PROVE Typed'
    <3>1. t \in Thread /\ t # Fetcher
      BY <1>0, Zenon
    <3> QED
      BY <2>3, <2>4, <2>5, <2>8, <2>16, <3>1, Zenon DEF ProcessorStep
  <2>17. CASE CleanupStep
    BY <1>0, <2>4, <2>5, <2>10, <2>17, Zenon DEF CleanupStep
  <2> QED
    BY <1>2, <2>6, <2>7, <2>10, <2>15, <2>16, <2>17, Zenon DEF Next
<1> QED
  BY <1>1, <1>2, Zenon

(* insert_link at the end of a list: the new session has the highest rank. *)
LEMMA LinkRanked ==
  ASSUME Typed, NEW r, Ranked(r), insert_link
  PROVE  \E f \in [Sess -> Nat] :
           /\ \A x \in Sess : x # th[Fetcher].cur => f[x] = r[x] /\ f[x] < f[th[Fetcher].cur]
           /\ Ranked(f)'
<1> DEFINE s == th[Fetcher].cur
           l == LastOf(Hash[th[Fetcher].key])
<1>0. /\ s \in Sess /\ sess[s].mem = "new"
      /\ l # Nil => l \in Sess /\ sess[l].mem \in {"linked", "out"}
      /\ Links(s, l) /\ Known' = Known \cup {s} /\ Nil \notin Sess
  BY LinkEffect, LinkTyped, ThreadFacts, Zenon
<1> HIDE DEF s, l
<1>1. PICK m \in Nat : \A x \in Sess : r[x] <= m
  BY Zenon DEF Ranked
<1>2. r \in [Sess -> Nat] /\ Known \subseteq Sess
  BY Zenon DEF Ranked, Known
<1>3. PICK f \in [Sess -> Nat] : f = [r EXCEPT ![s] = m + 1]
  <2>1. m + 1 \in Nat
    BY <1>1
  <2>2. [r EXCEPT ![s] = m + 1] \in [Sess -> Nat]
    BY <1>0, <1>2, <2>1, Zenon
  <2> QED
    BY <2>2, Zenon
<1>4. f[s] = m + 1 /\ \A x \in Sess : x # s => f[x] = r[x] /\ f[x] < f[s]
  <2>1. f[s] = m + 1 /\ \A x \in Sess : x # s => f[x] = r[x]
    BY <1>0, <1>2, <1>3, Zenon
  <2> QED
    BY <1>1, <1>2, <2>1
<1>5. \A x, y \in Known' : f[x] = f[y] => x = y
  BY <1>0, <1>2, <1>4 DEF Ranked
<1>6. ASSUME NEW x \in Sess
      PROVE  /\ sess'[x].next # Nil => f[x] < f[sess'[x].next]
             /\ sess'[x].prev # Nil => f[sess'[x].prev] < f[x]
  <2>1. /\ sess'[x].next = IF x = l THEN s ELSE sess[x].next
        /\ sess'[x].prev = IF x = s THEN l ELSE sess[x].prev
    BY <1>0, Zenon DEF Links
  <2>2. /\ sess[x].next \in Known \cup {Nil} /\ sess[x].prev \in Known \cup {Nil} /\ s \notin Known
        /\ x = s => sess[x].next = Nil
    BY <1>0, Zenon DEF Typed, TableTyped, Known
  <2>3. /\ sess[x].next # Nil => r[x] < r[sess[x].next]
        /\ sess[x].prev # Nil => r[sess[x].prev] < r[x]
    BY Zenon DEF Ranked
  <2>4. x = l => l # Nil /\ x # s
    BY <1>0, Zenon
  <2>5. sess'[x].next # Nil => f[x] < f[sess'[x].next]
    BY <1>2, <1>4, <2>1, <2>2, <2>3, <2>4, Zenon
  <2>6. sess'[x].prev # Nil => f[sess'[x].prev] < f[x]
    BY <1>0, <1>2, <1>4, <2>1, <2>2, <2>3, Zenon
  <2> QED
    BY <2>5, <2>6, Zenon
<1>7. \E k \in Nat : \A x \in Sess : f[x] <= k
  BY <1>1, <1>4
<1>8. Ranked(f)'
  BY <1>3, <1>5, <1>6, <1>7, Zenon DEF Ranked
<1> QED
  BY <1>4, <1>8, Zenon DEF s

(* clear_unlink joins p and n, between which s was. *)
LEMMA UnlinkRanked ==
  ASSUME Typed, NEW r, Ranked(r), NEW t \in Thread, t # Fetcher, clear_unlink(t)
  PROVE  Ranked(r)'
<1> DEFINE s == th[t].cur
           n == sess[s].next
           p == sess[s].prev
<1>0. /\ s \in Sess
      /\ n # Nil => n \in Sess /\ r[s] < r[n]
      /\ p # Nil => p \in Sess /\ r[p] < r[s]
      /\ Unlinks(s, n, p) /\ Known' = Known /\ Nil \notin Sess
  BY UnlinkEffect, UnlinkTyped, ThreadFacts, Zenon DEF Ranked
<1> HIDE DEF s, n, p
<1>1. r \in [Sess -> Nat]
  BY Zenon DEF Ranked
<1>2. ASSUME NEW x \in Sess
      PROVE  /\ sess'[x].next # Nil => r[x] < r[sess'[x].next]
             /\ sess'[x].prev # Nil => r[sess'[x].prev] < r[x]
  <2>1. /\ sess'[x].next = IF x = p /\ x # s THEN n ELSE sess[x].next
        /\ sess'[x].prev = IF x = n /\ x # s THEN p ELSE sess[x].prev
    BY <1>0, Zenon DEF Unlinks
  <2>2. /\ sess[x].next # Nil => r[x] < r[sess[x].next]
        /\ sess[x].prev # Nil => r[sess[x].prev] < r[x]
    BY Zenon DEF Ranked
  <2> QED
    BY <1>0, <1>1, <2>1, <2>2
<1> QED
  BY <1>0, <1>1, <1>2, Zenon DEF Ranked

(* The other steps change no pointer between sessions, or free a session. *)
LEMMA OtherRanked ==
  ASSUME Typed, NEW r, Ranked(r), Known' = Known,
         \A s \in Sess : sess'[s].next \in {sess[s].next, Nil} /\ sess'[s].prev \in {sess[s].prev, Nil}
  PROVE  Ranked(r)'
BY Zenon DEF Ranked

(* insert_link keeps the lists: the session comes behind the last one of   *)
(* its bucket, above which there is none.                                  *)
LEMMA LinkLists ==
  ASSUME Typed, NEW r, Ranked(r), Lists(r), Empties, insert_link,
         NEW f \in [Sess -> Nat],
         \A x \in Sess : x # th[Fetcher].cur => f[x] = r[x] /\ f[x] < f[th[Fetcher].cur]
  PROVE  Lists(f)'
<1> DEFINE s == th[Fetcher].cur
           b == Hash[th[Fetcher].key]
           l == LastOf(b)
<1>0. /\ s \in Sess /\ sess[s].mem = "new" /\ b \in Bucket /\ Place(s) = b
      /\ Links(s, l)
      /\ hnext' = IF l = Nil THEN [hnext EXCEPT ![b] = s] ELSE hnext
      /\ hprev' = [hprev EXCEPT ![b] = s]
      /\ l = Nil <=> qlen[b] = 0
      /\ l # Nil => l = hprev[b]
      /\ Nil \notin Sess
  BY LinkEffect, ThreadFacts, Zenon DEF Place, LastOf
<1>1. \A x \in Sess : x # s => f[x] = r[x] /\ f[x] < f[s]
  BY Zenon
<1> HIDE DEF s, b, l
<1>2. /\ r \in [Sess -> Nat] /\ hnext \in [Bucket -> Sess \cup {Nil}] /\ hprev \in [Bucket -> Sess \cup {Nil}]
      /\ \A x \in Linked : x \in Sess /\ x # s /\ Place(x) \in Bucket
  BY <1>0, SessionTableAssumption, Zenon DEF Ranked, Typed, TableTyped, Linked, Place
<1>3. Linked' = Linked \cup {s} /\ \A x \in Sess : Place(x)' = Place(x)
  BY <1>0 DEF Linked, Links, Place
<1>4. /\ l = Nil => \A x \in Linked : Place(x) # b
      /\ l # Nil => /\ l \in Linked /\ Place(l) = b /\ sess[l].next = Nil
                    /\ hnext[b] # Nil
                    /\ \A x \in Linked : Place(x) = b => r[x] <= r[l]
  <2>1. l = Nil => InList(b) = {}
    BY <1>0, Zenon DEF Empties
  <2>2. l # Nil => l \in Linked /\ Place(l) = b /\ sess[l].next = Nil
    BY <1>0 DEF Lists, HeadsFit
  <2>3. l # Nil => hnext[b] # Nil /\ \A x \in Linked : Place(x) = b => r[x] <= r[l]
    BY <1>2, <2>2 DEF Lists, LinksFit, NoGap
  <2> QED
    BY <2>1, <2>2, <2>3, Zenon DEF InList, Linked, Place
<1>5. \A x \in Sess :
        /\ sess'[x].next = IF x = l THEN s ELSE sess[x].next
        /\ sess'[x].prev = IF x = s THEN l ELSE sess[x].prev
  BY <1>0, Zenon DEF Links
<1>6. sess[s].next = Nil /\ sess[s].prev = Nil
  BY <1>0, Zenon DEF Typed, TableTyped
<1>7. HeadsFit'
  <2> SUFFICES ASSUME NEW c \in Bucket
               PROVE  /\ hnext'[c] # Nil => /\ hnext'[c] \in Linked' /\ Place(hnext[c])' = c
                                            /\ sess'[hnext'[c]].prev = Nil
                      /\ hprev'[c] # Nil => /\ hprev'[c] \in Linked' /\ Place(hprev[c])' = c
                                            /\ sess'[hprev'[c]].next = Nil
    BY Zenon DEF HeadsFit, Place
  <2>0. /\ hnext[c] # Nil => hnext[c] \in Linked /\ Place(hnext[c]) = c /\ sess[hnext[c]].prev = Nil
        /\ hprev[c] # Nil => hprev[c] \in Linked /\ Place(hprev[c]) = c /\ sess[hprev[c]].next = Nil
    BY Zenon DEF Lists, HeadsFit
  <2>1. CASE c = b
    BY <1>0, <1>2, <1>3, <1>4, <1>5, <1>6, <2>0, <2>1
  <2>2. CASE c # b
    BY <1>0, <1>2, <1>3, <1>4, <1>5, <2>0, <2>2, Zenon
  <2> QED
    BY <2>1, <2>2, Zenon
<1>8. ASSUME NEW x \in Linked'
      PROVE  /\ sess'[x].prev = Nil => hnext'[Place(x)] = x
             /\ sess'[x].next = Nil => hprev'[Place(x)] = x
             /\ sess'[x].next # Nil => sess'[x].next \in Linked' /\ sess'[sess'[x].next].prev = x
             /\ sess'[x].prev # Nil => sess'[x].prev \in Linked' /\ sess'[sess'[x].prev].next = x
             /\ hnext'[Place(x)] # Nil /\ f[hnext'[Place(x)]] <= f[x]
  <2>1. CASE x = s
    <3>1. sess'[s].prev = l /\ sess'[s].next = Nil /\ hprev'[b] = s
      BY <1>0, <1>2, <1>4, <1>5, <1>6, Zenon
    <3>2. l = Nil => hnext'[b] = s
      BY <1>0, <1>2, Zenon
    <3>3. l # Nil => l \in Linked' /\ sess'[l].next = s /\ hnext'[b] = hnext[b] /\ hnext[b] \in Sess
      BY <1>0, <1>2, <1>3, <1>4, <1>5
    <3>4. l # Nil => f[hnext[b]] <= f[s]
      BY <1>0, <1>1, <3>3
    <3> QED
      BY <1>0, <2>1, <3>1, <3>2, <3>3, <3>4
  <2>2. CASE x # s
    <3>0. /\ x \in Linked /\ x \in Sess /\ Place(x) \in Bucket
          /\ sess[x].prev = Nil => hnext[Place(x)] = x
          /\ sess[x].next = Nil => hprev[Place(x)] = x
          /\ sess[x].next # Nil => sess[x].next \in Linked /\ sess[sess[x].next].prev = x
          /\ sess[x].prev # Nil => sess[x].prev \in Linked /\ sess[sess[x].prev].next = x
          /\ hnext[Place(x)] # Nil /\ r[hnext[Place(x)]] <= r[x]
      BY <1>2, <1>3, <2>2, Zenon DEF Lists, LinksFit
    <3>1. hnext'[Place(x)] = hnext[Place(x)] /\ hnext[Place(x)] \in Sess /\ hnext[Place(x)] \in Linked
      BY <1>0, <1>2, <1>4, <3>0, Zenon DEF Lists, HeadsFit
    <3>2. f[hnext[Place(x)]] <= f[x]
      BY <1>1, <1>2, <2>2, <3>0, <3>1
    <3>3. sess'[x].prev = sess[x].prev
      BY <1>5, <2>2, <3>0, Zenon
    <3>4. sess[x].prev # Nil => sess[x].prev \in Linked' /\ sess'[sess[x].prev].next = x
      BY <1>2, <1>3, <1>4, <1>5, <1>0, <3>0
    <3>5. CASE x = l
      BY <1>0, <1>2, <1>3, <1>4, <1>5, <3>0, <3>1, <3>2, <3>3, <3>4, <3>5
    <3>6. CASE x # l
      <4>1. sess'[x].next = sess[x].next /\ (sess[x].next = Nil => Place(x) # b)
        BY <1>0, <1>4, <1>5, <3>0, <3>6, Zenon
      <4>2. sess[x].next = Nil => hprev'[Place(x)] = x
        BY <1>0, <1>2, <3>0, <4>1, Zenon
      <4>3. sess[x].next # Nil => sess[x].next \in Linked' /\ sess'[sess[x].next].prev = x
        BY <1>2, <1>3, <1>5, <3>0, Zenon
      <4> QED
        BY <3>0, <3>1, <3>2, <3>3, <3>4, <4>1, <4>2, <4>3
    <3> QED
      BY <3>5, <3>6, Zenon
  <2> QED
    BY <2>1, <2>2, Zenon
<1>9. ASSUME NEW x \in Linked', NEW y \in Linked', Place(y) = Place(x), f[x] < f[y]
      PROVE  sess'[x].next # Nil /\ f[sess'[x].next] <= f[y]
  <2>1. x # s
    BY <1>0, <1>1, <1>2, <1>3, <1>9
  <2>2. x \in Linked /\ x \in Sess /\ sess'[x].next = IF x = l THEN s ELSE sess[x].next
    BY <1>2, <1>3, <1>5, <2>1, Zenon
  <2>3. CASE y = s
    <3>1. CASE x = l
      BY <1>0, <2>2, <2>3, <3>1
    <3>2. CASE x # l
      <4>1. Place(x) = b /\ sess[x].next # Nil
        BY <1>0, <1>4, <1>9, <2>2, <2>3, <3>2 DEF Lists, LinksFit
      <4>2. sess[x].next \in Linked /\ sess[x].next \in Sess /\ sess[x].next # s
        BY <1>2, <2>2, <4>1, Zenon DEF Lists, LinksFit
      <4> QED
        BY <1>0, <1>1, <2>2, <2>3, <3>2, <4>1, <4>2
    <3> QED
      BY <3>1, <3>2, Zenon
  <2>4. CASE y # s
    <3>1. y \in Linked /\ y \in Sess /\ r[x] < r[y] /\ r[y] = f[y]
      <4>1. y \in Linked /\ y \in Sess
        BY <1>2, <1>3, <2>4, Zenon
      <4>2. f[x] = r[x] /\ f[y] = r[y]
        BY <1>1, <2>1, <2>2, <2>4, <4>1, Zenon
      <4> QED
        BY <1>9, <4>1, <4>2, Zenon
    <3>2. sess[x].next # Nil /\ r[sess[x].next] <= r[y]
      BY <1>9, <2>2, <3>1, Zenon DEF Lists, LinksFit, NoGap
    <3>3. x # l
      BY <1>0, <1>4, <2>2, <3>2, Zenon
    <3>4. sess[x].next \in Linked /\ sess[x].next \in Sess /\ sess[x].next # s
      BY <1>2, <2>2, <3>2, Zenon DEF Lists, LinksFit
    <3> QED
      BY <1>1, <2>2, <3>1, <3>2, <3>3, <3>4, Zenon
  <2> QED
    BY <2>3, <2>4, Zenon
<1>10. LinksFit(f)'
  BY <1>2, <1>3, <1>8, <1>9, <1>0 DEF LinksFit, NoGap
<1>11. SamePlace'
  <2> SUFFICES ASSUME NEW x \in Sess
               PROVE  /\ sess'[x].next \in Sess /\ sess'[sess'[x].next].mem # "freed" =>
                           Place(sess[x].next)' = Place(x)
                      /\ sess'[x].prev \in Sess /\ sess'[sess'[x].prev].mem # "freed" =>
                           Place(sess[x].prev)' = Place(x)
    BY <1>3 DEF SamePlace, Place
  <2>1. /\ sess[x].next \in Sess /\ sess[sess[x].next].mem # "freed" => Place(sess[x].next) = Place(x)
        /\ sess[x].prev \in Sess /\ sess[sess[x].prev].mem # "freed" => Place(sess[x].prev) = Place(x)
    BY Zenon DEF Lists, SamePlace
  <2>2. \A y \in Sess : sess'[y].mem = "freed" <=> sess[y].mem = "freed"
    BY <1>0, Zenon DEF Links
  <2> QED
    BY <1>0, <1>2, <1>3, <1>4, <1>5, <2>1, <2>2
<1> QED
  BY <1>7, <1>10, <1>11, Zenon DEF Lists

(* clear_unlink keeps the lists: p and n become neighbours. *)
LEMMA UnlinkLists ==
  ASSUME Typed, NEW r, Ranked(r), Lists(r), NEW t \in Thread, clear_unlink(t),
         sess[th[t].cur].mem = "linked"
  PROVE  Lists(r)'
<1> DEFINE s == th[t].cur
           n == sess[s].next
           p == sess[s].prev
           b == Place(s)
<1>0. /\ s \in Sess /\ s \in Linked /\ b \in Bucket /\ b = Place(s)
      /\ Unlinks(s, n, p) /\ Nil \notin Sess
      /\ hnext' = HeadWithout(b, n, p) /\ hprev' = TailWithout(b, n, p)
  BY UnlinkEffect, ThreadFacts, Zenon DEF Linked, clear_unlink, Place
<1>1. /\ n = sess[s].next /\ p = sess[s].prev
      /\ p = Nil => hnext[b] = s
      /\ n = Nil => hprev[b] = s
      /\ n # Nil => n \in Linked /\ sess[n].prev = s
      /\ p # Nil => p \in Linked /\ sess[p].next = s
  BY <1>0, Zenon DEF Lists, LinksFit
<1> HIDE DEF s, n, p, b
<1>2. /\ r \in [Sess -> Nat] /\ hnext \in [Bucket -> Sess \cup {Nil}] /\ hprev \in [Bucket -> Sess \cup {Nil}]
      /\ \A x \in Linked : x \in Sess /\ Place(x) \in Bucket
      /\ \A x, y \in Linked : r[x] = r[y] => x = y
  BY SessionTableAssumption, Zenon DEF Ranked, Typed, TableTyped, Linked, Place, Known
<1>3. Linked' = Linked \ {s} /\ \A x \in Sess : Place(x)' = Place(x)
  BY <1>0 DEF Linked, Unlinks, Place
<1>4. /\ n # Nil => n \in Linked' /\ n # s /\ Place(n) = b /\ r[s] < r[n]
      /\ p # Nil => p \in Linked' /\ p # s /\ Place(p) = b /\ r[p] < r[s]
      /\ n # Nil \/ p # Nil => n # p
  <2>1. /\ n # Nil => r[s] < r[n]
        /\ p # Nil => r[p] < r[s]
    BY <1>0, <1>1, Zenon DEF Ranked
  <2>2. /\ n # Nil => n \in Sess /\ Place(n) = b
        /\ p # Nil => p \in Sess /\ Place(p) = b
    BY <1>0, <1>1, <1>2, Zenon DEF Lists, SamePlace, Linked
  <2>3. r[s] \in Nat /\ (n # Nil => r[n] \in Nat) /\ (p # Nil => r[p] \in Nat)
    BY <1>0, <1>2, <2>2, Zenon
  <2>4. (n # Nil => n # s) /\ (p # Nil => p # s) /\ (n # Nil \/ p # Nil => n # p)
    BY <2>1, <2>3
  <2> QED
    BY <1>1, <1>3, <2>1, <2>2, <2>4, Zenon
<1>5. \A x \in Sess :
        /\ sess'[x].next = IF x = p /\ x # s THEN n ELSE sess[x].next
        /\ sess'[x].prev = IF x = n /\ x # s THEN p ELSE sess[x].prev
  BY <1>0, Zenon DEF Unlinks
<1>6. \A c \in Bucket : /\ hnext'[c] = IF c = b /\ p = Nil THEN n ELSE hnext[c]
                        /\ hprev'[c] = IF c = b /\ n = Nil THEN p ELSE hprev[c]
  BY <1>0, <1>2, Zenon DEF HeadWithout, TailWithout
<1>7. HeadsFit'
  <2> SUFFICES ASSUME NEW c \in Bucket
               PROVE  /\ hnext'[c] # Nil => /\ hnext'[c] \in Linked' /\ Place(hnext[c])' = c
                                            /\ sess'[hnext'[c]].prev = Nil
                      /\ hprev'[c] # Nil => /\ hprev'[c] \in Linked' /\ Place(hprev[c])' = c
                                            /\ sess'[hprev'[c]].next = Nil
    BY Zenon DEF HeadsFit, Place
  <2>0. /\ hnext[c] # Nil => hnext[c] \in Linked /\ Place(hnext[c]) = c /\ sess[hnext[c]].prev = Nil
        /\ hprev[c] # Nil => hprev[c] \in Linked /\ Place(hprev[c]) = c /\ sess[hprev[c]].next = Nil
    BY Zenon DEF Lists, HeadsFit
  <2>1. hnext'[c] # Nil => hnext'[c] \in Linked' /\ Place(hnext[c])' = c /\ sess'[hnext'[c]].prev = Nil
    <3>1. CASE c = b /\ p = Nil
      BY <1>0, <1>2, <1>3, <1>4, <1>5, <1>6, <3>1
    <3>2. CASE ~ (c = b /\ p = Nil)
      <4>1. hnext'[c] = hnext[c]
        BY <1>6, <3>2, Zenon
      <4>2. hnext[c] # Nil => hnext[c] # s /\ hnext[c] # n
        BY <1>0, <1>1, <1>4, <2>0, <3>2, Zenon
      <4> QED
        BY <1>2, <1>3, <1>5, <2>0, <4>1, <4>2
    <3> QED
      BY <3>1, <3>2, Zenon
  <2>2. hprev'[c] # Nil => hprev'[c] \in Linked' /\ Place(hprev[c])' = c /\ sess'[hprev'[c]].next = Nil
    <3>1. CASE c = b /\ n = Nil
      BY <1>0, <1>2, <1>3, <1>4, <1>5, <1>6, <3>1
    <3>2. CASE ~ (c = b /\ n = Nil)
      <4>1. hprev'[c] = hprev[c]
        BY <1>6, <3>2, Zenon
      <4>2. hprev[c] # Nil => hprev[c] # s /\ hprev[c] # p
        BY <1>0, <1>1, <1>4, <2>0, <3>2, Zenon
      <4> QED
        BY <1>2, <1>3, <1>5, <2>0, <4>1, <4>2
    <3> QED
      BY <3>1, <3>2, Zenon
  <2> QED
    BY <2>1, <2>2, Zenon
<1>8. ASSUME NEW x \in Linked', NEW y \in Linked', Place(y) = Place(x), r[x] < r[y]
      PROVE  sess'[x].next # Nil /\ r[sess'[x].next] <= r[y]
  <2>0. x \in Linked /\ y \in Linked /\ x # s /\ y # s /\ x \in Sess /\ y \in Sess
    BY <1>2, <1>3, Zenon
  <2>1. sess[x].next # Nil /\ r[sess[x].next] <= r[y]
    BY <1>8, <2>0, Zenon DEF Lists, LinksFit, NoGap
  <2>2. CASE x = p
    <3>1. r[s] <= r[y] /\ sess'[x].next = n
      BY <1>0, <1>1, <1>5, <2>0, <2>1, <2>2, Zenon
    <3>2. r[s] < r[y]
      BY <1>0, <1>2, <2>0, <3>1
    <3>3. n # Nil /\ r[n] <= r[y]
      BY <1>0, <1>1, <1>4, <1>8, <2>0, <2>2, <3>2 DEF Lists, LinksFit, NoGap
    <3> QED
      BY <3>1, <3>3, Zenon
  <2>3. CASE x # p
    BY <1>5, <2>0, <2>1, <2>3, Zenon
  <2> QED
    BY <2>2, <2>3, Zenon
<1>9. ASSUME NEW x \in Linked'
      PROVE  /\ sess'[x].prev = Nil => hnext'[Place(x)] = x
             /\ sess'[x].next = Nil => hprev'[Place(x)] = x
             /\ sess'[x].next # Nil => sess'[x].next \in Linked' /\ sess'[sess'[x].next].prev = x
             /\ sess'[x].prev # Nil => sess'[x].prev \in Linked' /\ sess'[sess'[x].prev].next = x
             /\ hnext'[Place(x)] # Nil /\ r[hnext'[Place(x)]] <= r[x]
  <2>0. /\ x \in Linked /\ x \in Sess /\ x # s /\ Place(x) \in Bucket
        /\ sess[x].prev = Nil => hnext[Place(x)] = x
        /\ sess[x].next = Nil => hprev[Place(x)] = x
        /\ sess[x].next # Nil => sess[x].next \in Linked /\ sess[sess[x].next].prev = x
        /\ sess[x].prev # Nil => sess[x].prev \in Linked /\ sess[sess[x].prev].next = x
        /\ hnext[Place(x)] # Nil /\ r[hnext[Place(x)]] <= r[x]
    BY <1>2, <1>3, Zenon DEF Lists, LinksFit
  <2>1. sess'[x].prev = Nil => hnext'[Place(x)] = x
    BY <1>0, <1>1, <1>4, <1>5, <1>6, <2>0
  <2>2. sess'[x].next = Nil => hprev'[Place(x)] = x
    BY <1>0, <1>1, <1>4, <1>5, <1>6, <2>0
  <2>3. sess'[x].next # Nil => sess'[x].next \in Linked' /\ sess'[sess'[x].next].prev = x
    <3>1. CASE x = p
      BY <1>1, <1>2, <1>3, <1>4, <1>5, <2>0, <3>1
    <3>2. CASE x # p
      <4>1. sess'[x].next = sess[x].next
        BY <1>5, <2>0, <3>2, Zenon
      <4>2. sess[x].next # Nil => sess[x].next # s /\ sess[x].next # n
        BY <1>0, <1>1, <2>0, <3>2, Zenon
      <4> QED
        BY <1>2, <1>3, <1>5, <2>0, <4>1, <4>2, Zenon
    <3> QED
      BY <3>1, <3>2, Zenon
  <2>4. sess'[x].prev # Nil => sess'[x].prev \in Linked' /\ sess'[sess'[x].prev].next = x
    <3>1. CASE x = n
      BY <1>1, <1>2, <1>3, <1>4, <1>5, <2>0, <3>1
    <3>2. CASE x # n
      <4>1. sess'[x].prev = sess[x].prev
        BY <1>5, <2>0, <3>2, Zenon
      <4>2. sess[x].prev # Nil => sess[x].prev # s /\ sess[x].prev # p
        BY <1>0, <1>1, <2>0, <3>2, Zenon
      <4> QED
        BY <1>2, <1>3, <1>5, <2>0, <4>1, <4>2, Zenon
    <3> QED
      BY <3>1, <3>2, Zenon
  <2>5. hnext'[Place(x)] # Nil /\ r[hnext'[Place(x)]] <= r[x]
    <3>1. CASE Place(x) = b /\ p = Nil
      <4>1. hnext[b] = s /\ r[s] <= r[x]
        BY <1>1, <2>0, <3>1, Zenon
      <4>2. r[s] < r[x]
        BY <1>0, <1>2, <2>0, <4>1
      <4>3. n # Nil /\ r[n] <= r[x]
        BY <1>0, <1>1, <2>0, <3>1, <4>2 DEF Lists, LinksFit, NoGap
      <4> QED
        BY <1>0, <1>6, <3>1, <4>3, Zenon
    <3>2. CASE ~ (Place(x) = b /\ p = Nil)
      BY <1>6, <2>0, <3>2, Zenon
    <3> QED
      BY <3>1, <3>2, Zenon
  <2> QED
    BY <2>1, <2>2, <2>3, <2>4, <2>5, Zenon
<1>10. LinksFit(r)'
  BY <1>2, <1>3, <1>8, <1>9 DEF LinksFit, NoGap
<1>11. SamePlace'
  <2> SUFFICES ASSUME NEW x \in Sess
               PROVE  /\ sess'[x].next \in Sess /\ sess'[sess'[x].next].mem # "freed" =>
                           Place(sess[x].next)' = Place(x)
                      /\ sess'[x].prev \in Sess /\ sess'[sess'[x].prev].mem # "freed" =>
                           Place(sess[x].prev)' = Place(x)
    BY <1>3, Zenon DEF SamePlace, Place
  <2>1. /\ sess[x].next \in Sess /\ sess[sess[x].next].mem # "freed" => Place(sess[x].next) = Place(x)
        /\ sess[x].prev \in Sess /\ sess[sess[x].prev].mem # "freed" => Place(sess[x].prev) = Place(x)
    BY Zenon DEF Lists, SamePlace
  <2>2. \A y \in Sess : sess'[y].mem = "freed" <=> sess[y].mem = "freed"
    BY <1>0, Zenon DEF Unlinks, Linked
  <2>3. sess'[x].next \in Sess /\ sess'[sess'[x].next].mem # "freed" => Place(sess[x].next)' = Place(x)
    BY <1>0, <1>3, <1>4, <1>5, <2>1, <2>2
  <2>4. sess'[x].prev \in Sess /\ sess'[sess'[x].prev].mem # "freed" => Place(sess[x].prev)' = Place(x)
    BY <1>0, <1>3, <1>4, <1>5, <2>1, <2>2
  <2> QED
    BY <2>3, <2>4, Zenon
<1> QED
  BY <1>7, <1>10, <1>11, Zenon DEF Lists

\* A thread with a session of its own.
Busy == Holding \cup Bringing

(* The steps of a walk, and the others that only read the table. *)
Reads(t) ==
  \/ walk_next(t) \/ walk_found(t) \/ walk_none(t)
  \/ t = Fetcher /\ (insert_scan \/ fetcher_use \/ \E k \in Key : fetcher_callback(k))
  \/ t \in Processor /\ (worker_use(t) \/ \E k \in Key : worker_thread(t, k))
  \/ t = Cleanup /\ (cleanup_end \/ cleanup_visit \/ cleanup_advance \/ cleanup_previous
                     \/ \E b \in Bucket : cleanuplist(b))

(* A step that only reads leaves the table, the other threads and the      *)
(* sessions in a thread's hands alone.                                     *)
LEMMA ReadsOnly ==
  ASSUME Typed, NEW t \in Thread, Reads(t)
  PROVE  /\ UNCHANGED <<heads, sess, sessions>>
         /\ \A u \in Thread : u # t => th'[u] = th[u]
         /\ th[t].pc \notin Busy /\ th'[t].pc \notin Busy
<1>0. th \in [Thread -> ThreadType] /\ Fetcher \in Thread /\ Cleanup \in Thread
  BY ThreadFacts, Zenon DEF Typed, ThreadsTyped
<1> USE DEF Busy, Holding, Bringing
<1>1. CASE walk_next(t)
  <2>1. th' = [th EXCEPT ![t].cur = sess[th[t].cur].next] /\ th[t].pc = "walk"
    BY <1>1, Zenon DEF walk_next
  <2> QED
    BY <1>0, <1>1, <2>1, Zenon DEF walk_next, ThreadType
<1>2. CASE walk_found(t) \/ walk_none(t)
  <2>1. (Goto(t, "found") \/ Return(t) \/ Goto(t, "scan")) /\ th[t].pc = "walk"
    BY <1>2, Zenon DEF walk_found, walk_none
  <2>2. th'[t].pc \in {"found", "idle", "scan"} /\ \A u \in Thread : u # t => th'[u] = th[u]
    BY <1>0, <2>1 DEF Goto, Return, Idle, ThreadType
  <2> QED
    BY <1>0, <1>2, <2>1, <2>2, Zenon DEF walk_found, walk_none
<1>3. CASE t = Fetcher /\ insert_scan
  BY <1>0, <1>3, Zenon DEF insert_scan
<1>4. CASE t = Fetcher /\ fetcher_use
  BY <1>0, <1>4, Zenon DEF fetcher_use, Return, Idle
<1>5. CASE t = Fetcher /\ \E k \in Key : fetcher_callback(k)
  BY <1>0, <1>5 DEF fetcher_callback, StartWalk
<1>6. CASE t \in Processor /\ worker_use(t)
  <2>1. \/ Return(t)
        \/ th' = [th EXCEPT ![t] = [pc |-> "unlink", key |-> Nil, cur |-> th[t].cur, at |-> Nil]]
    BY <1>6, Zenon DEF worker_use
  <2>2. th'[t].pc \in {"unlink", "idle"} /\ \A u \in Thread : u # t => th'[u] = th[u]
    BY <1>0, <2>1 DEF Return, Idle
  <2> QED
    BY <1>6, <2>2, Zenon DEF worker_use
<1>7. CASE t \in Processor /\ \E k \in Key : worker_thread(t, k)
  BY <1>0, <1>7 DEF worker_thread, StartWalk
<1>8. CASE t = Cleanup /\ (cleanup_end \/ cleanup_advance \/ \E b \in Bucket : cleanuplist(b))
  <2>1. \/ Return(t)
        \/ \E x : th' = [th EXCEPT ![t].pc = "previous", ![t].at = x]
        \/ \E x : th' = [th EXCEPT ![t].pc = "visit", ![t].cur = x]
    BY <1>8, Zenon DEF cleanup_end, cleanup_advance, cleanuplist
  <2>2. th'[t].pc \in {"idle", "previous", "visit"} /\ \A u \in Thread : u # t => th'[u] = th[u]
    BY <1>0, <2>1 DEF Return, Idle, ThreadType
  <2> QED
    BY <1>8, <2>2, Zenon DEF cleanup_end, cleanup_advance, cleanuplist
<1>9. CASE t = Cleanup /\ (cleanup_visit \/ cleanup_previous)
  <2>1. \E x \in ThreadType : x.pc \in {"visit", "advance", "unlink"} /\ th' = [th EXCEPT ![t] = x]
    <3>0. th' \in [Thread -> ThreadType]
      BY CleanupTyped, <1>9, Zenon DEF ThreadsTyped
    <3>1. th' = [th EXCEPT ![t] = th'[t]]
      BY <1>0, <1>9, <3>0, Zenon DEF cleanup_visit, cleanup_previous, Goto
    <3>2. th'[t].pc \in {"visit", "advance", "unlink"}
      <4>1. CASE cleanup_visit
        BY <1>0, <1>9, <4>1 DEF cleanup_visit, Goto, ThreadType
      <4>2. CASE cleanup_previous
        BY <1>0, <1>9, <4>2 DEF cleanup_previous, ThreadType
      <4> QED
        BY <1>9, <4>1, <4>2, Zenon
    <3> QED
      BY <3>0, <3>1, <3>2, Zenon
  <2> QED
    BY <1>0, <1>9, <2>1, Zenon DEF cleanup_visit, cleanup_previous
<1> QED
  BY <1>1, <1>2, <1>3, <1>4, <1>5, <1>6, <1>7, <1>8, <1>9, Zenon DEF Reads

(* The lists are about the heads and the sessions only. *)
LEMMA ListsSame ==
  ASSUME NEW r, Lists(r), UNCHANGED <<heads, sess>>
  PROVE  Lists(r)'
BY DEF Lists, heads, HeadsFit, LinksFit, SamePlace, NoGap, Linked, Place

(* What such a step leaves as it is. *)
LEMMA ReadsKeep ==
  ASSUME NEW r, Lists(r), Held, NEW t \in Thread,
         UNCHANGED <<heads, sess, sessions>>,
         \A u \in Thread : u # t => th'[u] = th[u],
         th[t].pc \notin Busy, th'[t].pc \notin Busy
  PROVE  Lists(r)' /\ Held'
<1>1. Lists(r)'
  BY ListsSame, Zenon
<1>2. Held'
  BY ThreadFacts DEF Held, Busy
<1> QED
  BY <1>1, <1>2, Zenon

(* The fetcher's walk when it begins, and when it goes on. *)
LEMMA WalkBegins ==
  ASSUME Typed, NEW r, Lists(r), NEW k \in Key, fetcher_callback(k)
  PROVE  Ahead(r, Linked)'
<1>0. /\ Hash[k] \in Bucket /\ sess' = sess /\ th'[Fetcher].pc = "walk"
      /\ th'[Fetcher].key = k /\ th'[Fetcher].cur = hnext[Hash[k]]
  BY SessionTableAssumption, ThreadFacts, Zenon DEF Typed, ThreadsTyped, fetcher_callback, StartWalk
<1>1. Linked' = Linked /\ Known' = Known /\ \A s : Place(s)' = Place(s)
  BY <1>0, Zenon DEF Linked, Known, Place
<1>2. Linked \subseteq Known
  BY Zenon DEF Linked, Known
<1>3. /\ hnext[Hash[k]] # Nil => hnext[Hash[k]] \in Linked /\ Place(hnext[Hash[k]]) = Hash[k]
      /\ \A s \in Linked : sess[s].next \in Linked \cup {Nil} /\ NoGap(r, s)
      /\ \A s \in Linked : hnext[Place(s)] # Nil /\ r[hnext[Place(s)]] <= r[s]
  BY <1>0, Zenon DEF Lists, HeadsFit, LinksFit
<1>4. \A s : NoGap(r, s)' <=> NoGap(r, s)
  BY <1>0, Zenon DEF NoGap, Linked, Place
<1>5. \A s \in Linked : sess[s].key = k => Place(s) = Hash[k]
  BY Zenon DEF Place
<1>6. Nil \notin Sess
  BY ThreadFacts, Zenon
<1>7. Place(th[Fetcher].cur)' = Place(hnext[Hash[k]])
  BY <1>0, Zenon DEF Place
<1> QED
  BY <1>0, <1>1, <1>2, <1>3, <1>4, <1>5, <1>6, <1>7, Zenon DEF Ahead

(* The fetcher's walk goes past no session of its key. *)
LEMMA WalkGoesOn ==
  ASSUME Typed, NEW r, NEW A, Ranked(r), Lists(r), Ahead(r, A), walk_next(Fetcher)
  PROVE  Ahead(r, A)'
<1> DEFINE x == th[Fetcher]
           c == x.cur
           n == sess[c].next
<1>0. /\ x.pc = "walk" /\ c \in Known /\ sess[c].mem # "freed" /\ sess[c].key # x.key
      /\ c \in Sess /\ sess' = sess
  BY ThreadFacts, Zenon DEF Typed, ThreadsTyped, ThreadFits, Bringing, walk_next, Safe, Touches, Wild, Known
<1>1. th'[Fetcher].pc = "walk" /\ th'[Fetcher].key = x.key /\ th'[Fetcher].cur = n
  BY ThreadFacts, <1>0, Zenon DEF Typed, ThreadsTyped, walk_next, ThreadType
<1>2. Linked' = Linked /\ Known' = Known /\ \A s : Place(s)' = Place(s) /\ (NoGap(r, s)' <=> NoGap(r, s))
  BY <1>0, Zenon DEF Linked, Known, Place, NoGap
<1>3. /\ Linked \subseteq A /\ A \subseteq Known /\ c \in A /\ Place(c) = Hash[x.key]
      /\ \A s \in A : sess[s].mem # "freed" => sess[s].next \in A \cup {Nil} /\ NoGap(r, s)
      /\ \A s \in Linked : sess[s].key = x.key => c # Nil /\ r[c] <= r[s]
  BY <1>0, ThreadFacts, Zenon DEF Ahead
<1>4. n \in A \cup {Nil} /\ (n \in Sess /\ sess[n].mem # "freed" => Place(n) = Hash[x.key])
  BY <1>0, <1>3, Zenon DEF Lists, SamePlace
<1>5. ASSUME NEW s \in Linked, sess[s].key = x.key
      PROVE  n # Nil /\ r[n] <= r[s]
  <2>1. s \in Known /\ s # c /\ r[s] \in Nat /\ r[c] \in Nat /\ r[c] <= r[s]
    BY <1>0, <1>3, <1>5, Zenon DEF Linked, Known, Ranked
  <2>2. r[c] < r[s]
    BY <1>0, <2>1 DEF Ranked
  <2>3. Place(s) = Place(c)
    BY <1>3, <1>5, Zenon DEF Place
  <2> QED
    BY <1>0, <1>3, <2>2, <2>3, Zenon DEF NoGap
<1>6. Place(th[Fetcher].cur)' = Place(n)
  BY <1>0, <1>1, Zenon DEF Place
<1> HIDE DEF x, c, n
<1> QED
  BY <1>0, <1>1, <1>2, <1>3, <1>4, <1>5, <1>6, Zenon DEF Ahead

(* A step that only reads the table keeps the invariant. *)
LEMMA ReadsWhole ==
  ASSUME Typed, NEW r, NEW A \in SUBSET Sess, Ranked(r), Whole(r, A), NEW t \in Thread, Reads(t)
  PROVE  \E B \in SUBSET Sess : Whole(r, B)'
<1>0. /\ UNCHANGED <<heads, sess, sessions>>
      /\ \A u \in Thread : u # t => th'[u] = th[u]
      /\ th[t].pc \notin Busy /\ th'[t].pc \notin Busy
  BY ReadsOnly, Zenon
<1>1. Lists(r)' /\ Held'
  BY <1>0, ReadsKeep, Zenon DEF Whole
<1>2. Linked' = Linked /\ sess' = sess /\ Fetcher \in Thread
  BY <1>0, ThreadFacts, Zenon DEF Linked
<1>3. CASE t # Fetcher
  <2>1. th'[Fetcher] = th[Fetcher]
    BY <1>0, <1>2, <1>3, Zenon
  <2>2. Unique' /\ Ahead(r, A)'
    BY <1>2, <2>1, Zenon DEF Whole, Unique, Ahead, NoGap, Linked, Known, Place
  <2> QED
    BY <1>1, <2>2, Zenon DEF Whole
<1>4. CASE t = Fetcher /\ insert_scan
  <2>1. th' = th
    BY <1>4, Zenon DEF insert_scan
  <2>2. Unique' /\ Ahead(r, A)'
    BY <1>2, <2>1, Zenon DEF Whole, Unique, Ahead, NoGap, Linked, Known, Place
  <2> QED
    BY <1>1, <2>2, Zenon DEF Whole
<1>5. CASE t = Fetcher /\ \E k \in Key : fetcher_callback(k)
  <2>1. Ahead(r, Linked)' /\ Linked' \in SUBSET Sess
    BY <1>5, WalkBegins, Zenon DEF Whole, Linked
  <2>2. Unique'
    <3>1. th'[Fetcher].pc = "walk"
      BY <1>2, <1>5 DEF fetcher_callback, StartWalk, Typed, ThreadsTyped
    <3> QED
      BY <1>2, <3>1, Zenon DEF Whole, Unique
  <2>3. PICK B \in SUBSET Sess : B = Linked'
    BY <2>1, Zenon
  <2>4. Ahead(r, B)'
    BY <2>1, <2>3, Zenon DEF Ahead
  <2> QED
    BY <1>1, <2>2, <2>4, Zenon DEF Whole
<1>6. CASE t = Fetcher /\ walk_next(t)
  <2>1. Ahead(r, A)'
    BY <1>6, WalkGoesOn, Zenon DEF Whole
  <2>2. th'[Fetcher].pc = "walk"
    BY <1>2, <1>6, Zenon DEF walk_next, Typed, ThreadsTyped, ThreadType
  <2>3. Unique'
    BY <1>2, <2>2, Zenon DEF Whole, Unique
  <2> QED
    BY <1>1, <2>1, <2>3, Zenon DEF Whole
<1>7. CASE t = Fetcher /\ (walk_found(t) \/ fetcher_use)
  <2>1. th'[Fetcher].pc \in {"found", "idle"}
    BY <1>2, <1>7 DEF walk_found, fetcher_use, Goto, Return, Idle, Typed, ThreadsTyped, ThreadType
  <2>2. Unique' /\ Ahead(r, A)'
    BY <1>2, <2>1 DEF Whole, Unique, Ahead
  <2> QED
    BY <1>1, <2>2, Zenon DEF Whole
<1>8. CASE t = Fetcher /\ walk_none(t)
  <2>1. /\ th[Fetcher].pc = "walk" /\ th[Fetcher].cur = Nil /\ th'[Fetcher].pc \in {"idle", "scan"}
        /\ th'[Fetcher].pc = "scan" => th'[Fetcher].key = th[Fetcher].key
    BY <1>2, <1>8 DEF walk_none, Goto, Return, Idle, Typed, ThreadsTyped, ThreadType
  <2>2. Unique' /\ Ahead(r, A)'
    BY <1>2, <2>1 DEF Whole, Unique, Ahead
  <2> QED
    BY <1>1, <2>2, Zenon DEF Whole
<1> QED
  BY <1>3, <1>4, <1>5, <1>6, <1>7, <1>8, ThreadFacts, Zenon DEF Reads

(* Only the fetcher brings sessions, and only the others take them out. *)
LEMMA WhoHolds ==
  ASSUME Typed
  PROVE  /\ \A t \in Thread : th[t].pc \in Bringing => t = Fetcher
         /\ th[Fetcher].pc \notin Holding
BY ThreadFacts, Zenon DEF Typed, ThreadsTyped, ThreadFits, PcOf, Bringing, Holding

(* Goto leaves what a thread knows as it is. *)
LEMMA GotoEffect ==
  ASSUME Typed, NEW t \in Thread, NEW pc, Goto(t, pc)
  PROVE  /\ th'[t].pc = pc /\ th'[t].cur = th[t].cur /\ th'[t].key = th[t].key
         /\ \A u \in Thread : u # t => th'[u] = th[u]
BY Zenon DEF Goto, Typed, ThreadsTyped, ThreadType

(* clearsession takes a linked session out of its list, and its neighbors  *)
(* in the list close the gap.                                              *)
LEMMA UnlinkWhole ==
  ASSUME Typed, NEW r, NEW A, Ranked(r), Whole(r, A), NEW t \in Thread, t # Fetcher,
         clear_unlink(t), sess[th[t].cur].mem = "linked"
  PROVE  Whole(r, A)'
<1> DEFINE s == th[t].cur
           n == sess[s].next
           p == sess[s].prev
<1>0. /\ s \in Sess /\ s \in Linked /\ Unlinks(s, n, p) /\ Nil \notin Sess
      /\ th[t].pc = "unlink" /\ UNCHANGED sessions
      /\ th'[t].pc = "count" /\ th'[t].cur = s
      /\ \A u \in Thread : u # t => th'[u] = th[u]
      /\ Fetcher \in Thread /\ th'[Fetcher] = th[Fetcher]
  BY UnlinkEffect, ThreadFacts, GotoEffect, Zenon DEF Linked, clear_unlink
<1>1. Lists(r)'
  BY UnlinkLists, Zenon DEF Whole
<1>2. Known' = Known
  BY UnlinkTyped, Zenon
<1>3. n = sess[s].next /\ p = sess[s].prev /\ (p # Nil => p \in Linked /\ p # s)
  BY <1>0 DEF Whole, Lists, LinksFit, Ranked, Linked
<1> HIDE DEF s, n, p
<1>4. /\ \A x \in Sess : /\ sess'[x].mem = IF x = s THEN "out" ELSE sess[x].mem
                         /\ sess'[x].key = sess[x].key /\ sess'[x].queue = sess[x].queue
                         /\ sess'[x].next = IF x = p /\ x # s THEN n ELSE sess[x].next
      /\ Linked' = Linked \ {s} /\ \A x \in Sess : Place(x)' = Place(x)
  BY <1>0 DEF Unlinks, Linked, Place
<1>5. Held'
  <2>1. \A u \in Thread : th[u].pc \in Holding => th[u].cur # s /\ u # t
    BY <1>0, Zenon DEF Whole, Held, Linked, Holding
  <2>2. th'[t].pc \in Holding
    BY <1>0, Zenon DEF Holding
  <2> QED
    BY <1>0, <1>4, <2>1, <2>2 DEF Whole, Held
<1>7. Unique'
  <2>1. \A x \in Linked' : x \in Linked /\ x \in Sess
    BY <1>4, Zenon DEF Linked
  <2> QED
    BY <1>0, <1>4, <2>1 DEF Whole, Unique
<1>8. Ahead(r, A)'
  <2> SUFFICES ASSUME th[Fetcher].pc = "walk" PROVE Ahead(r, A)'
    BY <1>0, Zenon DEF Ahead
  <2> DEFINE x == th[Fetcher]
  <2>0. /\ Linked \subseteq A /\ A \subseteq Known /\ x.cur \in A \cup {Nil}
        /\ x.cur \in Sess /\ sess[x.cur].mem # "freed" => Place(x.cur) = Hash[x.key]
        /\ \A a \in A : sess[a].mem # "freed" => sess[a].next \in A \cup {Nil} /\ NoGap(r, a)
        /\ \A y \in Linked : sess[y].key = x.key => x.cur # Nil /\ r[x.cur] <= r[y]
    BY Zenon DEF Whole, Ahead
  <2>1. A \subseteq Sess /\ \A y \in Linked' : y \in Linked /\ y \in Sess
    BY <1>4, <2>0, Zenon DEF Known, Linked
  <2>2. ASSUME NEW a \in A, sess'[a].mem # "freed"
        PROVE  sess'[a].next \in A \cup {Nil} /\ NoGap(r, a)'
    <3>1. sess[a].mem # "freed" /\ sess[s].mem # "freed" /\ a \in Sess
      BY <1>0, <1>4, <2>1, <2>2, Zenon DEF Linked
    <3>2. sess[a].next \in A \cup {Nil} /\ n \in A \cup {Nil} /\ NoGap(r, a)
      BY <1>0, <1>3, <2>0, <3>1, Zenon
    <3>3. CASE a = p
      <4>1. a \in Linked'
        BY <1>0, <1>3, <1>4, <3>1, <3>3, Zenon
      <4> QED
        BY <1>1, <1>4, <3>1, <3>2, <3>3, <4>1 DEF Lists, LinksFit
    <3>4. CASE a # p
      <4>1. sess'[a].next = sess[a].next
        BY <1>4, <3>1, <3>4, Zenon
      <4> QED
        BY <1>4, <2>1, <3>1, <3>2, <4>1 DEF NoGap
    <3> QED
      BY <3>3, <3>4, Zenon
  <2>3. x.cur \in Sess /\ sess'[x.cur].mem # "freed" => Hash[sess'[x.cur].key] = Hash[x.key]
    BY <1>0, <1>4, <2>0, Zenon DEF Linked, Place
  <2>4. \A y \in Linked' : sess'[y].key = x.key => x.cur # Nil /\ r[x.cur] <= r[y]
    BY <1>4, <2>0, <2>1, Zenon
  <2>5. Linked' \subseteq A /\ A \subseteq Known'
    BY <1>2, <1>4, <2>0, Zenon
  <2>6. th'[Fetcher] = x /\ x.cur \in A \cup {Nil}
    BY <1>0, <2>0, Zenon
  <2> HIDE DEF x
  <2> QED
    BY <2>2, <2>3, <2>4, <2>5, <2>6, Zenon DEF Ahead, Place
<1> QED
  BY <1>1, <1>5, <1>7, <1>8, Zenon DEF Whole

(* insertsession links its session behind all others, so it gets the       *)
(* highest rank.                                                           *)
LEMMA LinkWhole ==
  ASSUME Typed, NEW r, NEW A, Ranked(r), Whole(r, A), Empties, insert_link,
         NEW f \in [Sess -> Nat],
         \A x \in Sess : x # th[Fetcher].cur => f[x] = r[x] /\ f[x] < f[th[Fetcher].cur]
  PROVE  Whole(f, A)'
<1> DEFINE s == th[Fetcher].cur
           l == LastOf(Hash[th[Fetcher].key])
<1>0. /\ s \in Sess /\ sess[s].mem = "new" /\ sess[s].key = th[Fetcher].key /\ Links(s, l)
      /\ UNCHANGED sessions /\ th[Fetcher].pc = "link" /\ th'[Fetcher].pc = "found"
      /\ \A u \in Thread : u # Fetcher => th'[u] = th[u]
      /\ Fetcher \in Thread
  BY LinkEffect, ThreadFacts, GotoEffect, Zenon DEF insert_link
<1>1. Lists(f)'
  BY LinkLists, Zenon DEF Whole
<1>2. s = th[Fetcher].cur
  BY Zenon
<1> HIDE DEF s, l
<1>3. /\ \A x \in Sess : /\ sess'[x].mem = IF x = s THEN "linked" ELSE sess[x].mem
                         /\ sess'[x].key = sess[x].key /\ sess'[x].queue = sess[x].queue
      /\ Linked' = Linked \cup {s}
  BY <1>0 DEF Links, Linked
<1>4. Held'
  <2>1. \A u \in Thread : th[u].pc \in Holding => th[u].cur # s /\ u # Fetcher
    BY <1>0, Zenon DEF Whole, Held, Holding
  <2>2. th'[Fetcher].pc \notin Holding
    BY <1>0, Zenon DEF Holding
  <2> QED
    BY <1>0, <1>2, <1>3, <2>1, <2>2 DEF Whole, Held
<1>6. Unique'
  <2>1. \A x \in Linked : x \in Sess /\ sess[x].key # sess[s].key
    BY <1>0, Zenon DEF Whole, Unique, Linked
  <2> QED
    BY <1>0, <1>3, <2>1 DEF Whole, Unique
<1>7. Ahead(f, A)'
  BY <1>0, Zenon DEF Ahead
<1> QED
  BY <1>1, <1>4, <1>6, <1>7, Zenon DEF Whole

(* A session that is not in a list may change without the lists, when      *)
(* nothing that leads to it can be followed.                               *)
LEMMA ListsApart ==
  ASSUME Typed, NEW r, Lists(r), UNCHANGED heads, NEW s \in Sess, s \notin Linked,
         sess' \in [Sess -> SessionType], \A x \in Sess : x # s => sess'[x] = sess[x],
         sess'[s].next = Nil, sess'[s].prev = Nil, sess'[s].mem # "linked",
         s \in Known => sess'[s].mem = "freed"
  PROVE  Lists(r)'
<1>0. /\ Linked' = Linked /\ \A x \in Linked : x \in Sess /\ sess'[x] = sess[x] /\ Place(x)' = Place(x)
      /\ hnext' = hnext /\ hprev' = hprev /\ Nil \notin Sess
  BY ThreadFacts, Zenon DEF Linked, Place, heads
<1>1. HeadsFit'
  BY <1>0 DEF Lists, HeadsFit, Place
<1>2. \A x \in Linked : NoGap(r, x)' <=> NoGap(r, x)
  BY <1>0 DEF NoGap
<1>3. LinksFit(r)'
  BY <1>0, <1>2 DEF Lists, LinksFit
<1>4. SamePlace'
  <2> SUFFICES ASSUME NEW x \in Sess
               PROVE  /\ sess'[x].next \in Sess /\ sess'[sess'[x].next].mem # "freed" =>
                           Place(sess[x].next)' = Place(x)'
                      /\ sess'[x].prev \in Sess /\ sess'[sess'[x].prev].mem # "freed" =>
                           Place(sess[x].prev)' = Place(x)'
    BY Zenon DEF SamePlace
  <2>1. CASE x = s
    BY <1>0, <2>1, Zenon
  <2>2. CASE x # s
    <3>1. sess'[x] = sess[x] /\ sess[x].next \in Known \cup {Nil} /\ sess[x].prev \in Known \cup {Nil}
      BY <2>2, Zenon DEF Typed, TableTyped
    <3>2. /\ sess[x].next \in Sess /\ sess[sess[x].next].mem # "freed" => Place(sess[x].next) = Place(x)
          /\ sess[x].prev \in Sess /\ sess[sess[x].prev].mem # "freed" => Place(sess[x].prev) = Place(x)
      BY Zenon DEF Lists, SamePlace
    <3> QED
      BY <1>0, <2>2, <3>1, <3>2 DEF Place
  <2> QED
    BY <2>1, <2>2, Zenon
<1> QED
  BY <1>1, <1>3, <1>4, Zenon DEF Lists

(* A new session is in no list. *)
LEMMA CallocWhole ==
  ASSUME Typed, NEW r, NEW A, Whole(r, A), insert_calloc
  PROVE  Whole(r, A)'
<1>0. /\ Fetcher \in Thread /\ th \in [Thread -> ThreadType] /\ sess \in [Sess -> SessionType]
      /\ th[Fetcher].pc = "scan" /\ th[Fetcher].key \in Key /\ scan.queuenum \in Worker
      /\ UNCHANGED <<heads, sessions>>
  BY ThreadFacts, Zenon DEF Typed, TableTyped, ThreadsTyped, RestTyped, ThreadFits, insert_calloc
<1>1. PICK s \in Sess :
        /\ sess[s].mem = "unused"
        /\ sess' = [sess EXCEPT ![s] =
             [mem |-> "new", key |-> th[Fetcher].key, queue |-> scan.queuenum,
              next |-> Nil, prev |-> Nil]]
        /\ th' = [th EXCEPT ![Fetcher].pc = "increment", ![Fetcher].cur = s]
  BY Zenon DEF insert_calloc
<1>2. /\ sess'[s].mem = "new" /\ sess'[s].next = Nil /\ sess'[s].prev = Nil
      /\ sess'[s].key = th[Fetcher].key
      /\ \A x \in Sess : x # s => sess'[x] = sess[x]
      /\ sess' \in [Sess -> SessionType]
  <2>1. sess' \in [Sess -> SessionType]
    BY CallocTyped, Zenon DEF TableTyped
  <2> QED
    BY <1>0, <1>1, <2>1, Zenon
<1>3. /\ th'[Fetcher].pc = "increment" /\ th'[Fetcher].cur = s /\ th'[Fetcher].key = th[Fetcher].key
      /\ \A u \in Thread : u # Fetcher => th'[u] = th[u]
  BY <1>0, <1>1, Zenon DEF ThreadType
<1>4. s \notin Linked /\ s \notin Known /\ Linked' = Linked
  BY <1>1, <1>2, Zenon DEF Linked, Known
<1>5. Lists(r)'
  BY <1>0, <1>2, <1>4, ListsApart, Zenon DEF Whole
<1>6. \A u \in Thread : th[u].pc \in Holding => th[u].cur # s /\ u # Fetcher
  BY <1>0, <1>1, Zenon DEF Whole, Held, Holding
<1>7. Held'
  <2>1. th'[Fetcher].pc \notin Holding /\ th'[Fetcher].pc \in Bringing /\ th[Fetcher].pc \notin Bringing
    BY <1>0, <1>3, Zenon DEF Holding, Bringing
  <2> QED
    BY <1>0, <1>1, <1>2, <1>3, <1>6, <2>1 DEF Whole, Held
<1>10. Unique'
  <2>1. \A x \in Linked : sess'[x] = sess[x]
    BY <1>2, <1>4, Zenon DEF Linked
  <2> QED
    BY <1>0, <1>3, <1>4, <2>1 DEF Whole, Unique
<1>11. Ahead(r, A)'
  BY <1>3, Zenon DEF Ahead
<1> QED
  BY <1>5, <1>7, <1>10, <1>11, Zenon DEF Whole

(* The workers' counts are not of the table. *)
LEMMA IncrementWhole ==
  ASSUME Typed, NEW r, NEW A, Whole(r, A), increment_worker_sessions
  PROVE  Whole(r, A)'
<1> DEFINE s == th[Fetcher].cur
<1>0. /\ Fetcher \in Thread /\ UNCHANGED <<heads, sess>> /\ th[Fetcher].pc = "increment"
      /\ th'[Fetcher].pc = "link" /\ th'[Fetcher].cur = s /\ th'[Fetcher].key = th[Fetcher].key
      /\ \A u \in Thread : u # Fetcher => th'[u] = th[u]
  BY ThreadFacts, GotoEffect, Zenon DEF increment_worker_sessions
<1>1. s = th[Fetcher].cur
  BY Zenon
<1> HIDE DEF s
<1>2. Lists(r)'
  BY <1>0, ListsSame, Zenon DEF Whole
<1>3. Held'
  BY <1>0, <1>1 DEF Whole, Held, Holding, Bringing
<1>4. Unique' /\ Ahead(r, A)'
  BY <1>0, Zenon DEF Whole, Unique, Linked, Ahead
<1> QED
  BY <1>2, <1>3, <1>4, Zenon DEF Whole

(* Counting a session out changes no list. *)
LEMMA DecrementWhole ==
  ASSUME Typed, NEW r, NEW A, Whole(r, A), NEW t \in Thread, t # Fetcher,
         decrement_worker_sessions(t)
  PROVE  Whole(r, A)'
<1> DEFINE s == th[t].cur
<1>0. /\ Fetcher \in Thread /\ UNCHANGED <<heads, sess>> /\ th[t].pc = "count"
      /\ th'[t].pc = "free" /\ th'[t].cur = s
      /\ \A u \in Thread : u # t => th'[u] = th[u]
      /\ th'[Fetcher] = th[Fetcher]
  BY ThreadFacts, GotoEffect, Zenon DEF decrement_worker_sessions
<1>1. s = th[t].cur
  BY Zenon
<1> HIDE DEF s
<1>2. Lists(r)'
  BY <1>0, ListsSame, Zenon DEF Whole
<1>3. Held'
  BY <1>0, <1>1 DEF Whole, Held, Holding, Bringing
<1>4. Unique' /\ Ahead(r, A)'
  BY <1>0 DEF Whole, Unique, Ahead, NoGap, Linked, Known, Place
<1> QED
  BY <1>2, <1>3, <1>4, Zenon DEF Whole

(* Freeing a session changes no list: it is in none. *)
LEMMA FreeWhole ==
  ASSUME Typed, NEW r, NEW A, Whole(r, A), NEW t \in Thread, t # Fetcher, clear_free(t)
  PROVE  Whole(r, A)'
<1> DEFINE s == th[t].cur
<1>0. /\ s \in Sess /\ sess[s].mem = "out" /\ Fetcher \in Thread /\ th[t].pc = "free"
      /\ UNCHANGED <<heads, sessions>> /\ Known' = Known
      /\ sess' \in [Sess -> SessionType] /\ sess \in [Sess -> SessionType]
      /\ sess' = [sess EXCEPT ![s] = [mem |-> "freed", key |-> Nil, queue |-> Nil,
                                     next |-> Nil, prev |-> Nil]]
  BY FreeEffect, ThreadFacts, Zenon DEF Typed, TableTyped, clear_free, Whole, Held, Holding
<1>1. /\ sess'[s].mem = "freed" /\ sess'[s].next = Nil /\ sess'[s].prev = Nil
      /\ \A x \in Sess : x # s => sess'[x] = sess[x]
  BY <1>0, Zenon
<1>2. /\ th'[t].pc \in {"visit", "idle"}
      /\ \A u \in Thread : u # t => th'[u] = th[u]
      /\ th'[Fetcher] = th[Fetcher]
  <2>0. th \in [Thread -> ThreadType]
    BY Zenon DEF Typed, ThreadsTyped
  <2>1. CASE t = Cleanup
    <3>1. th' = [th EXCEPT ![t].pc = "visit", ![t].cur = th[t].at, ![t].at = Nil]
      BY <2>1, Zenon DEF clear_free
    <3> QED
      BY <1>0, <2>0, <3>1, Zenon DEF ThreadType
  <2>2. CASE t # Cleanup
    BY <1>0, <2>0, <2>2 DEF clear_free, Return, Idle
  <2> QED
    BY <2>1, <2>2, Zenon
<1>3. s = th[t].cur
  BY Zenon
<1> HIDE DEF s
<1>4. s \notin Linked /\ Linked' = Linked /\ \A x \in Linked : x \in Sess /\ x # s
  BY <1>0, <1>1, Zenon DEF Linked
<1>5. Lists(r)'
  BY <1>0, <1>1, <1>4, ListsApart, Zenon DEF Whole
<1>6. th[t].pc \in Holding /\ \A u \in Thread : th[u].pc \in Holding /\ th[u].cur = s => u = t
  BY <1>0, <1>3, Zenon DEF Whole, Held, Holding
<1>7. Held'
  <2>1. th'[t].pc \notin Holding
    BY <1>2, Zenon DEF Holding
  <2> QED
    BY <1>0, <1>1, <1>2, <1>3, <1>6, <2>1 DEF Whole, Held
<1>10. Unique'
  BY <1>1, <1>2, <1>4 DEF Whole, Unique
<1>11. Ahead(r, A)'
  <2> SUFFICES ASSUME th[Fetcher].pc = "walk" PROVE Ahead(r, A)'
    BY <1>2, Zenon DEF Ahead
  <2> DEFINE x == th[Fetcher]
  <2>0. /\ Linked \subseteq A /\ A \subseteq Known /\ x.cur \in A \cup {Nil}
        /\ x.cur \in Sess /\ sess[x.cur].mem # "freed" => Place(x.cur) = Hash[x.key]
        /\ \A a \in A : sess[a].mem # "freed" => sess[a].next \in A \cup {Nil} /\ NoGap(r, a)
        /\ \A y \in Linked : sess[y].key = x.key => x.cur # Nil /\ r[x.cur] <= r[y]
    BY Zenon DEF Whole, Ahead
  <2>1. A \subseteq Sess
    BY <2>0, Zenon DEF Known
  <2>2. ASSUME NEW a \in A, sess'[a].mem # "freed"
        PROVE  sess'[a].next \in A \cup {Nil} /\ NoGap(r, a)'
    <3>1. a # s /\ sess'[a] = sess[a]
      BY <1>1, <2>1, <2>2, Zenon
    <3> QED
      BY <1>1, <1>4, <2>0, <2>2, <3>1 DEF NoGap, Place
  <2>3. x.cur \in Sess /\ sess'[x.cur].mem # "freed" => Hash[sess'[x.cur].key] = Hash[x.key]
    BY <1>0, <1>1, <2>0, Zenon DEF Place
  <2>4. \A y \in Linked' : sess'[y].key = x.key => x.cur # Nil /\ r[x.cur] <= r[y]
    BY <1>1, <1>4, <2>0, Zenon
  <2>5. Linked' \subseteq A /\ A \subseteq Known'
    BY <1>0, <1>4, <2>0, Zenon
  <2>6. th'[Fetcher] = x /\ x.cur \in A \cup {Nil}
    BY <1>2, <2>0, Zenon
  <2> HIDE DEF x
  <2> QED
    BY <2>2, <2>3, <2>4, <2>5, <2>6, Zenon DEF Ahead, Place
<1> QED
  BY <1>5, <1>7, <1>10, <1>11, Zenon DEF Whole

-----------------------------------------------------------------------------
(* Nothing is in the table at first. *)
LEMMA InitTable == Init => TableInv
<1> SUFFICES ASSUME Init PROVE TableInv
  BY Zenon
<1> USE DEF Init
<1>1. /\ \A s \in Sess : sess[s] = Unused
      /\ \A t \in Thread : th[t] = Idle
      /\ Known = {} /\ Linked = {} /\ Nil \notin Sess
  BY ThreadFacts, Zenon DEF Known, Linked, Unused
<1>2. Typed
  <2>1. TableTyped
    <3>1. Unused \in SessionType
      BY Zenon DEF Unused, SessionType
    <3>2. 0 \in 0 .. Modulus - 1
      BY ModulusFacts
    <3> QED
      BY <1>1, <3>1, <3>2, Zenon DEF TableTyped, Unused
  <2>2. ThreadsTyped
    <3>1. Idle \in ThreadType /\ \A t \in Thread : ThreadFits(t, Idle)
      BY Zenon DEF Idle, ThreadType, Pc, ThreadFits, PcOf, Bringing
    <3> QED
      BY <1>1, <3>1, Zenon DEF ThreadsTyped
  <2>3. RestTyped
    <3>1. 0 \in 0 .. Modulus - 1 /\ 0 \in Worker /\ 0 \in 0 .. Workers
      BY ModulusFacts, ThreadFacts, SessionTableAssumption
    <3> QED
      BY <3>1, Zenon DEF RestTyped
  <2> QED
    BY <2>1, <2>2, <2>3 DEF Typed
<1> DEFINE f == [s \in Sess |-> 0]
<1>3. Ranked(f)
  <2>1. f \in [Sess -> Nat] /\ \E m \in Nat : \A s \in Sess : f[s] <= m
    OBVIOUS
  <2> QED
    BY <1>1, <2>1, Zenon DEF Ranked, Unused
<1>4. Lists(f)
  <2>1. HeadsFit /\ LinksFit(f)
    BY <1>1, Zenon DEF HeadsFit, LinksFit
  <2>2. SamePlace
    BY <1>1, Zenon DEF SamePlace, Unused
  <2> QED
    BY <2>1, <2>2, Zenon DEF Lists
<1>5. Held
  BY <1>1, Zenon DEF Held, Holding, Bringing, Idle, Unused
<1>7. Unique /\ Ahead(f, {})
  BY <1>1, ThreadFacts, Zenon DEF Unique, Ahead, Idle
<1>8. f \in [Sess -> Nat]
  BY Zenon
<1> HIDE DEF f, Init
<1> QED
  BY <1>2, <1>3, <1>4, <1>5, <1>7, <1>8, Zenon DEF TableInv, Whole

(* The steps: reading, what the fetcher inserts, what the others clear. *)
LEMMA NextSplits ==
  ASSUME Next
  PROVE  \/ \E t \in Thread : Reads(t) \/ use_after_free(t)
         \/ insert_calloc \/ increment_worker_sessions \/ insert_link
         \/ \E t \in Thread \ {Fetcher} :
              clear_unlink(t) \/ decrement_worker_sessions(t) \/ clear_free(t)
<1>0. Fetcher \in Thread /\ Cleanup \in Thread \ {Fetcher} /\ Processor \subseteq Thread \ {Fetcher}
  BY ThreadFacts, Zenon
<1>1. CASE \E k \in Key : fetcher_callback(k)
  BY <1>0, <1>1, Zenon DEF Reads
<1>2. CASE FetcherStep
  BY <1>0, <1>2, Zenon DEF FetcherStep, Reads
<1>3. ASSUME NEW t \in Processor, (\E k \in Key : worker_thread(t, k)) \/ ProcessorStep(t)
      PROVE  \/ Reads(t) \/ use_after_free(t)
             \/ clear_unlink(t) \/ decrement_worker_sessions(t) \/ clear_free(t)
  BY <1>3, Zenon DEF ProcessorStep, Reads
<1>4. CASE (\E b \in Bucket : cleanuplist(b)) \/ CleanupStep
  BY <1>0, <1>4, Zenon DEF CleanupStep, Reads
<1> QED
  BY <1>0, <1>1, <1>2, <1>3, <1>4, Zenon DEF Next

(* After undefined behaviour there is nothing. *)
LEMMA StaysUndefined ==
  ASSUME Typed, Next, Undefined
  PROVE  Undefined'
<1>1. PICK u \in Thread : th[u].pc = "undefined"
  BY Zenon DEF Undefined
<1>2. ASSUME NEW t \in Thread, Reads(t) PROVE t # u /\ th'[u] = th[u]
  <2>1. t # u
    BY <1>1, <1>2, Zenon DEF Reads, walk_next, walk_found, walk_none, insert_scan, fetcher_use,
       fetcher_callback, worker_use, worker_thread, cleanup_end, cleanup_visit, cleanup_advance,
       cleanup_previous, cleanuplist
  <2> QED
    BY <1>2, <2>1, ReadsOnly, Zenon
<1>3. ASSUME NEW t \in Thread, use_after_free(t) PROVE th'[u].pc = "undefined"
  BY <1>3, Zenon DEF use_after_free, Idle
<1>4. ASSUME insert_calloc \/ increment_worker_sessions \/ insert_link
      PROVE  th'[u] = th[u]
  <2>1. u # Fetcher /\ th \in [Thread -> ThreadType]
    BY <1>1, <1>4, Zenon DEF insert_calloc, increment_worker_sessions, insert_link, Typed, ThreadsTyped
  <2> QED
    BY <1>4, <2>1, Zenon DEF insert_calloc, increment_worker_sessions, insert_link, Goto
<1>5. ASSUME NEW t \in Thread, clear_unlink(t) \/ decrement_worker_sessions(t) \/ clear_free(t)
      PROVE  th'[u] = th[u]
  <2>1. u # t /\ th \in [Thread -> ThreadType]
    BY <1>1, <1>5, Zenon DEF clear_unlink, decrement_worker_sessions, clear_free, Typed, ThreadsTyped
  <2> QED
    BY <1>5, <2>1, Zenon DEF clear_unlink, decrement_worker_sessions, clear_free, Goto, Return
<1>6. th'[u].pc = "undefined"
  BY <1>1, <1>2, <1>3, <1>4, <1>5, NextSplits, Zenon
<1> QED
  BY <1>6, Zenon DEF Undefined

(* A run that is sound was sound before, and clears a session only once. *)
LEMMA SoundBefore ==
  ASSUME Typed, Next, Sound'
  PROVE  /\ Sound
         /\ \A t \in Thread : ~ use_after_free(t)
         /\ \A t \in Thread : clear_unlink(t) => sess[th[t].cur].mem = "linked"
<1>1. \A t \in Thread : ~ use_after_free(t)
  BY DEF use_after_free, Idle, Sound, Undefined
<1>2. ~ doubled' /\ doubled \in BOOLEAN /\ ~ Undefined
  BY StaysUndefined, Zenon DEF Sound, Typed, RestTyped
<1>3. \A t \in Thread : clear_unlink(t) => sess[th[t].cur].mem = "linked" /\ ~ doubled
  <2> SUFFICES ASSUME NEW t \in Thread, clear_unlink(t) PROVE sess[th[t].cur].mem = "linked" /\ ~ doubled
    BY Zenon
  <2>1. sess[th[t].cur].mem \in {"linked", "out"}
    BY UnlinkEffect, Zenon
  <2>2. doubled' = (doubled \/ sess[th[t].cur].mem = "out")
    BY Zenon DEF clear_unlink
  <2> QED
    BY <1>2, <2>1, <2>2, Zenon
<1>4. (\E t \in Thread : Reads(t)) => doubled' = doubled
  BY Zenon DEF Reads, walk_next, walk_found, walk_none, insert_scan, fetcher_use, fetcher_callback,
     worker_use, worker_thread, cleanup_end, cleanup_visit, cleanup_advance,
       cleanup_previous,
     cleanuplist
<1>5. insert_calloc \/ increment_worker_sessions \/ insert_link
      \/ (\E t \in Thread : decrement_worker_sessions(t) \/ clear_free(t)) => doubled' = doubled
  BY Zenon DEF insert_calloc, increment_worker_sessions, insert_link, decrement_worker_sessions, clear_free
<1>6. ~ doubled
  BY <1>1, <1>2, <1>3, <1>4, <1>5, NextSplits, Zenon
<1> QED
  BY <1>1, <1>2, <1>3, <1>6, Zenon DEF Sound

(* The steps that leave next and prev, or clear them, leave the ranks. *)
LEMMA RanksKept ==
  ASSUME Typed, NEW r, Ranked(r), Next, ~ insert_link
  PROVE  Ranked(r)'
<1>1. ASSUME UNCHANGED sess PROVE Ranked(r)'
  BY <1>1, Zenon DEF Ranked, Known
<1>2. CASE \E t \in Thread : Reads(t) \/ use_after_free(t)
  BY <1>1, <1>2, ReadsOnly, Zenon DEF use_after_free
<1>3. CASE insert_calloc
  <2>1. Known' = Known
    BY <1>3, CallocTyped, Zenon
  <2>2. PICK s \in Sess :
          sess' = [sess EXCEPT ![s] =
             [mem |-> "new", key |-> th[Fetcher].key, queue |-> scan.queuenum,
              next |-> Nil, prev |-> Nil]]
    BY <1>3, Zenon DEF insert_calloc
  <2>3. \A x \in Sess : sess'[x].next \in {sess[x].next, Nil} /\ sess'[x].prev \in {sess[x].prev, Nil}
    BY <2>2, Zenon DEF Typed, TableTyped
  <2> QED
    BY <2>1, <2>3, OtherRanked, Zenon
<1>4. CASE increment_worker_sessions \/ \E t \in Thread : decrement_worker_sessions(t)
  BY <1>1, <1>4, Zenon DEF increment_worker_sessions, decrement_worker_sessions
<1>5. CASE \E t \in Thread \ {Fetcher} : clear_unlink(t)
  BY <1>5, UnlinkRanked, Zenon
<1>6. CASE \E t \in Thread \ {Fetcher} : clear_free(t)
  <2>1. PICK t \in Thread \ {Fetcher} : clear_free(t)
    BY <1>6, Zenon
  <2>2. /\ Known' = Known
        /\ sess' = [sess EXCEPT ![th[t].cur] =
              [mem |-> "freed", key |-> Nil, queue |-> Nil, next |-> Nil, prev |-> Nil]]
    BY <2>1, FreeEffect, Zenon
  <2>3. \A x \in Sess : sess'[x].next \in {sess[x].next, Nil} /\ sess'[x].prev \in {sess[x].prev, Nil}
    BY <2>2, Zenon DEF Typed, TableTyped
  <2> QED
    BY <2>2, <2>3, OtherRanked, Zenon
<1> QED
  BY <1>2, <1>3, <1>4, <1>5, <1>6, NextSplits, Zenon

(* Every step of every thread keeps the invariant of the table. *)
LEMMA StepTable ==
  TableInv /\ (Sound => Empties) /\ [Next]_vars => TableInv'
<1> SUFFICES ASSUME TableInv, Sound => Empties, [Next]_vars PROVE TableInv'
  BY Zenon
<1>0. PICK r \in [Sess -> Nat], A \in SUBSET Sess : Ranked(r) /\ (Sound => Whole(r, A))
  BY Zenon DEF TableInv
<1>1. Typed /\ Ranked(r) /\ (Sound => Whole(r, A))
  BY <1>0, Zenon DEF TableInv
<1>2. Typed'
  BY <1>1, NextTyped, Zenon
<1>3. ASSUME NEW f \in [Sess -> Nat], NEW B \in SUBSET Sess, Ranked(f)', Sound' => Whole(f, B)'
      PROVE  TableInv'
  BY <1>2, <1>3, Zenon DEF TableInv
<1>4. CASE UNCHANGED vars
  <2>1. Ranked(r)' /\ (Sound' => Whole(r, A)')
    <3>1. Ranked(r)'
      BY <1>1, <1>4, Zenon DEF vars, Ranked, Known
    <3>2. Sound' => Sound
      BY <1>4, Zenon DEF vars, Sound, Undefined
    <3>3. Whole(r, A) => Lists(r)' /\ Held' /\ Unique'
      <4>1. Lists(r) => Lists(r)'
        BY <1>4, ListsSame, Zenon DEF vars, heads
      <4> QED
        BY <1>4, <4>1, Zenon DEF vars, Whole, Held, Unique, Linked
    <3>4. Whole(r, A) => Ahead(r, A)'
      BY <1>4, Zenon DEF vars, Whole, Ahead, NoGap, Linked, Known, Place
    <3> QED
      BY <1>1, <3>1, <3>2, <3>3, <3>4, Zenon DEF Whole
  <2> QED
    BY <1>3, <2>1, Zenon
<1>5. CASE Next /\ insert_link
  <2>1. PICK f \in [Sess -> Nat] :
          /\ \A x \in Sess : x # th[Fetcher].cur => f[x] = r[x] /\ f[x] < f[th[Fetcher].cur]
          /\ Ranked(f)'
    BY <1>1, <1>5, LinkRanked, Zenon
  <2>2. Sound' => Whole(f, A)'
    BY <1>1, <1>5, <2>1, LinkWhole, SoundBefore, Zenon
  <2> QED
    BY <1>3, <2>1, <2>2, Zenon
<1>6. CASE Next /\ ~ insert_link
  <2>1. Ranked(r)'
    BY <1>1, <1>6, RanksKept, Zenon
  <2>2. SUFFICES ASSUME Sound' PROVE \E B \in SUBSET Sess : Whole(r, B)'
    BY <1>3, <2>1, Zenon
  <2>3. /\ Whole(r, A)
        /\ \A t \in Thread : ~ use_after_free(t)
        /\ \A t \in Thread : clear_unlink(t) => sess[th[t].cur].mem = "linked"
    BY <1>1, <1>6, <2>2, SoundBefore, Zenon
  <2>4. CASE \E t \in Thread : Reads(t)
    BY <1>1, <2>3, <2>4, ReadsWhole, Zenon
  <2>5. CASE insert_calloc
    BY <1>1, <2>3, <2>5, CallocWhole, Zenon
  <2>6. CASE increment_worker_sessions
    BY <1>1, <2>3, <2>6, IncrementWhole, Zenon
  <2>7. ASSUME NEW t \in Thread \ {Fetcher},
               clear_unlink(t) \/ decrement_worker_sessions(t) \/ clear_free(t)
        PROVE  Whole(r, A)'
    <3>1. CASE clear_unlink(t)
      BY <1>1, <2>3, <3>1, UnlinkWhole, Zenon
    <3>2. CASE decrement_worker_sessions(t)
      BY <1>1, <2>3, <3>2, DecrementWhole, Zenon
    <3>3. CASE clear_free(t)
      BY <1>1, <2>3, <3>3, FreeWhole, Zenon
    <3> QED
      BY <2>7, <3>1, <3>2, <3>3, Zenon
  <2> QED
    BY <1>6, <2>3, <2>4, <2>5, <2>6, <2>7, NextSplits, Zenon
<1> QED
  BY <1>4, <1>5, <1>6, Zenon

-----------------------------------------------------------------------------
(* The invariant says that a key has one session: the new one has a key    *)
(* that no linked one has.                                                 *)
LEMMA TableOneSession == TableInv => OneSessionPerKey
<1> SUFFICES ASSUME TableInv, Sound, NEW s \in Sess, NEW x \in Sess,
                    sess[s].mem \in {"new", "linked"}, sess[x].mem \in {"new", "linked"},
                    sess[s].key = sess[x].key
             PROVE  s = x
  BY Zenon DEF OneSessionPerKey
<1>1. Typed /\ Held /\ Unique
  BY Zenon DEF TableInv, Whole
<1>2. \A y \in Sess : sess[y].mem = "new" =>
        /\ y = th[Fetcher].cur /\ sess[y].key = th[Fetcher].key
        /\ th[Fetcher].pc \in {"increment", "link"}
  BY <1>1, ThreadFacts DEF Typed, ThreadsTyped, ThreadFits, Held, Bringing
<1> QED
  BY <1>1, <1>2, Zenon DEF Unique, Linked
-----------------------------------------------------------------------------
(* What the counters count: a list's sessions, and a worker's.             *)
\* The sessions that worker q is charged for.
Charged(q) ==
  {s \in Sess : /\ sess[s].queue = q
                /\ \/ sess[s].mem = "linked"
                   \/ \E t \in Thread : th[t].cur = s /\ th[t].pc \in {"link", "count"}}

\* A step that leaves the counters and what they count alone.
Still ==
  /\ UNCHANGED <<qlen, sessions>>
  /\ \A b \in Bucket : InList(b)' = InList(b)
  /\ \A q \in Worker : Charged(q)' = Charged(q)

(* A step that only reads the table does. *)
LEMMA ReadsStill ==
  ASSUME Typed, NEW t \in Thread, Reads(t)
  PROVE  Still
<1>1. /\ UNCHANGED <<heads, sess, sessions>>
      /\ \A u \in Thread : u # t => th'[u] = th[u]
      /\ th[t].pc \notin Busy /\ th'[t].pc \notin Busy
  BY ReadsOnly, Zenon
<1>2. \A b \in Bucket : InList(b)' = InList(b)
  BY <1>1, Zenon DEF InList
<1>3. \A q \in Worker : Charged(q)' = Charged(q)
  BY <1>1, Zenon DEF Charged, Busy, Holding, Bringing
<1> QED
  BY <1>1, <1>2, <1>3, Zenon DEF Still, heads

(* A session that is made is in no list, and not charged yet. *)
LEMMA CallocStill ==
  ASSUME Typed, Held, insert_calloc
  PROVE  Still
<1>0. /\ Fetcher \in Thread /\ th \in [Thread -> ThreadType] /\ sess \in [Sess -> SessionType]
      /\ th[Fetcher].pc = "scan" /\ UNCHANGED <<heads, sessions>>
  BY ThreadFacts, Zenon DEF Typed, TableTyped, ThreadsTyped, insert_calloc
<1>1. PICK s \in Sess :
        /\ sess[s].mem = "unused"
        /\ sess' = [sess EXCEPT ![s] =
             [mem |-> "new", key |-> th[Fetcher].key, queue |-> scan.queuenum,
              next |-> Nil, prev |-> Nil]]
        /\ th' = [th EXCEPT ![Fetcher].pc = "increment", ![Fetcher].cur = s]
  BY Zenon DEF insert_calloc
<1>2. sess'[s].mem = "new" /\ \A x \in Sess : x # s => sess'[x] = sess[x]
  BY <1>0, <1>1, Zenon
<1>3. th'[Fetcher].pc = "increment" /\ \A u \in Thread : u # Fetcher => th'[u] = th[u]
  BY <1>0, <1>1, Zenon DEF ThreadType
<1>4. \A u \in Thread : th[u].pc \in {"link", "count"} => u # Fetcher /\ th[u].cur # s
  BY <1>0, <1>1, WhoHolds, Zenon DEF Held, Holding, Bringing
<1>5. ASSUME NEW q \in Worker PROVE Charged(q)' = Charged(q)
  <2>1. ASSUME NEW x \in Sess, NEW u \in Thread
        PROVE  th'[u].cur = x /\ th'[u].pc \in {"link", "count"} <=>
               th[u].cur = x /\ th[u].pc \in {"link", "count"}
    BY <1>0, <1>3, Zenon
  <2>2. s \notin Charged(q) /\ s \notin Charged(q)'
    BY <1>1, <1>2, <1>4, <2>1, Zenon DEF Charged
  <2> QED
    BY <1>2, <2>1, <2>2 DEF Charged
<1>6. \A b \in Bucket : InList(b)' = InList(b)
  BY <1>1, <1>2, Zenon DEF InList
<1> QED
  BY <1>0, <1>5, <1>6, Zenon DEF Still, heads

(* A session that is freed was in neither any more. *)
LEMMA FreeStill ==
  ASSUME Typed, Held, NEW t \in Thread, clear_free(t)
  PROVE  Still
<1> DEFINE s == th[t].cur
<1>0. /\ th \in [Thread -> ThreadType] /\ sess \in [Sess -> SessionType]
      /\ th[t].pc = "free" /\ s \in Sess /\ sess[s].mem = "out" /\ UNCHANGED <<heads, sessions>>
      /\ sess'[s].mem = "freed" /\ \A x \in Sess : x # s => sess'[x] = sess[x]
  <2>1. th \in [Thread -> ThreadType] /\ sess \in [Sess -> SessionType]
    BY Zenon DEF Typed, TableTyped, ThreadsTyped
  <2>2. th[t].pc = "free" /\ UNCHANGED <<heads, sessions>>
    BY Zenon DEF clear_free
  <2>3. s \in Sess /\ sess[s].mem = "out"
    BY <2>2, Zenon DEF Held, Holding
  <2> QED
    BY <2>1, <2>2, <2>3, FreeEffect, Zenon
<1>1. th'[t].pc \notin {"link", "count"} /\ \A u \in Thread : u # t => th'[u] = th[u]
  BY <1>0 DEF clear_free, Return, Goto, Idle, ThreadType
<1>2. \A u \in Thread : th[u].pc \in {"link", "count"} => th[u].cur # s
  <2>1. \A u \in Thread : th[u].pc = "link" => sess[th[u].cur].mem = "new"
    BY Zenon DEF Typed, ThreadsTyped, ThreadFits, Bringing
  <2> QED
    BY <1>0, <2>1 DEF Held, Holding
<1> HIDE DEF s
<1>3. ASSUME NEW q \in Worker PROVE Charged(q)' = Charged(q)
  <2>1. ASSUME NEW x \in Sess, NEW u \in Thread
        PROVE  th'[u].cur = x /\ th'[u].pc \in {"link", "count"} <=>
               th[u].cur = x /\ th[u].pc \in {"link", "count"}
    BY <1>0, <1>1, Zenon
  <2>2. s \notin Charged(q) /\ s \notin Charged(q)'
    BY <1>0, <1>2, <2>1, Zenon DEF Charged
  <2> QED
    BY <1>0, <2>1, <2>2 DEF Charged
<1>4. \A b \in Bucket : InList(b)' = InList(b)
  BY <1>0, Zenon DEF InList
<1> QED
  BY <1>0, <1>3, <1>4, Zenon DEF Still, heads

(* insert_link adds the session to its bucket's list, and counts it there. *)
LEMMA LinkAdds ==
  ASSUME Typed, insert_link
  PROVE  LET s == th[Fetcher].cur
             b == Hash[th[Fetcher].key]
         IN  /\ s \in Sess /\ b \in Bucket /\ s \notin InList(b)
             /\ qlen' = [qlen EXCEPT ![b] = (@ + 1) % Modulus]
             /\ \A c \in Bucket : InList(c)' = IF c = b THEN InList(c) \cup {s} ELSE InList(c)
             /\ UNCHANGED sessions
             /\ \A q \in Worker : Charged(q)' = Charged(q)
<1> DEFINE s == th[Fetcher].cur
           b == Hash[th[Fetcher].key]
           l == LastOf(b)
<1>0. /\ s \in Sess /\ sess[s].mem = "new" /\ sess[s].key = th[Fetcher].key /\ Links(s, l)
      /\ b \in Bucket /\ Hash[sess[s].key] = b
      /\ UNCHANGED sessions /\ th[Fetcher].pc = "link" /\ th'[Fetcher].pc = "found"
      /\ \A u \in Thread : u # Fetcher => th'[u] = th[u]
      /\ Fetcher \in Thread
  BY LinkEffect, ThreadFacts, GotoEffect DEF insert_link
<1>1. qlen' = [qlen EXCEPT ![b] = (@ + 1) % Modulus]
  BY Zenon DEF insert_link
<1>2. s = th[Fetcher].cur
  BY Zenon
<1> HIDE DEF s, b, l
<1>3. \A x \in Sess : /\ sess'[x].mem = IF x = s THEN "linked" ELSE sess[x].mem
                      /\ sess'[x].key = sess[x].key /\ sess'[x].queue = sess[x].queue
  BY <1>0, Zenon DEF Links
<1>4. \A q \in Worker : Charged(q)' = Charged(q)
  BY <1>0, <1>2, <1>3 DEF Charged
<1>5. s \notin InList(b) /\ \A c \in Bucket :
        InList(c)' = IF c = b THEN InList(c) \cup {s} ELSE InList(c)
  BY <1>0, <1>3 DEF InList
<1> QED
  BY <1>0, <1>1, <1>4, <1>5, Zenon DEF s, b

(* clear_unlink takes it out of the list, and counts it out. *)
LEMMA UnlinkRemoves ==
  ASSUME Typed, NEW t \in Thread, clear_unlink(t), sess[th[t].cur].mem = "linked"
  PROVE  LET s == th[t].cur
             b == Place(s)
         IN  /\ b \in Bucket /\ s \in InList(b)
             /\ qlen' = [qlen EXCEPT ![b] = (@ + Modulus - 1) % Modulus]
             /\ \A c \in Bucket : InList(c)' = IF c = b THEN InList(c) \ {s} ELSE InList(c)
             /\ UNCHANGED sessions
             /\ \A q \in Worker : Charged(q)' = Charged(q)
<1> DEFINE s == th[t].cur
           n == sess[s].next
           p == sess[s].prev
           b == Place(s)
<1>0. /\ s \in Sess /\ sess[s].mem = "linked" /\ Unlinks(s, n, p) /\ b \in Bucket
      /\ Hash[sess[s].key] = b
      /\ th[t].pc = "unlink" /\ UNCHANGED sessions
      /\ th'[t].pc = "count" /\ th'[t].cur = s
      /\ \A u \in Thread : u # t => th'[u] = th[u]
  BY UnlinkEffect, GotoEffect, Zenon DEF clear_unlink, Place
<1>1. qlen' = [qlen EXCEPT ![b] = (@ + Modulus - 1) % Modulus]
  BY Zenon DEF clear_unlink, Place
<1> HIDE DEF s, n, p, b
<1>3. \A x \in Sess : /\ sess'[x].mem = IF x = s THEN "out" ELSE sess[x].mem
                      /\ sess'[x].key = sess[x].key /\ sess'[x].queue = sess[x].queue
  BY <1>0, Zenon DEF Unlinks
<1>4. \A q \in Worker : Charged(q)' = Charged(q)
  BY <1>0, <1>3 DEF Charged
<1>5. s \in InList(b) /\ \A c \in Bucket :
        InList(c)' = IF c = b THEN InList(c) \ {s} ELSE InList(c)
  BY <1>0, <1>3 DEF InList
<1> QED
  BY <1>0, <1>1, <1>4, <1>5, Zenon DEF s, b

(* A worker is charged when its count has gone up, *)
LEMMA IncrementAdds ==
  ASSUME Typed, Held, increment_worker_sessions
  PROVE  LET s == th[Fetcher].cur
             w == sess[s].queue
         IN  /\ s \in Sess /\ w \in Worker /\ s \notin Charged(w)
             /\ sessions' = [sessions EXCEPT ![w] = (@ + 1) % Modulus]
             /\ \A q \in Worker : Charged(q)' = IF q = w THEN Charged(q) \cup {s} ELSE Charged(q)
             /\ UNCHANGED qlen
             /\ \A b \in Bucket : InList(b)' = InList(b)
<1> DEFINE s == th[Fetcher].cur
           w == sess[s].queue
<1>0. /\ s \in Sess /\ sess[s].mem = "new" /\ w \in Worker /\ Fetcher \in Thread
      /\ UNCHANGED <<heads, sess>> /\ th[Fetcher].pc = "increment"
      /\ th'[Fetcher].pc = "link" /\ th'[Fetcher].cur = s
      /\ \A u \in Thread : u # Fetcher => th'[u] = th[u]
  <2>1. Fetcher \in Thread /\ th[Fetcher].pc = "increment" /\ UNCHANGED <<heads, sess>>
    BY ThreadFacts, Zenon DEF increment_worker_sessions
  <2>2. s \in Sess /\ sess[s].mem = "new" /\ w \in Worker
    BY <2>1, Zenon DEF Typed, TableTyped, ThreadsTyped, ThreadFits, Bringing
  <2> QED
    BY <2>1, <2>2, GotoEffect, Zenon DEF increment_worker_sessions
<1>1. sessions' = [sessions EXCEPT ![w] = (@ + 1) % Modulus]
  BY Zenon DEF increment_worker_sessions
<1>2. s = th[Fetcher].cur /\ w = sess[s].queue
  BY Zenon
<1> HIDE DEF s, w
<1>4. \A u \in Thread : th[u].pc \in {"link", "count"} => u # Fetcher /\ th[u].cur # s
  BY <1>0, WhoHolds, Zenon DEF Held, Bringing, Holding
<1>6. \A q \in Worker : Charged(q)' = IF q = w THEN Charged(q) \cup {s} ELSE Charged(q)
  BY <1>0, <1>2, <1>4 DEF Charged
<1>7. s \notin Charged(w)
  BY <1>0, <1>4, Zenon DEF Charged
<1>8. UNCHANGED qlen /\ \A b \in Bucket : InList(b)' = InList(b)
  BY <1>0, Zenon DEF heads, InList
<1> QED
  BY <1>0, <1>1, <1>6, <1>7, <1>8, Zenon DEF s, w

(* and no longer when it has gone down. *)
LEMMA DecrementRemoves ==
  ASSUME Typed, Held, NEW t \in Thread, decrement_worker_sessions(t)
  PROVE  LET s == th[t].cur
             w == sess[s].queue
         IN  /\ w \in Worker /\ s \in Charged(w)
             /\ sessions' = [sessions EXCEPT ![w] = (@ + Modulus - 1) % Modulus]
             /\ \A q \in Worker : Charged(q)' = IF q = w THEN Charged(q) \ {s} ELSE Charged(q)
             /\ UNCHANGED qlen
             /\ \A b \in Bucket : InList(b)' = InList(b)
<1> DEFINE s == th[t].cur
           w == sess[s].queue
<1>0. /\ s \in Sess /\ sess[s].mem = "out" /\ w \in Worker
      /\ UNCHANGED <<heads, sess>> /\ th[t].pc = "count" /\ th'[t].pc = "free"
      /\ \A u \in Thread : u # t => th'[u] = th[u]
  <2>1. th[t].pc = "count" /\ UNCHANGED <<heads, sess>>
    BY Zenon DEF decrement_worker_sessions
  <2>2. s \in Sess /\ sess[s].mem = "out"
    BY <2>1, Zenon DEF Held, Holding
  <2>3. w \in Worker
    BY <2>2, Zenon DEF Typed, TableTyped
  <2> QED
    BY <2>1, <2>2, <2>3, GotoEffect, Zenon DEF decrement_worker_sessions
<1>1. sessions' = [sessions EXCEPT ![w] = (@ + Modulus - 1) % Modulus]
  BY Zenon DEF decrement_worker_sessions
<1>2. s = th[t].cur /\ w = sess[s].queue
  BY Zenon
<1> HIDE DEF s, w
<1>4. \A u \in Thread : th[u].pc \in {"link", "count"} /\ th[u].cur = s => u = t
  <2>1. \A u \in Thread : th[u].pc = "link" => sess[th[u].cur].mem = "new"
    BY Zenon DEF Typed, ThreadsTyped, ThreadFits, Bringing
  <2> QED
    BY <1>0, <1>2, <2>1 DEF Held, Holding
<1>6. \A q \in Worker : Charged(q)' = IF q = w THEN Charged(q) \ {s} ELSE Charged(q)
  BY <1>0, <1>2, <1>4 DEF Charged
<1>7. s \in Charged(w)
  BY <1>0, <1>2, Zenon DEF Charged
<1>8. UNCHANGED qlen /\ \A b \in Bucket : InList(b)' = InList(b)
  BY <1>0, Zenon DEF heads, InList
<1> QED
  BY <1>0, <1>1, <1>6, <1>7, <1>8, Zenon DEF s, w
-----------------------------------------------------------------------------
(* The counters *)

\* What the proofs take from the library: a set of numbers has a least one, and the
\* sizes of sets.  It is proved at the end, and only there the library is in sight.
LeastNumber == \A T \in SUBSET Nat : T # {} => \E x \in T : \A y \in T : x <= y
FewElements == Cardinality({}) = 0 /\ \A x : Cardinality({x}) = 1
Intervals == \A n \in Nat : IsFiniteSet(0 .. n - 1) /\ Cardinality(0 .. n - 1) = n
FiniteSizes == \A S : IsFiniteSet(S) => /\ Cardinality(S) \in Nat
                                        /\ Cardinality(S) = 0 <=> S = {}
FiniteParts == \A S : IsFiniteSet(S) =>
  \A T \in SUBSET S : IsFiniteSet(T) /\ Cardinality(T) <= Cardinality(S)
OneMore == \A S, x : IsFiniteSet(S) /\ x \notin S => Cardinality(S \cup {x}) = Cardinality(S) + 1
OneLess == \A S, x : IsFiniteSet(S) /\ x \in S => Cardinality(S \ {x}) = Cardinality(S) - 1
Unions == \A S, T : IsFiniteSet(S) /\ IsFiniteSet(T) =>
  Cardinality(S \cup T) = Cardinality(S) + Cardinality(T) - Cardinality(S \cap T)
SameSize == \A S, T : \A f \in [S -> T] :
  /\ IsFiniteSet(S)
  /\ \A x, y \in S : f[x] = f[y] => x = y
  /\ \A t \in T : \E x \in S : f[x] = t
  => Cardinality(T) = Cardinality(S)
PigeonHole == \A S, T : \A f \in [S -> T] :
  IsFiniteSet(S) /\ IsFiniteSet(T) /\ Cardinality(T) < Cardinality(S) =>
    \E x, y \in S : x # y /\ f[x] = f[y]
Library ==
  /\ LeastNumber /\ FewElements /\ Intervals /\ FiniteSizes /\ FiniteParts
  /\ OneMore /\ OneLess /\ Unions /\ SameSize /\ PigeonHole

Lengths == \A b \in Bucket : qlen[b] = Cardinality(InList(b))
Counts == \A q \in Worker : sessions[q] = Cardinality(Charged(q))

\* The inductive invariant.
Inv == TableInv /\ (Sound => Lengths /\ Counts)

(* The counters are large enough for what they count: some of the sessions. *)
LEMMA SizeFacts ==
  ASSUME Library, NEW S \in SUBSET Sess
  PROVE  /\ IsFiniteSet(S) /\ Cardinality(S) \in 0 .. Modulus - 1
         /\ Cardinality(S) = 0 <=> S = {}
<1>1. /\ IsFiniteSet(Sess) /\ Cardinality(Sess) \in Nat
      /\ Modulus \in Nat /\ Cardinality(Sess) < Modulus
  BY SessionTableAssumption, Zenon DEF Library, FiniteSizes
<1>2. IsFiniteSet(S) /\ Cardinality(S) <= Cardinality(Sess)
  BY <1>1, Zenon DEF Library, FiniteParts
<1>3. Cardinality(S) \in Nat
  BY <1>2, Zenon DEF Library, FiniteSizes
<1>4. Cardinality(S) = 0 <=> S = {}
  BY <1>2, Zenon DEF Library, FiniteSizes
<1> QED
  BY <1>1, <1>2, <1>3, <1>4

(* One more is counted up, *)
LEMMA CountUp ==
  ASSUME Library, NEW S \in SUBSET Sess, NEW s \in Sess \ S
  PROVE  (Cardinality(S) + 1) % Modulus = Cardinality(S \cup {s})
<1>1. Cardinality(S \cup {s}) = Cardinality(S) + 1
  BY SizeFacts, Zenon DEF Library, OneMore
<1>2. S \cup {s} \in SUBSET Sess
  BY Zenon
<1>3. Cardinality(S) + 1 < Modulus
  BY <1>1, <1>2, SizeFacts, ModulusFacts
<1> QED
  BY <1>1, <1>3, SizeFacts, ModulusFacts

(* one less down. *)
LEMMA CountDown ==
  ASSUME Library, NEW S \in SUBSET Sess, NEW s \in S
  PROVE  (Cardinality(S) + Modulus - 1) % Modulus = Cardinality(S \ {s})
<1>1. Cardinality(S \ {s}) = Cardinality(S) - 1
  BY SizeFacts, Zenon DEF Library, OneLess
<1>2. 0 < Cardinality(S) /\ Cardinality(S) \in 0 .. Modulus - 1
  BY SizeFacts, ModulusFacts
<1> QED
  BY <1>1, <1>2, ModulusFacts, Zenon

(* A list with length 0 is empty: insert_link may go by that. *)
LEMMA LengthsTell ==
  ASSUME Library
  PROVE  Lengths => Empties
<1>1. \A b : InList(b) \in SUBSET Sess
  BY Zenon DEF InList
<1> QED
  BY <1>1, SizeFacts DEF Lengths, Empties

(* The counters hold nothing at first, as there is nothing to count. *)
LEMMA InitCounts ==
  ASSUME Library
  PROVE  Init => Lengths /\ Counts
<1> SUFFICES ASSUME Init PROVE Lengths /\ Counts
  BY Zenon
<1>1. /\ \A b \in Bucket : InList(b) = {} /\ qlen[b] = 0
      /\ \A q \in Worker : Charged(q) = {} /\ sessions[q] = 0
  BY Zenon DEF Init, InList, Charged, Unused, Idle
<1> QED
  BY <1>1, Zenon DEF Library, FewElements, Lengths, Counts

(* Each step moves the counters with what they count. *)
LEMMA StepCounts ==
  ASSUME Library, Typed, Held, Lengths, Counts, Next,
         \A t \in Thread : ~ use_after_free(t),
         \A t \in Thread : clear_unlink(t) => sess[th[t].cur].mem = "linked"
  PROVE  Lengths' /\ Counts'
<1>0. /\ qlen \in [Bucket -> 0 .. Modulus - 1] /\ sessions \in [Worker -> 0 .. Modulus - 1]
      /\ \A b : InList(b) \in SUBSET Sess
      /\ \A q : Charged(q) \in SUBSET Sess
  BY Zenon DEF Typed, TableTyped, RestTyped, InList, Charged
<1>1. CASE Still
  BY <1>1, Zenon DEF Still, Lengths, Counts
<1>2. CASE insert_link
  <2> DEFINE s == th[Fetcher].cur
             b == Hash[th[Fetcher].key]
  <2>1. /\ s \in Sess /\ b \in Bucket /\ s \notin InList(b)
        /\ qlen' = [qlen EXCEPT ![b] = (@ + 1) % Modulus]
        /\ \A c \in Bucket : InList(c)' = IF c = b THEN InList(c) \cup {s} ELSE InList(c)
        /\ UNCHANGED sessions
        /\ \A q \in Worker : Charged(q)' = Charged(q)
    BY <1>2, LinkAdds
  <2> HIDE DEF s, b
  <2>2. (Cardinality(InList(b)) + 1) % Modulus = Cardinality(InList(b) \cup {s})
    BY <1>0, <2>1, CountUp
  <2> QED
    BY <1>0, <2>1, <2>2, Zenon DEF Lengths, Counts
<1>3. ASSUME NEW t \in Thread, clear_unlink(t) PROVE Lengths' /\ Counts'
  <2> DEFINE s == th[t].cur
             b == Place(s)
  <2>1. /\ b \in Bucket /\ s \in InList(b)
        /\ qlen' = [qlen EXCEPT ![b] = (@ + Modulus - 1) % Modulus]
        /\ \A c \in Bucket : InList(c)' = IF c = b THEN InList(c) \ {s} ELSE InList(c)
        /\ UNCHANGED sessions
        /\ \A q \in Worker : Charged(q)' = Charged(q)
    BY <1>3, UnlinkRemoves, Zenon
  <2> HIDE DEF s, b
  <2>2. (Cardinality(InList(b)) + Modulus - 1) % Modulus = Cardinality(InList(b) \ {s})
    BY <1>0, <2>1, CountDown
  <2> QED
    BY <1>0, <2>1, <2>2, Zenon DEF Lengths, Counts
<1>4. CASE increment_worker_sessions
  <2> DEFINE s == th[Fetcher].cur
             w == sess[s].queue
  <2>1. /\ s \in Sess /\ w \in Worker /\ s \notin Charged(w)
        /\ sessions' = [sessions EXCEPT ![w] = (@ + 1) % Modulus]
        /\ \A q \in Worker : Charged(q)' = IF q = w THEN Charged(q) \cup {s} ELSE Charged(q)
        /\ UNCHANGED qlen
        /\ \A b \in Bucket : InList(b)' = InList(b)
    BY <1>4, IncrementAdds, Zenon
  <2> HIDE DEF s, w
  <2>2. (Cardinality(Charged(w)) + 1) % Modulus = Cardinality(Charged(w) \cup {s})
    BY <1>0, <2>1, CountUp, Zenon
  <2> QED
    BY <1>0, <2>1, <2>2, Zenon DEF Lengths, Counts
<1>5. ASSUME NEW t \in Thread, decrement_worker_sessions(t) PROVE Lengths' /\ Counts'
  <2> DEFINE s == th[t].cur
             w == sess[s].queue
  <2>1. /\ w \in Worker /\ s \in Charged(w)
        /\ sessions' = [sessions EXCEPT ![w] = (@ + Modulus - 1) % Modulus]
        /\ \A q \in Worker : Charged(q)' = IF q = w THEN Charged(q) \ {s} ELSE Charged(q)
        /\ UNCHANGED qlen
        /\ \A b \in Bucket : InList(b)' = InList(b)
    BY <1>5, DecrementRemoves, Zenon
  <2> HIDE DEF s, w
  <2>2. (Cardinality(Charged(w)) + Modulus - 1) % Modulus = Cardinality(Charged(w) \ {s})
    BY <1>0, <2>1, CountDown
  <2> QED
    BY <1>0, <2>1, <2>2, Zenon DEF Lengths, Counts
<1>6. (\E t \in Thread : Reads(t) \/ clear_free(t)) \/ insert_calloc => Still
  BY ReadsStill, CallocStill, FreeStill, Zenon
<1> QED
  BY <1>1, <1>2, <1>3, <1>4, <1>5, <1>6, NextSplits, Zenon

(* The invariant holds at first, and every step of every thread keeps it. *)
LEMMA InitInv ==
  ASSUME Library
  PROVE  Init => Inv
BY InitTable, InitCounts, Zenon DEF Inv

(* Every step keeps the invariant. *)
LEMMA StepInv ==
  ASSUME Library
  PROVE  Inv /\ [Next]_vars => Inv'
<1> SUFFICES ASSUME Inv, [Next]_vars PROVE Inv'
  BY Zenon
<1>1. TableInv /\ Typed /\ (Sound => Held /\ Lengths /\ Counts)
  BY Zenon DEF Inv, TableInv, Whole
<1>2. TableInv'
  BY <1>1, LengthsTell, StepTable
<1>3. CASE UNCHANGED vars
  <2>1. Sound' => Sound
    BY <1>3, Zenon DEF vars, Sound, Undefined
  <2>2. Lengths /\ Counts => Lengths' /\ Counts'
    BY <1>3 DEF vars, Lengths, Counts, InList, Charged
  <2> QED
    BY <1>1, <1>2, <2>1, <2>2 DEF Inv
<1>4. CASE Next
  <2>1. Sound' => Lengths' /\ Counts'
    BY <1>1, <1>4, SoundBefore, StepCounts
  <2> QED
    BY <1>2, <2>1 DEF Inv
<1> QED
  BY <1>3, <1>4, Zenon

-----------------------------------------------------------------------------
\* The threads that worker q's count knows of, and their sessions.
Movers(q) == {t \in Thread : th[t].pc \in {"link", "count"} /\ sess[th[t].cur].queue = q}
InTable(q) == {s \in Sess : sess[s].mem = "linked" /\ sess[s].queue = q}
Moved(q) == {s \in Sess : /\ sess[s].queue = q
                          /\ \E t \in Thread : th[t].cur = s /\ th[t].pc \in {"link", "count"}}

(* A worker is charged for its sessions in the table and for those that a  *)
(* thread is just linking or counting out.                                 *)
LEMMA InvCounts ==
  ASSUME Library, Inv, Sound, NEW q \in Worker
  PROVE  sessions[q] = Cardinality(InTable(q)) + Cardinality(Movers(q))
<1>1. Typed /\ Held /\ Counts
  BY Zenon DEF Inv, TableInv, Whole
<1>2. \A t \in Thread :
        /\ th[t].pc = "link" => t = Fetcher /\ th[t].cur \in Sess /\ sess[th[t].cur].mem = "new"
        /\ th[t].pc = "count" => th[t].cur \in Sess /\ sess[th[t].cur].mem = "out"
  BY <1>1, WhoHolds DEF Typed, ThreadsTyped, ThreadFits, Bringing, Held, Holding
<1>3. Charged(q) = InTable(q) \cup Moved(q) /\ InTable(q) \cap Moved(q) = {}
  <2>1. Charged(q) = InTable(q) \cup Moved(q)
    BY Zenon DEF Charged, InTable, Moved
  <2>2. InTable(q) \cap Moved(q) = {}
    BY <1>2, Zenon DEF InTable, Moved
  <2> QED
    BY <2>1, <2>2, Zenon
<1>4. IsFiniteSet(InTable(q)) /\ IsFiniteSet(Moved(q))
  <2>1. InTable(q) \in SUBSET Sess /\ Moved(q) \in SUBSET Sess
    BY Zenon DEF InTable, Moved
  <2> QED
    BY <2>1, SizeFacts
<1>5. Cardinality(Charged(q)) = Cardinality(InTable(q)) + Cardinality(Moved(q))
  <2>1. Cardinality(InTable(q) \cup Moved(q)) =
          Cardinality(InTable(q)) + Cardinality(Moved(q)) - Cardinality(InTable(q) \cap Moved(q))
    BY <1>4, Zenon DEF Library, Unions
  <2>2. Cardinality(InTable(q) \cap Moved(q)) = 0
    BY <1>3, Zenon DEF Library, FewElements
  <2>3. Cardinality(InTable(q)) \in Nat /\ Cardinality(Moved(q)) \in Nat
    BY <1>4, Zenon DEF Library, FiniteSizes
  <2> QED
    BY <1>3, <2>1, <2>2, <2>3
<1>6. Cardinality(Movers(q)) = Cardinality(Moved(q))
  <2> DEFINE f == [t \in Movers(q) |-> th[t].cur]
  <2>1. f \in [Movers(q) -> Moved(q)]
    BY <1>2, Zenon DEF Movers, Moved
  <2>2. \A t, u \in Movers(q) : f[t] = f[u] => t = u
    BY <1>1, <1>2 DEF Movers, Held, Holding
  <2>3. \A s \in Moved(q) : \E t \in Movers(q) : f[t] = s
    BY Zenon DEF Movers, Moved
  <2> DEFINE g == [s \in Moved(q) |-> CHOOSE t \in Movers(q) : f[t] = s]
  <2>4. /\ g \in [Moved(q) -> Movers(q)] /\ \A s \in Moved(q) : f[g[s]] = s
    BY <2>3, Zenon
  <2> HIDE DEF f, g
  <2>5. /\ \A s, u \in Moved(q) : g[s] = g[u] => s = u
        /\ \A t \in Movers(q) : \E s \in Moved(q) : g[s] = t
    BY <2>1, <2>2, <2>4, Zenon
  <2> QED
    BY <1>4, <2>4, <2>5, Zenon DEF Library, SameSize
<1> QED
  BY <1>1, <1>5, <1>6 DEF Counts

(* A session in nobody's list is in the hands of one thread. *)
LEMMA InvInHand ==
  ASSUME Library, Inv, Sound, NEW s \in Sess, sess[s].mem \in {"new", "out"}
  PROVE  Cardinality({t \in Thread : /\ th[t].cur = s
                                     /\ th[t].pc \in {"increment", "link", "count", "free"}}) = 1
<1> DEFINE T == {t \in Thread : /\ th[t].cur = s
                                /\ th[t].pc \in {"increment", "link", "count", "free"}}
<1>1. Typed /\ Held /\ Fetcher \in Thread
  BY ThreadFacts DEF Inv, TableInv, Whole
<1>2. \A t \in Thread : th[t].pc \in Bringing => t = Fetcher /\ sess[th[t].cur].mem = "new"
  BY <1>1, WhoHolds DEF Typed, ThreadsTyped, ThreadFits
<1>3. \E t \in Thread : T = {t}
  <2>1. CASE sess[s].mem = "new"
    <3>1. T = {Fetcher}
      BY <1>1, <1>2, <2>1 DEF Held, Holding, Bringing
    <3> QED
      BY <1>1, <3>1
  <2>2. CASE sess[s].mem = "out"
    <3>1. PICK t \in Thread : th[t].pc \in Holding /\ th[t].cur = s
      BY <1>1, <2>2 DEF Held
    <3>2. T = {t}
      BY <1>1, <1>2, <2>2, <3>1 DEF Held, Holding, Bringing
    <3> QED
      BY <3>2
  <2> QED
    BY <2>1, <2>2, Zenon
<1> QED
  BY <1>3, Zenon DEF Library, FewElements

(* The invariant gives SessionsCounted. *)
LEMMA InvSessionsCounted ==
  ASSUME Library
  PROVE  Inv => SessionsCounted
BY InvCounts, InvInHand, Zenon DEF SessionsCounted, InTable, Movers

(* Numbers have a least one of each kind: the induction of what follows. *)
LEMMA Least ==
  ASSUME Library, NEW T \in SUBSET Nat, T # {}
  PROVE  \E x \in T : \A y \in T : x <= y
BY Zenon DEF Library, LeastNumber

\* path is what following next from first leads to, in C steps.
Follows(path, first, next, C) ==
  path = [n \in 0 .. C |-> IF n = 0 THEN first ELSE next[path[n - 1]]]

(* There is such a path. *)
LEMMA FollowExists ==
  ASSUME Library, NEW X, NEW first \in X, NEW next \in [X -> X], NEW C \in Nat
  PROVE  \E path \in [0 .. C -> X] : Follows(path, first, next, C)
<1> DEFINE Bad == {k \in Nat : ~ \E path \in [0 .. k -> X] : Follows(path, first, next, k)}
<1> SUFFICES ASSUME Bad # {} PROVE FALSE
  BY Zenon
<1>1. PICK k \in Bad : \A j \in Bad : k <= j
  BY Least, Zenon
<1>2. CASE k = 0
  <2> DEFINE f == [n \in 0 .. 0 |-> first]
  <2>1. f \in [0 .. 0 -> X] /\ Follows(f, first, next, 0)
    BY DEF Follows
  <2> QED
    BY <1>2, <2>1, Zenon
<1>3. CASE k # 0
  <2>1. k \in Nat /\ k - 1 \in Nat /\ k - 1 \notin Bad
    BY <1>1, <1>3
  <2>2. PICK path \in [0 .. k - 1 -> X] : Follows(path, first, next, k - 1)
    BY <2>1, Zenon
  <2> DEFINE f == [n \in 0 .. k |-> IF n = k THEN next[path[k - 1]] ELSE path[n]]
  <2>3. f \in [0 .. k -> X]
    BY <2>1, <2>2
  <2>4. ASSUME NEW n \in 0 .. k PROVE f[n] = IF n = 0 THEN first ELSE next[f[n - 1]]
    BY <1>3, <2>1, <2>2 DEF Follows
  <2>5. Follows(f, first, next, k)
    BY <2>3, <2>4 DEF Follows
  <2> QED
    BY <2>3, <2>5
<1> QED
  BY <1>2, <1>3, Zenon

\* Each step of path leads to a higher rank, until it is in W for good.
Climbs(path, r, W, C) ==
  \A i \in 1 .. C : /\ path[i - 1] \in W => path[i] \in W
                    /\ path[i] \notin W => r[path[i - 1]] < r[path[i]]

(* Along a path that leads to higher ranks until it is in W for good,      *)
(* what comes later ranks higher, and it gets to W.                        *)
LEMMA PathClimbs ==
  ASSUME Library, NEW C \in Nat, C = Cardinality(Sess), NEW r \in [Sess -> Nat], NEW W, Nil \in W,
         NEW path \in [0 .. C -> Sess \cup {Nil}], Climbs(path, r, W, C)
  PROVE  /\ \A i, j \in 0 .. C :
              i < j /\ path[j] \notin W => path[i] \notin W /\ r[path[i]] < r[path[j]]
         /\ path[C] \in W
<1>0. IsFiniteSet(Sess)
  BY SessionTableAssumption, Zenon
<1>1. ASSUME NEW i \in 0 .. C, NEW j \in 0 .. C, i < j, path[j] \notin W
      PROVE  path[i] \notin W /\ r[path[i]] < r[path[j]]
  <2> DEFINE Wrong(k) == path[k] \notin W /\ ~ (path[i] \notin W /\ r[path[i]] < r[path[k]])
             Bad == {k \in Nat : k \in i + 1 .. C /\ Wrong(k)}
  <2>0. SUFFICES ASSUME Wrong(j) PROVE FALSE
    BY <1>1, Zenon
  <2>a. Bad \in SUBSET Nat /\ j \in Bad
    BY <1>1, <2>0
  <2>1. PICK k \in Bad : \A m \in Bad : k <= m
    BY <2>a, Least, Zenon
  <2>2. k \in 1 .. C /\ k \in i + 1 .. C /\ Wrong(k)
    BY <2>1
  <2>3. path[k - 1] \notin W /\ r[path[k - 1]] < r[path[k]]
    BY <2>2, Zenon DEF Climbs
  <2>4. path[k - 1] \in Sess /\ path[k] \in Sess
    <3>1. k - 1 \in 0 .. C /\ k \in 0 .. C
      BY <2>2
    <3> QED
      BY <2>2, <2>3, <3>1
  <2>5. CASE k = i + 1
    BY <2>2, <2>3, <2>5
  <2>6. CASE k # i + 1
    <3>1. k - 1 \in Nat /\ k - 1 \in i + 1 .. C /\ ~ (k <= k - 1)
      BY <2>2, <2>6
    <3>2. ~ Wrong(k - 1)
      BY <2>1, <3>1
    <3>3. path[i] \notin W /\ r[path[i]] < r[path[k - 1]]
      BY <2>3, <3>2
    <3>4. path[i] \in Sess
      BY <3>3
    <3>5. r[path[i]] < r[path[k]]
      BY <2>3, <2>4, <3>3, <3>4
    <3> QED
      BY <2>2, <3>3, <3>5
  <2> QED
    BY <2>5, <2>6
<1>2. path[C] \in W
  <2> SUFFICES ASSUME path[C] \notin W PROVE FALSE
    BY Zenon
  <2>1. \A i \in 0 .. C : path[i] \notin W
    BY <1>1
  <2>2. path \in [0 .. C -> Sess]
    BY <2>1, Zenon
  <2>3. IsFiniteSet(0 .. C) /\ Cardinality(0 .. C) = C + 1
    <3>1. C + 1 \in Nat /\ 0 .. (C + 1) - 1 = 0 .. C
      OBVIOUS
    <3> QED
      BY <3>1, Zenon DEF Library, Intervals
  <2>4. Cardinality(Sess) < Cardinality(0 .. C)
    BY <2>3
  <2>5. PICK i, j \in 0 .. C : i # j /\ path[i] = path[j]
    <3> DEFINE S == 0 .. C
    <3>1. IsFiniteSet(S) /\ Cardinality(Sess) < Cardinality(S) /\ path \in [S -> Sess]
      BY <2>2, <2>3, <2>4
    <3> HIDE DEF S
    <3>2. \E x, y \in S : x # y /\ path[x] = path[y]
      BY <1>0, <3>1, SMT DEF Library, PigeonHole
    <3> QED
      BY <3>2, Zenon DEF S
  <2>6. i < j \/ j < i
    BY <2>5
  <2>7. r[path[i]] < r[path[i]]
    BY <1>1, <2>1, <2>5, <2>6
  <2>8. r[path[i]] \in Nat
    BY <2>2, Zenon
  <2> QED
    BY <2>7, <2>8
<1> QED
  BY <1>1, <1>2, Zenon

\* p begins where path does, and goes on like path.
Alike(p, path, C) ==
  /\ p[0] = path[0]
  /\ \A n \in 1 .. C : p[n - 1] = path[n - 1] => p[n] = path[n]

(* A path is determined by its beginning and its steps. *)
LEMMA SamePath ==
  ASSUME Library, NEW C \in Nat, NEW p, NEW path, Alike(p, path, C)
  PROVE  \A n \in 0 .. C : p[n] = path[n]
<1> DEFINE Bad == {n \in Nat : n \in 0 .. C /\ p[n] # path[n]}
<1>1. SUFFICES ASSUME Bad # {} PROVE FALSE
  OBVIOUS
<1>2. PICK k \in Bad : \A m \in Bad : k <= m
  BY <1>1, Least, Zenon
<1>3. k \in 1 .. C /\ k - 1 \in 0 .. C /\ k - 1 \in Nat /\ ~ (k <= k - 1) /\ p[k] # path[k]
  BY <1>2 DEF Alike
<1>4. p[k - 1] = path[k - 1]
  BY <1>2, <1>3, Zenon
<1> QED
  BY <1>3, <1>4 DEF Alike

\* Follows next from x, and stays at Nil once it is in W.
Forward(W) == [x \in Sess \cup {Nil} |-> IF x \in W THEN Nil ELSE sess[x].next]

(* The paths that the properties speak of. *)
LEMMA Paths ==
  ASSUME Library, Typed
  PROVE  /\ Cardinality(Sess) \in Nat
         /\ \A s \in Sess : /\ Onward(s) \in [0 .. Cardinality(Sess) -> Sess \cup {Nil}]
                            /\ Follows(Onward(s), s, Forward(Wild), Cardinality(Sess))
         /\ \A b \in Bucket : /\ Walk(b) \in [0 .. Cardinality(Sess) -> Sess \cup {Nil}]
                              /\ Follows(Walk(b), hnext[b], Forward({Nil}), Cardinality(Sess))
<1> DEFINE C == Cardinality(Sess)
<1>0. C \in Nat
  BY SizeFacts
<1>1. /\ Forward(Wild) \in [Sess \cup {Nil} -> Sess \cup {Nil}]
      /\ Forward({Nil}) \in [Sess \cup {Nil} -> Sess \cup {Nil}]
  BY Zenon DEF Forward, Typed, TableTyped, Wild, Known
<1>2. ASSUME NEW s \in Sess
      PROVE  /\ Onward(s) \in [0 .. C -> Sess \cup {Nil}]
             /\ Follows(Onward(s), s, Forward(Wild), C)
  <2> DEFINE G(p) == p = [n \in 0 .. C |-> IF n = 0 THEN s
                            ELSE IF p[n - 1] \in Wild THEN Nil ELSE sess[p[n - 1]].next]
  <2>1. Onward(s) = CHOOSE p : G(p)
    BY Zenon DEF Onward
  <2>2. PICK path \in [0 .. C -> Sess \cup {Nil}] : Follows(path, s, Forward(Wild), C)
    BY <1>0, <1>1, FollowExists, Zenon
  <2> HIDE DEF C
  <2>3. \A n \in 0 .. C : n # 0 => n - 1 \in 0 .. C
    BY <1>0
  <2>4. \A n \in 0 .. C : path[n] = IF n = 0 THEN s
                            ELSE IF path[n - 1] \in Wild THEN Nil ELSE sess[path[n - 1]].next
    BY <2>2, <2>3, Zenon DEF Follows, Forward
  <2>5. G(path)
    BY <2>2, <2>4, Zenon
  <2> HIDE DEF G
  <2>6. G(Onward(s))
    BY <2>1, <2>5
  <2> DEFINE p == Onward(s)
  <2>7. /\ p = [n \in 0 .. C |-> IF n = 0 THEN s
                            ELSE IF p[n - 1] \in Wild THEN Nil ELSE sess[p[n - 1]].next]
    BY <2>6, Zenon DEF G
  <2> HIDE DEF p
  <2>8. \A n \in 0 .. C : p[n] = IF n = 0 THEN s
                            ELSE IF p[n - 1] \in Wild THEN Nil ELSE sess[p[n - 1]].next
    BY <2>7, Zenon
  <2>9. p[0] = path[0]
    BY <1>0, <2>4, <2>8
  <2>10. ASSUME NEW n \in 1 .. C, p[n - 1] = path[n - 1] PROVE p[n] = path[n]
    <3>1. n \in 0 .. C /\ n # 0
      BY <1>0
    <3> QED
      BY <2>4, <2>8, <2>10, <3>1
  <2>11. \A n \in 0 .. C : p[n] = path[n]
    <3>1. Alike(p, path, C)
      BY <2>9, <2>10, Zenon DEF Alike
    <3> QED
      BY <1>0, <3>1, SamePath
  <2>12. p = path
    <3>1. p = [n \in 0 .. C |-> p[n]]
      BY <2>7, <2>8, Zenon
    <3> QED
      BY <2>2, <2>11, <3>1
  <2> QED
    BY <2>2, <2>12, Zenon DEF C, p
<1>3. ASSUME NEW b \in Bucket
      PROVE  /\ Walk(b) \in [0 .. C -> Sess \cup {Nil}]
             /\ Follows(Walk(b), hnext[b], Forward({Nil}), C)
  <2> DEFINE G(p) == p = [n \in 0 .. C |-> IF n = 0 THEN hnext[b]
                            ELSE IF p[n - 1] = Nil THEN Nil ELSE sess[p[n - 1]].next]
  <2>1. Walk(b) = CHOOSE p : G(p)
    BY Zenon DEF Walk
  <2>a. hnext[b] \in Sess \cup {Nil}
    BY Zenon DEF Typed, TableTyped
  <2>2. PICK path \in [0 .. C -> Sess \cup {Nil}] : Follows(path, hnext[b], Forward({Nil}), C)
    BY <1>0, <1>1, <2>a, FollowExists, Zenon
  <2> HIDE DEF C
  <2>3. \A n \in 0 .. C : n # 0 => n - 1 \in 0 .. C
    BY <1>0
  <2>4. \A n \in 0 .. C : path[n] = IF n = 0 THEN hnext[b]
                            ELSE IF path[n - 1] = Nil THEN Nil ELSE sess[path[n - 1]].next
    BY <2>2, <2>3, Zenon DEF Follows, Forward
  <2>5. G(path)
    BY <2>2, <2>4, Zenon
  <2> HIDE DEF G
  <2>6. G(Walk(b))
    BY <2>1, <2>5
  <2> DEFINE p == Walk(b)
  <2>7. /\ p = [n \in 0 .. C |-> IF n = 0 THEN hnext[b]
                            ELSE IF p[n - 1] = Nil THEN Nil ELSE sess[p[n - 1]].next]
    BY <2>6, Zenon DEF G
  <2> HIDE DEF p
  <2>8. \A n \in 0 .. C : p[n] = IF n = 0 THEN hnext[b]
                            ELSE IF p[n - 1] = Nil THEN Nil ELSE sess[p[n - 1]].next
    BY <2>7, Zenon
  <2>9. p[0] = path[0]
    BY <1>0, <2>4, <2>8
  <2>10. ASSUME NEW n \in 1 .. C, p[n - 1] = path[n - 1] PROVE p[n] = path[n]
    <3>1. n \in 0 .. C /\ n # 0
      BY <1>0
    <3> QED
      BY <2>4, <2>8, <2>10, <3>1
  <2>11. \A n \in 0 .. C : p[n] = path[n]
    <3>1. Alike(p, path, C)
      BY <2>9, <2>10, Zenon DEF Alike
    <3> QED
      BY <1>0, <3>1, SamePath
  <2>12. p = path
    <3>1. p = [n \in 0 .. C |-> p[n]]
      BY <2>7, <2>8, Zenon
    <3> QED
      BY <2>2, <2>11, <3>1
  <2> QED
    BY <2>2, <2>12 DEF C, p
<1> QED
  BY <1>0, <1>2, <1>3, Zenon

(* A walk from wherever it is ends, at Nil or in freed memory. *)
LEMMA WalkEnds ==
  ASSUME Library, Inv, NEW s \in Sess
  PROVE  Onward(s)[Cardinality(Sess)] \in Wild
<1> DEFINE C == Cardinality(Sess)
           path == Onward(s)
<1>0. Typed /\ Nil \in Wild /\ Nil \notin Sess
  BY ThreadFacts, Zenon DEF Inv, TableInv, Wild
<1>1. PICK r \in [Sess -> Nat] : Ranked(r)
  BY Zenon DEF Inv, TableInv, Whole
<1>2. /\ C \in Nat /\ C = Cardinality(Sess) /\ path \in [0 .. C -> Sess \cup {Nil}]
      /\ Follows(path, s, Forward(Wild), C)
  BY <1>0, Paths, Zenon
<1> HIDE DEF C, path
<1>3. ASSUME NEW i \in 1 .. C
      PROVE  /\ path[i - 1] \in Wild => path[i] \in Wild
             /\ path[i] \notin Wild => r[path[i - 1]] < r[path[i]]
  <2>1. i \in 0 .. C /\ i - 1 \in 0 .. C /\ i # 0
    BY <1>2
  <2>2. path[i - 1] \in Sess \cup {Nil} /\ path[i] \in Sess \cup {Nil}
    BY <1>2, <2>1, Zenon
  <2>3. path[i] = IF path[i - 1] \in Wild THEN Nil ELSE sess[path[i - 1]].next
    BY <1>2, <2>1, <2>2, Zenon DEF Follows, Forward
  <2>4. path[i] \notin Wild => path[i] # Nil /\ path[i - 1] \in Sess /\ path[i] = sess[path[i - 1]].next
    BY <1>0, <2>2, <2>3
  <2> QED
    BY <1>0, <1>1, <2>3, <2>4 DEF Ranked
<1>4. Climbs(path, r, Wild, C)
  BY <1>3, Zenon DEF Climbs
<1>5. path[C] \in Wild
  BY <1>0, <1>1, <1>2, <1>4, PathClimbs
<1> QED
  BY <1>2, <1>5, Zenon DEF path

(* A bucket's list, from its head to its end: the sessions that are in it, *)
(* in the order of their ranks.                                            *)
LEMMA WalkIsList ==
  ASSUME Library, Typed, NEW r \in [Sess -> Nat], Ranked(r), Lists(r), Lengths, NEW b \in Bucket
  PROVE  LET n == Cardinality(InList(b))
             nth == Walk(b)
         IN  /\ qlen[b] = n
             /\ {nth[i] : i \in 0 .. n - 1} = InList(b)
             /\ nth[n] = Nil
             /\ hprev[b] = IF n = 0 THEN Nil ELSE nth[n - 1]
             /\ \A i \in 0 .. n - 1 : sess[nth[i]].prev = IF i = 0 THEN Nil ELSE nth[i - 1]
<1> DEFINE C == Cardinality(Sess)
           nth == Walk(b)
           L == InList(b)
<1>0. /\ Nil \notin Sess /\ L \subseteq Sess /\ L \subseteq Linked
      /\ \A x \in Sess : x \in L <=> x \in Linked /\ Place(x) = b
  BY ThreadFacts, Zenon DEF InList, Linked, Place
<1>1. /\ C \in Nat /\ C = Cardinality(Sess) /\ nth \in [0 .. C -> Sess \cup {Nil}]
      /\ Follows(nth, hnext[b], Forward({Nil}), C)
  BY Paths, Zenon
<1>2. /\ hnext[b] \in Sess \cup {Nil} /\ hprev[b] \in Sess \cup {Nil}
      /\ hnext[b] # Nil => hnext[b] \in L /\ sess[hnext[b]].prev = Nil
      /\ hprev[b] # Nil => hprev[b] \in L
  BY <1>0 DEF Lists, HeadsFit, Typed, TableTyped
<1>3. ASSUME NEW x \in L
      PROVE  /\ sess[x].next # Nil => sess[x].next \in L /\ sess[sess[x].next].prev = x
             /\ sess[x].prev # Nil => sess[x].prev \in L /\ sess[sess[x].prev].next = x
             /\ sess[x].prev = Nil => hnext[b] = x
             /\ sess[x].next = Nil => hprev[b] = x
  <2>1. x \in Linked /\ Place(x) = b /\ x \in Sess
    BY <1>0, Zenon
  <2>2. /\ sess[x].next # Nil => sess[x].next \in Linked /\ sess[sess[x].next].prev = x
        /\ sess[x].prev # Nil => sess[x].prev \in Linked /\ sess[sess[x].prev].next = x
        /\ sess[x].prev = Nil => hnext[b] = x
        /\ sess[x].next = Nil => hprev[b] = x
    BY <2>1 DEF Lists, LinksFit
  <2>3. \A y \in Linked : y \in Sess /\ sess[y].mem # "freed"
    BY Zenon DEF Linked
  <2>4. /\ sess[x].next \in Linked => Place(sess[x].next) = b
        /\ sess[x].prev \in Linked => Place(sess[x].prev) = b
    BY <2>1, <2>3 DEF Lists, SamePlace
  <2> QED
    BY <1>0, <2>2, <2>3, <2>4
<1>4. qlen[b] = Cardinality(L)
  BY Zenon DEF Lengths
<1> HIDE DEF C, nth, L
<1>5. /\ nth[0] = hnext[b]
      /\ \A i \in 1 .. C : /\ i \in 0 .. C /\ i - 1 \in 0 .. C
                           /\ nth[i] = IF nth[i - 1] = Nil THEN Nil ELSE sess[nth[i - 1]].next
  <2>1. nth[0] = hnext[b]
    BY <1>1 DEF Follows
  <2>2. ASSUME NEW i \in 1 .. C
        PROVE  /\ i \in 0 .. C /\ i - 1 \in 0 .. C
               /\ nth[i] = IF nth[i - 1] = Nil THEN Nil ELSE sess[nth[i - 1]].next
    <3>1. i \in 0 .. C /\ i - 1 \in 0 .. C /\ i # 0
      BY <1>1
    <3>2. nth[i - 1] \in Sess \cup {Nil}
      BY <1>1, <3>1
    <3> QED
      BY <1>1, <3>1, <3>2, Zenon DEF Follows, Forward
  <2> QED
    BY <2>1, <2>2
<1>6. \A i \in 0 .. C : nth[i] \in L \cup {Nil}
  <2> DEFINE Bad == {i \in Nat : i \in 0 .. C /\ nth[i] \notin L \cup {Nil}}
  <2>1. SUFFICES ASSUME Bad # {} PROVE FALSE
    BY <1>1
  <2>2. PICK k \in Bad : \A m \in Bad : k <= m
    BY <2>1, Least, Zenon
  <2>3. k # 0
    BY <1>2, <1>5, <2>2
  <2>4. k \in 1 .. C /\ k - 1 \in Nat /\ k - 1 \in 0 .. C /\ ~ (k <= k - 1)
    BY <1>1, <2>2, <2>3
  <2>5. nth[k - 1] \in L \cup {Nil}
    BY <2>2, <2>4
  <2>6. nth[k] \in L \cup {Nil}
    BY <1>3, <1>5, <2>4, <2>5
  <2> QED
    BY <2>2, <2>6
<1>7. /\ \A i, j \in 0 .. C : i < j /\ nth[j] \notin {Nil} => nth[i] \notin {Nil} /\ r[nth[i]] < r[nth[j]]
      /\ nth[C] \in {Nil}
  <2>1. ASSUME NEW i \in 1 .. C
        PROVE  /\ nth[i - 1] \in {Nil} => nth[i] \in {Nil}
               /\ nth[i] \notin {Nil} => r[nth[i - 1]] < r[nth[i]]
    <3>1. nth[i] = IF nth[i - 1] = Nil THEN Nil ELSE sess[nth[i - 1]].next
      BY <1>5, Zenon
    <3>2. nth[i - 1] # Nil => nth[i - 1] \in Sess
      BY <1>1, <1>5
    <3> QED
      BY <3>1, <3>2 DEF Ranked
  <2> DEFINE W == {Nil}
  <2>2. Nil \in W /\ Climbs(nth, r, W, C)
    BY <2>1, Zenon DEF Climbs
  <2> HIDE DEF W
  <2>3. /\ \A i, j \in 0 .. C : i < j /\ nth[j] \notin W => nth[i] \notin W /\ r[nth[i]] < r[nth[j]]
        /\ nth[C] \in W
    BY <1>1, <2>2, PathClimbs
  <2> QED
    BY <2>3 DEF W
<1>8. \A s \in L : \E i \in 0 .. C : nth[i] = s
  <2> DEFINE Missed == {s \in L : \A i \in 0 .. C : nth[i] # s}
             Bad == {m \in Nat : \E s \in Missed : r[s] = m}
  <2>1. SUFFICES ASSUME NEW z \in Missed PROVE FALSE
    BY Zenon
  <2>2. Bad # {}
    BY <1>0, <2>1, Zenon
  <2>3. PICK m \in Bad : \A k \in Bad : m <= k
    BY <2>2, Least, Zenon
  <2>4. PICK s \in Missed : r[s] = m
    BY <2>3, Zenon
  <2>5. s \in L /\ s \in Sess /\ r[s] \in Nat /\ \A i \in 0 .. C : nth[i] # s
    BY <1>0, <2>4
  <2> DEFINE p == sess[s].prev
  <2>6. p # Nil
    <3>1. 0 \in 0 .. C
      BY <1>1
    <3> QED
      BY <1>3, <1>5, <2>5, <3>1
  <2>7. p \in L /\ sess[p].next = s /\ r[p] < r[s] /\ p \in Sess /\ r[p] \in Nat
    BY <1>0, <1>3, <2>5, <2>6 DEF Ranked
  <2> HIDE DEF p
  <2>8. p \notin Missed
    BY <2>3, <2>4, <2>7
  <2>9. PICK i \in 0 .. C : nth[i] = p
    BY <2>7, <2>8, Zenon
  <2>10. i # C
    BY <1>0, <1>7, <2>7, <2>9
  <2>11. i + 1 \in 1 .. C /\ i + 1 \in 0 .. C /\ (i + 1) - 1 = i
    BY <1>1, <2>10
  <2>12. nth[i + 1] = s
    BY <1>0, <1>5, <2>7, <2>9, <2>11
  <2> QED
    BY <2>5, <2>11, <2>12
<1>9. PICK m \in 0 .. C : nth[m] = Nil /\ \A i \in 0 .. m - 1 : nth[i] # Nil
  <2> DEFINE End == {i \in Nat : i \in 0 .. C /\ nth[i] = Nil}
  <2>1. C \in End
    BY <1>1, <1>7
  <2>2. PICK m \in End : \A k \in End : m <= k
    BY <2>1, Least, Zenon
  <2>3. \A i \in 0 .. m - 1 : i \in Nat /\ i \in 0 .. C /\ ~ (m <= i)
    BY <1>1, <2>2
  <2> QED
    BY <2>2, <2>3
<1>10. \A i \in 0 .. m - 1 : i \in 0 .. C /\ nth[i] \in L
  BY <1>1, <1>6, <1>9
<1>11. \A s \in L : \E i \in 0 .. m - 1 : nth[i] = s
  <2> SUFFICES ASSUME NEW s \in L PROVE \E i \in 0 .. m - 1 : nth[i] = s
    BY Zenon
  <2>1. PICK i \in 0 .. C : nth[i] = s
    BY <1>8, Zenon
  <2>2. nth[i] # Nil
    BY <1>0, <2>1
  <2>3. i < m
    BY <1>1, <1>7, <1>9, <2>2
  <2> QED
    BY <1>1, <2>1, <2>3
<1>12. Cardinality(L) = m
  <2> DEFINE f == [i \in 0 .. m - 1 |-> nth[i]]
             I == 0 .. m - 1
  <2>1. \A i, j \in I : f[i] = f[j] => i = j
    <3> SUFFICES ASSUME NEW i \in I, NEW j \in I, nth[i] = nth[j], i # j PROVE FALSE
      BY Zenon
    <3>1. i \in 0 .. C /\ j \in 0 .. C /\ nth[i] \in Sess /\ nth[i] # Nil /\ nth[j] # Nil
      BY <1>0, <1>10
    <3>2. i < j \/ j < i
      BY <1>1
    <3>3. r[nth[i]] < r[nth[i]]
      BY <1>7, <3>1, <3>2
    <3> QED
      BY <3>1, <3>3
  <2>2. f \in [I -> L] /\ \A s \in L : \E i \in I : f[i] = s
    BY <1>10, <1>11, Zenon
  <2>3. IsFiniteSet(I) /\ Cardinality(I) = m
    <3>1. m \in Nat
      BY <1>1
    <3> QED
      BY <3>1, Zenon DEF Library, Intervals
  <2> HIDE DEF f, I
  <2> QED
    BY <2>1, <2>2, <2>3, Zenon DEF Library, SameSize
<1>13. {nth[i] : i \in 0 .. m - 1} = L
  BY <1>10, <1>11
<1>14. hprev[b] = IF m = 0 THEN Nil ELSE nth[m - 1]
  <2>1. CASE m = 0
    <3>1. L = {}
      BY <1>11, <2>1
    <3> QED
      BY <1>2, <2>1, <3>1
  <2>2. CASE m # 0
    <3>1. m \in 1 .. C /\ m - 1 \in 0 .. m - 1
      BY <1>1, <2>2
    <3>2. nth[m - 1] \in L /\ nth[m - 1] # Nil
      BY <1>9, <1>10, <3>1
    <3>3. sess[nth[m - 1]].next = Nil
      BY <1>5, <1>9, <3>1, <3>2
    <3> QED
      BY <1>3, <2>2, <3>2, <3>3
  <2> QED
    BY <2>1, <2>2
<1>15. ASSUME NEW i \in 0 .. m - 1
       PROVE  sess[nth[i]].prev = IF i = 0 THEN Nil ELSE nth[i - 1]
  <2>1. CASE i = 0
    BY <1>2, <1>5, <1>9, <2>1
  <2>2. CASE i # 0
    <3>1. i \in 1 .. C /\ i - 1 \in 0 .. m - 1
      BY <1>1, <2>2
    <3>2. nth[i - 1] \in L /\ nth[i - 1] # Nil /\ nth[i] # Nil
      BY <1>9, <1>10, <3>1
    <3>3. nth[i] = sess[nth[i - 1]].next
      BY <1>5, <3>1, <3>2
    <3> QED
      BY <1>3, <2>2, <3>2, <3>3
  <2> QED
    BY <2>1, <2>2
<1> QED
  BY <1>4, <1>9, <1>12, <1>13, <1>14, <1>15 DEF nth, L

(* The invariant gives OneSessionPerKey. *)
LEMMA InvOneSession == Inv => OneSessionPerKey
BY TableOneSession, Zenon DEF Inv

(* The invariant gives ListsIntact, the walk along the links included. *)
LEMMA InvLists ==
  ASSUME Library
  PROVE  Inv => ListsIntact
<1> SUFFICES ASSUME Inv PROVE ListsIntact
  BY Zenon
<1>1. TypeOK
  <2>1. Typed
    BY Zenon DEF Inv, TableInv, Whole
  <2>2. \A t \in Thread : th[t] \in ThreadType
    BY <2>1, Zenon DEF Typed, ThreadsTyped
  <2>3. \A s \in Sess : sess[s] \in SessionType
    BY <2>1 DEF Typed, TableTyped
  <2> QED
    BY <2>1, <2>2, <2>3 DEF Typed, TableTyped, ThreadsTyped, RestTyped, TypeOK, ThreadFits, ThreadType,
       SessionType, Bringing
<1>2. PICK r \in [Sess -> Nat] : Typed /\ Ranked(r) /\ (Sound => Lists(r) /\ Lengths)
  BY Zenon DEF Inv, TableInv, Whole
<1>3. ~ Undefined => \A s \in Sess : Onward(s)[Cardinality(Sess)] \in Wild
  BY WalkEnds
<1> QED
  BY <1>1, <1>2, <1>3, WalkIsList, Zenon DEF ListsIntact

-----------------------------------------------------------------------------
(* The theorems *)

FS == INSTANCE FiniteSetTheorems

(* What was taken from the library is there. *)
LEMMA LibraryHolds == Library
<1>1. LeastNumber
  <2> SUFFICES ASSUME NEW T \in SUBSET Nat, T # {} PROVE \E x \in T : \A y \in T : x <= y
    BY Zenon DEF LeastNumber
  <2>1. PICK x \in T : \A y \in T : ~ (<<y, x>> \in FS!OpToRel(<, Nat))
    BY FS!NatLessThanWellFounded, FS!WFMin, Zenon
  <2>2. \A y \in T : ~ (y < x)
    BY <2>1, Zenon DEF FS!OpToRel
  <2> QED
    BY <2>2, SMT
<1>2. /\ \A S : IsFiniteSet(S) <=> FS!IsFiniteSet(S)
      /\ \A S : Cardinality(S) = FS!Cardinality(S)
  BY Zenon DEF IsFiniteSet, FS!IsFiniteSet, Cardinality, FS!Cardinality
<1>3. Intervals
  <2> SUFFICES ASSUME NEW n \in Nat PROVE IsFiniteSet(0 .. n - 1) /\ Cardinality(0 .. n - 1) = n
    BY Zenon DEF Intervals
  <2>1. FS!IsFiniteSet(0 .. n - 1) /\ FS!Cardinality(0 .. n - 1) = n
    BY FS!FS_Interval, SMT
  <2> QED
    BY <1>2, <2>1, Zenon
<1>4. FewElements
  BY <1>2, FS!FS_EmptySet, FS!FS_Singleton, Zenon DEF FewElements
<1>5. FiniteSizes
  BY <1>2, FS!FS_CardinalityType, FS!FS_EmptySet, Zenon DEF FiniteSizes
<1>6. FiniteParts
  BY <1>2, FS!FS_Subset, Zenon DEF FiniteParts
<1>7. OneMore
  BY <1>2, FS!FS_AddElement, Zenon DEF OneMore
<1>8. OneLess
  BY <1>2, FS!FS_RemoveElement, Zenon DEF OneLess
<1>9. Unions
  BY <1>2, FS!FS_Union, Zenon DEF Unions
<1>10. SameSize
  <2> SUFFICES ASSUME NEW S, NEW T, NEW f \in [S -> T], IsFiniteSet(S),
                      \A x, y \in S : f[x] = f[y] => x = y,
                      \A t \in T : \E x \in S : f[x] = t
               PROVE  Cardinality(T) = Cardinality(S)
    BY Zenon DEF SameSize
  <2>1. f \in FS!Bijection(S, T)
    BY SMT DEF FS!Bijection, FS!Injection, FS!Surjection, FS!IsInjective
  <2>2. FS!ExistsBijection(S, T)
    BY <2>1, Zenon DEF FS!ExistsBijection
  <2> QED
    BY <1>2, <2>2, FS!FS_Bijection, Zenon
<1>11. PigeonHole
  BY <1>2, FS!FS_PigeonHole, Zenon DEF PigeonHole
<1> QED
  BY <1>1, <1>3, <1>4, <1>5, <1>6, <1>7, <1>8, <1>9, <1>10, <1>11, Zenon DEF Library

(* The invariant holds in every behaviour. *)
LEMMA Invariance == Spec => []Inv
<1>1. Init => Inv
  BY LibraryHolds, InitInv, Zenon
<1>2. Inv /\ [Next]_vars => Inv'
  BY LibraryHolds, StepInv, Zenon
<1> QED
  BY <1>1, <1>2, PTL DEF Spec

(* For any number of sessions, buckets, keys and workers: until a session  *)
(* is taken out twice, insertsession and clearsession leave every list     *)
(* intact in both directions, with qlen its length, whatever the threads   *)
(* do between the locked steps; and a walk ends, even after that.          *)
THEOREM ListsStayIntact == Spec => []ListsIntact
<1>1. Inv => ListsIntact
  BY LibraryHolds, InvLists, Zenon
<1> QED
  BY <1>1, Invariance, PTL

(* The walk of getsession, without a lock, does not miss the session of    *)
(* its key: insertsession never makes a second one.                        *)
THEOREM OneSessionForEachKey == Spec => []OneSessionPerKey
BY Invariance, InvOneSession, PTL

(* The workers' counts are those of their sessions, and every session out  *)
(* of the table is in the hands of one thread.                             *)
THEOREM SessionsAreCounted == Spec => []SessionsCounted
<1>1. Inv => SessionsCounted
  BY LibraryHolds, InvSessionsCounted, Zenon
<1> QED
  BY <1>1, Invariance, PTL
=============================================================================
