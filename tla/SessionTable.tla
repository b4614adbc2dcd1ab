---------------------------- MODULE SessionTable ----------------------------
(***************************************************************************)
(* The session table of sessionmanager.c at the level of its pointers, and *)
(* the threads that use it: the fetcher looks sessions up and inserts      *)
(* them, the two threads of a worker look them up and clear them, and the  *)
(* cleanup thread (subsystems/sessioncleanup.c) walks the lists and clears *)
(* the dead ones.  Only insertsession and clearsession lock a bucket;      *)
(* getsession and cleanuplist walk it without.                             *)
(*                                                                         *)
(* What a lock protects is one step; a walk is one step for each pointer   *)
(* it reads (where the code tests next and reads it again, the second read *)
(* decides).  Memory is not used again once it is freed, and a thread that *)
(* follows a pointer to freed memory, or NULL, ends the model (Undefined). *)
(***************************************************************************)
EXTENDS Naturals, FiniteSets

CONSTANTS Key,       \* both IPs and ports of a session, sorted
          Bucket,
          Hash,      \* Hash[k]: the bucket of key k
          Workers,   \* get_workers()
          Sess,      \* the memory for sessions: bounds the insertions
          Nil,
          Modulus    \* of the counters, 2^32 in the code

ASSUME SessionTableAssumption ==
  /\ Hash \in [Key -> Bucket]
  /\ Workers \in Nat \ {0}
  /\ Nil \notin Sess
  /\ IsFiniteSet(Sess)
  /\ Modulus \in Nat \ {0} /\ Modulus > Cardinality(Sess)

Worker == 0 .. Workers - 1
Processor == Worker \X {"optimization", "deoptimization"}
Fetcher == <<Workers, "fetcher">>
Cleanup == <<Workers, "cleanup">>
Thread == Processor \cup {Fetcher, Cleanup}

VARIABLES hnext, hprev, qlen,  \* the head of each bucket
          sess,       \* the sessions; mem says where they are in their life
          sessions,   \* sessions[q]: workers[q].sessions
          th,         \* the threads: where they are, the key they look for,
                      \* their session, and cleanup's currentsession
          scan,       \* the fetcher's i and queuenum
          sent,       \* the workers and keys packets were queued for
          doubled     \* history: clearsession got a session that was out

vars == <<hnext, hprev, qlen, sess, sessions, th, scan, sent, doubled>>
heads == <<hnext, hprev, qlen>>

Unused == [mem |-> "unused", key |-> Nil, queue |-> Nil, next |-> Nil, prev |-> Nil]
Idle == [pc |-> "idle", key |-> Nil, cur |-> Nil, at |-> Nil]

Init ==
  /\ hnext = [b \in Bucket |-> Nil]
  /\ hprev = [b \in Bucket |-> Nil]
  /\ qlen = [b \in Bucket |-> 0]
  /\ sess = [s \in Sess |-> Unused]
  /\ sessions = [q \in Worker |-> 0]
  /\ th = [t \in Thread |-> Idle]
  /\ scan = [i |-> 0, queuenum |-> 0]
  /\ sent = {}
  /\ doubled = FALSE

-----------------------------------------------------------------------------
(* What the next step of t dereferences, and when that is not allowed. *)

Neighbours(s) == {sess[s].next, sess[s].prev} \ {Nil}

Touches(t) ==
  LET x == th[t] IN
  CASE x.pc \in {"walk", "visit"} -> {x.cur} \ {Nil}
    [] x.pc \in {"found", "count", "free", "advance"} -> {x.cur}
    [] x.pc = "previous" -> {x.at}
    [] x.pc = "unlink" -> {x.cur} \cup Neighbours(x.cur)
    [] x.pc = "link" -> IF qlen[Hash[x.key]] = 0 THEN {} ELSE {hprev[Hash[x.key]]}
    [] OTHER -> {}

Wild == {Nil} \cup {s \in Sess : sess[s].mem = "freed"}
Safe(t) == Touches(t) \cap Wild = {}

Undefined == \E t \in Thread : th[t].pc = "undefined"

use_after_free(t) ==
  /\ ~ Safe(t)
  /\ th' = [u \in Thread |-> [Idle EXCEPT !.pc = "undefined"]]
  /\ UNCHANGED <<heads, sess, sessions, scan, sent, doubled>>

Goto(t, pc) == th' = [th EXCEPT ![t].pc = pc]
Return(t) == th' = [th EXCEPT ![t] = Idle]

-----------------------------------------------------------------------------
(* getsession *)

StartWalk(t, k) ==
  th' = [th EXCEPT ![t] = [pc |-> "walk", key |-> k, cur |-> hnext[Hash[k]], at |-> Nil]]

\* Mutant of walk_next: looks at the first session only.
walk_first(t) ==
  /\ th[t].pc = "walk" /\ th[t].cur # Nil /\ Safe(t)
  /\ sess[th[t].cur].key # th[t].key
  /\ th' = [th EXCEPT ![t].cur = Nil]
  /\ UNCHANGED <<heads, sess, sessions, scan, sent, doubled>>

walk_next(t) ==
  /\ th[t].pc = "walk" /\ th[t].cur # Nil /\ Safe(t)
  /\ sess[th[t].cur].key # th[t].key
  /\ th' = [th EXCEPT ![t].cur = sess[th[t].cur].next]
  /\ UNCHANGED <<heads, sess, sessions, scan, sent, doubled>>

walk_found(t) ==
  /\ th[t].pc = "walk" /\ th[t].cur # Nil /\ Safe(t)
  /\ sess[th[t].cur].key = th[t].key
  /\ Goto(t, "found")
  /\ UNCHANGED <<heads, sess, sessions, scan, sent, doubled>>

(* Only the fetcher inserts, for a SYN or when the neighbor knows it. *)
walk_none(t) ==
  /\ th[t].pc = "walk" /\ th[t].cur = Nil
  /\ \/ Return(t)
     \/ t = Fetcher /\ Goto(t, "scan")
  /\ UNCHANGED <<heads, sess, sessions, scan, sent, doubled>>

-----------------------------------------------------------------------------
(* insertsession *)

(* One round of the search for the worker with the fewest sessions. *)
insert_scan ==
  /\ th[Fetcher].pc = "scan" /\ scan.i < Workers
  /\ scan' = [i |-> scan.i + 1,
              queuenum |-> IF sessions[scan.queuenum] > sessions[scan.i]
                           THEN scan.i ELSE scan.queuenum]
  /\ UNCHANGED <<heads, sess, sessions, th, sent, doubled>>

(* calloc and the fields of newsession. *)
insert_calloc ==
  /\ th[Fetcher].pc = "scan" /\ scan.i = Workers
  /\ \E s \in Sess :
       /\ sess[s].mem = "unused"
       /\ sess' = [sess EXCEPT ![s] =
            [mem |-> "new", key |-> th[Fetcher].key, queue |-> scan.queuenum,
             next |-> Nil, prev |-> Nil]]
       /\ th' = [th EXCEPT ![Fetcher].pc = "increment", ![Fetcher].cur = s]
  /\ scan' = [i |-> 0, queuenum |-> 0]
  /\ UNCHANGED <<heads, sessions, sent, doubled>>

\* Mutant of increment_worker_sessions: does not.
increment_forgotten ==
  /\ th[Fetcher].pc = "increment"
  /\ Goto(Fetcher, "link")
  /\ UNCHANGED <<heads, sess, sessions, scan, sent, doubled>>

increment_worker_sessions ==
  /\ th[Fetcher].pc = "increment"
  /\ sessions' = [sessions EXCEPT ![sess[th[Fetcher].cur].queue] = (@ + 1) % Modulus]
  /\ Goto(Fetcher, "link")
  /\ UNCHANGED <<heads, sess, scan, sent, doubled>>

LinkAfter(last, s) ==
  [sess EXCEPT ![last].next = s, ![s].prev = last, ![s].mem = "linked"]

insert_link ==
  LET s == th[Fetcher].cur
      b == Hash[th[Fetcher].key]
  IN
  /\ th[Fetcher].pc = "link" /\ Safe(Fetcher)
  /\ \/ /\ qlen[b] = 0
        /\ hnext' = [hnext EXCEPT ![b] = s]
        /\ sess' = [sess EXCEPT ![s].mem = "linked"]
     \/ /\ qlen[b] # 0
        /\ sess' = LinkAfter(hprev[b], s)
        /\ UNCHANGED hnext
  /\ hprev' = [hprev EXCEPT ![b] = s]
  /\ qlen' = [qlen EXCEPT ![b] = (@ + 1) % Modulus]
  /\ Goto(Fetcher, "found")
  /\ UNCHANGED <<sessions, scan, sent, doubled>>

-----------------------------------------------------------------------------
(* clearsession *)

\* Mutant of TailWithout: the head keeps its last session.
TailKept(b, n, p) == hprev

\* The head of bucket b when what was between p and n is out.
HeadWithout(b, n, p) == IF p = Nil THEN [hnext EXCEPT ![b] = n] ELSE hnext
TailWithout(b, n, p) == IF n = Nil THEN [hprev EXCEPT ![b] = p] ELSE hprev

(* Under the lock of the bucket. *)
clear_unlink(t) ==
  LET s == th[t].cur
      b == Hash[sess[s].key]
      n == sess[s].next
      p == sess[s].prev
  IN
  /\ th[t].pc = "unlink" /\ Safe(t)
  /\ sess' = [x \in Sess |->
       IF x = s THEN [sess[s] EXCEPT !.mem = "out"]
       ELSE [sess[x] EXCEPT !.next = IF x = p THEN n ELSE @, !.prev = IF x = n THEN p ELSE @]]
  /\ hnext' = HeadWithout(b, n, p)
  /\ hprev' = TailWithout(b, n, p)
  /\ qlen' = [qlen EXCEPT ![b] = (@ + Modulus - 1) % Modulus]
  /\ doubled' = (doubled \/ sess[s].mem = "out")
  /\ Goto(t, "count")
  /\ UNCHANGED <<sessions, scan, sent>>

decrement_worker_sessions(t) ==
  /\ th[t].pc = "count" /\ Safe(t)
  /\ sessions' = [sessions EXCEPT ![sess[th[t].cur].queue] = (@ + Modulus - 1) % Modulus]
  /\ Goto(t, "free")
  /\ UNCHANGED <<heads, sess, scan, sent, doubled>>

(* The cleanup thread goes on with the next session. *)
clear_free(t) ==
  /\ th[t].pc = "free" /\ Safe(t)
  /\ sess' = [sess EXCEPT ![th[t].cur] = [Unused EXCEPT !.mem = "freed"]]
  /\ IF t = Cleanup
     THEN th' = [th EXCEPT ![t].pc = "visit", ![t].cur = th[t].at, ![t].at = Nil]
     ELSE Return(t)
  /\ UNCHANGED <<heads, sessions, scan, sent, doubled>>

-----------------------------------------------------------------------------
(* The fetcher and the processors: fetcher_callback and worker_thread *)

fetcher_callback(k) ==
  /\ th[Fetcher].pc = "idle"
  /\ StartWalk(Fetcher, k)
  /\ UNCHANGED <<heads, sess, sessions, scan, sent, doubled>>

(* The session is read and written.  A packet that is not of the handshake *)
(* goes to a processor of the session's queue, as many as come while there *)
(* is the session.                                                         *)
fetcher_use ==
  /\ th[Fetcher].pc = "found" /\ Safe(Fetcher)
  /\ \/ UNCHANGED sent
     \/ sent' = sent \cup {<<sess[th[Fetcher].cur].queue, th[Fetcher].key>>}
  /\ Return(Fetcher)
  /\ UNCHANGED <<heads, sess, sessions, scan, doubled>>

worker_thread(t, k) ==
  /\ th[t].pc = "idle" /\ <<t[1], k>> \in sent
  /\ StartWalk(t, k)
  /\ UNCHANGED <<heads, sess, sessions, scan, sent, doubled>>

(* RST, or FIN in a session that is closing, clears the session. *)
worker_use(t) ==
  /\ th[t].pc = "found" /\ Safe(t)
  /\ \/ Return(t)
     \/ th' = [th EXCEPT ![t] = [pc |-> "unlink", key |-> Nil, cur |-> th[t].cur, at |-> Nil]]
  /\ UNCHANGED <<heads, sess, sessions, scan, sent, doubled>>

-----------------------------------------------------------------------------
(* cleanuplist *)

cleanuplist(b) ==
  /\ th[Cleanup].pc = "idle" /\ hnext[b] # Nil
  /\ th' = [th EXCEPT ![Cleanup].pc = "visit", ![Cleanup].cur = hnext[b]]
  /\ UNCHANGED <<heads, sess, sessions, scan, sent, doubled>>

cleanup_end ==
  /\ th[Cleanup].pc = "visit" /\ th[Cleanup].cur = Nil
  /\ Return(Cleanup)
  /\ UNCHANGED <<heads, sess, sessions, scan, sent, doubled>>

(* The session is dead (deadcounter > 2), or it is not: DeadSession counts. *)
cleanup_visit ==
  LET s == th[Cleanup].cur IN
  /\ th[Cleanup].pc = "visit" /\ s # Nil /\ Safe(Cleanup)
  /\ \/ Goto(Cleanup, IF sess[s].next # Nil THEN "advance" ELSE "unlink")
     \/ th' = [th EXCEPT ![Cleanup].cur = sess[s].next]
  /\ UNCHANGED <<heads, sess, sessions, scan, sent, doubled>>

(* currentsession = currentsession->next *)
cleanup_advance ==
  /\ th[Cleanup].pc = "advance" /\ Safe(Cleanup)
  /\ th' = [th EXCEPT ![Cleanup].pc = "previous", ![Cleanup].at = sess[th[Cleanup].cur].next]
  /\ UNCHANGED <<heads, sess, sessions, scan, sent, doubled>>

(* clearsession(currentsession->prev), which does nothing with NULL. *)
cleanup_previous ==
  LET at == th[Cleanup].at IN
  /\ th[Cleanup].pc = "previous" /\ Safe(Cleanup)
  /\ th' = [th EXCEPT ![Cleanup] =
       IF sess[at].prev = Nil THEN [@ EXCEPT !.pc = "visit", !.cur = at, !.at = Nil]
                              ELSE [@ EXCEPT !.pc = "unlink", !.cur = sess[at].prev]]
  /\ UNCHANGED <<heads, sess, sessions, scan, sent, doubled>>

-----------------------------------------------------------------------------

FetcherStep ==
  \/ walk_next(Fetcher) \/ walk_found(Fetcher) \/ walk_none(Fetcher)
  \/ insert_scan \/ insert_calloc \/ increment_worker_sessions \/ insert_link
  \/ fetcher_use \/ use_after_free(Fetcher)

ProcessorStep(t) ==
  \/ walk_next(t) \/ walk_found(t) \/ walk_none(t)
  \/ clear_unlink(t) \/ decrement_worker_sessions(t) \/ clear_free(t)
  \/ worker_use(t) \/ use_after_free(t)

CleanupStep ==
  \/ cleanup_end \/ cleanup_visit \/ cleanup_advance \/ cleanup_previous
  \/ clear_unlink(Cleanup) \/ decrement_worker_sessions(Cleanup) \/ clear_free(Cleanup)
  \/ use_after_free(Cleanup)

Next ==
  \/ \E k \in Key : fetcher_callback(k)
  \/ FetcherStep
  \/ \E t \in Processor, k \in Key : worker_thread(t, k)
  \/ \E t \in Processor : ProcessorStep(t)
  \/ \E b \in Bucket : cleanuplist(b)
  \/ CleanupStep

Spec == Init /\ [][Next]_vars

-----------------------------------------------------------------------------

Pc == {"idle", "walk", "found", "scan", "increment", "link", "unlink", "count", "free",
       "visit", "advance", "previous", "undefined"}

(* Type correctness. *)
TypeOK ==
  /\ hnext \in [Bucket -> Sess \cup {Nil}] /\ hprev \in [Bucket -> Sess \cup {Nil}]
  /\ qlen \in [Bucket -> 0 .. Modulus - 1]
  /\ \A s \in Sess :
       /\ sess[s].mem \in {"unused", "new", "linked", "out", "freed"}
       /\ sess[s].next \in Sess \cup {Nil} /\ sess[s].prev \in Sess \cup {Nil}
       /\ sess[s].mem \in {"new", "linked", "out"} =>
            sess[s].key \in Key /\ sess[s].queue \in Worker
  /\ sessions \in [Worker -> 0 .. Modulus - 1]
  /\ \A t \in Thread :
       /\ th[t].pc \in Pc
       /\ th[t].cur \in Sess \cup {Nil} /\ th[t].at \in Sess \cup {Nil}
       /\ th[t].pc \in {"walk", "scan", "increment", "link"} => th[t].key \in Key
  /\ scan.i \in 0 .. Workers /\ scan.queuenum \in Worker
  /\ sent \subseteq Worker \X Key
  /\ doubled \in BOOLEAN

Sound == ~ Undefined /\ ~ doubled

InList(b) == {s \in Sess : sess[s].mem = "linked" /\ Hash[sess[s].key] = b}

\* Following next from the head of bucket b.
Walk(b) ==
  LET nth[n \in 0 .. Cardinality(Sess)] ==
        IF n = 0 THEN hnext[b]
        ELSE IF nth[n - 1] = Nil THEN Nil ELSE sess[nth[n - 1]].next
  IN  nth

\* Following next from session s, as far as memory allows.
Onward(s) ==
  LET nth[n \in 0 .. Cardinality(Sess)] ==
        IF n = 0 THEN s
        ELSE IF nth[n - 1] \in Wild THEN Nil ELSE sess[nth[n - 1]].next
  IN  nth

(* Until a session is taken out twice, and whatever else the threads do    *)
(* between the locked steps, a bucket's list is intact in both directions, *)
(* ends at the head's prev and holds exactly the sessions that are in, and *)
(* qlen is their number.  Even after that the pointers form no cycle, so   *)
(* that a walk of getsession or cleanuplist ends from wherever it is.      *)
ListsIntact ==
  /\ TypeOK
  /\ Sound => \A b \in Bucket :
       LET n == Cardinality(InList(b))
           nth == Walk(b)
       IN  /\ qlen[b] = n
           /\ {nth[i] : i \in 0 .. n - 1} = InList(b)
           /\ nth[n] = Nil
           /\ hprev[b] = IF n = 0 THEN Nil ELSE nth[n - 1]
           /\ \A i \in 0 .. n - 1 : sess[nth[i]].prev = IF i = 0 THEN Nil ELSE nth[i - 1]
  /\ ~ Undefined => \A s \in Sess : Onward(s)[Cardinality(Sess)] \in Wild

(* A key has one session: insertsession does not look, but getsession,     *)
(* without a lock, has not missed it among the changes.                    *)
OneSessionPerKey ==
  Sound => \A s, r \in Sess :
    /\ sess[s].mem \in {"new", "linked"} /\ sess[r].mem \in {"new", "linked"}
    /\ sess[s].key = sess[r].key
    => s = r

(* The worker's count is that of its sessions: in the table, about to be   *)
(* linked, or taken out and not yet deducted.  And none is lost: a session *)
(* out of the table is in the hands of one thread that will free it or     *)
(* link it.                                                                *)
SessionsCounted ==
  Sound =>
    /\ \A q \in Worker :
         sessions[q] =
           Cardinality({s \in Sess : sess[s].mem = "linked" /\ sess[s].queue = q})
           + Cardinality({t \in Thread : th[t].pc \in {"link", "count"} /\ sess[th[t].cur].queue = q})
    /\ \A s \in Sess : sess[s].mem \in {"new", "out"} =>
         Cardinality({t \in Thread : /\ th[t].cur = s
                                     /\ th[t].pc \in {"increment", "link", "count", "free"}}) = 1

=============================================================================
