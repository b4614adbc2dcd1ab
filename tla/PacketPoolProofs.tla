-------------------------- MODULE PacketPoolProofs --------------------------
(***************************************************************************)
(* Proofs about the queues and the buffer pool, for any number of packets  *)
(* and queues and any pool sizes.                                          *)
(*                                                                         *)
(* First PacketQueue: the linked lists of queuemanager.c stay well formed  *)
(* and implement first-in first-out queues.  ListsIntact, with the types,  *)
(* is inductive as it stands.  Then PacketPool, whose queues need no       *)
(* second proof: as long as `quiet' holds every step is one of             *)
(* PacketQueue, whose invariant is preserved by NextInv.                   *)
(***************************************************************************)
EXTENDS PacketPool, FiniteSetTheorems, SequenceTheorems, TLAPS

(* A list without repetitions is no longer than there are packets, so the  *)
(* 32-bit count of a queue never wraps to 0.                               *)
LEMMA LengthBound ==
  ASSUME NEW s \in Seq(Packet),
         \A i, j \in 1 .. Len(s) : s[i] = s[j] => i = j
  PROVE  Len(s) \in 0 .. QlenModulus - 1
<1>1. Len(s) \in Nat /\ s \in [1 .. Len(s) -> Packet]
  OBVIOUS
<1>2. IsFiniteSet(1 .. Len(s)) /\ Cardinality(1 .. Len(s)) = Len(s)
  BY <1>1, FS_Interval, SMTT(30)
<1>3. s \in Injection(1 .. Len(s), Packet)
  BY <1>1, Zenon DEF Injection, IsInjective
<1>4. Cardinality(1 .. Len(s)) <= Cardinality(Packet)
  BY <1>2, <1>3, FS_Injection, PacketAssumption, Zenon
<1>5. Cardinality(Packet) \in Nat
  BY FS_CardinalityType, PacketAssumption, Zenon
<1>. QED
  BY <1>1, <1>2, <1>4, <1>5, QlenAssumption


-----------------------------------------------------------------------------
(***************************************************************************)
(* What the four list manipulations do to a list, as facts about IsList.   *)
(***************************************************************************)

(* A step that keeps the links and the places of a list's packets, and     *)
(* brings no packet to its place, keeps the list.                          *)
LEMMA StepFrame ==
  ASSUME NEW s \in Seq(Packet), NEW f, NEW l, NEW n, NEW w,
         IsList(pnext, where, s, f, l, n, w),
         \A p \in Packet : where[p] = w => pnext'[p] = pnext[p],
         \A p \in Packet : where'[p] = w <=> where[p] = w
  PROVE  IsList(pnext', where', s, f, l, n, w)
<1>1. \A i \in 1 .. Len(s) : s[i] \in Packet
  OBVIOUS
<1>2. s # <<>> => Len(s) \in 1 .. Len(s)
  OBVIOUS
<1>3. \A i \in 1 .. Len(s) - 1 : i \in 1 .. Len(s)
  OBVIOUS
<1>. QED
  BY <1>1, <1>2, <1>3 DEF IsList

(* A length that fits is not changed by the modulus. *)
LEMMA ModSmall ==
  ASSUME NEW m \in 0 .. QlenModulus - 1
  PROVE  m % QlenModulus = m
BY QlenAssumption

(* queue_packet: linking p behind the last packet appends p to the list.   *)
LEMMA ListAppend ==
  ASSUME NEW pn \in [Packet -> Packet \cup {NULL}], NEW wh,
         NEW s \in Seq(Packet), NEW f, NEW l, NEW n, NEW w, NEW p \in Packet,
         NEW f2, NEW pn2, NEW wh2,
         IsList(pn, wh, s, f, l, n, w),
         wh[p] # w, pn[p] = NULL,
         \A x \in Packet : wh2[x] = IF x = p THEN w ELSE wh[x],
         s = <<>> => f2 = p /\ pn2 = pn,
         s # <<>> => f2 = f /\ pn2 = [pn EXCEPT ![l] = p]
  PROVE  IsList(pn2, wh2, Append(s, p), f2, p, n + 1, w)
<1>. DEFINE t == Append(s, p)
<1>1. /\ t \in Seq(Packet) /\ Len(t) = Len(s) + 1 /\ Len(s) \in Nat
      /\ t[Len(t)] = p /\ t # <<>>
      /\ \A i \in 1 .. Len(s) : t[i] = s[i] /\ s[i] \in Packet
  OBVIOUS
<1>2. \A i \in 1 .. Len(s) : s[i] # p
  BY <1>1 DEF IsList
<1>3. n + 1 = Len(t)
  BY <1>1, Zenon DEF IsList
<1>4. f2 = t[1] /\ pn2[p] = NULL
  <2>1. CASE s = <<>>
    BY <2>1, <1>1
  <2>2. CASE s # <<>>
    <3>1. 1 \in 1 .. Len(s) /\ Len(s) \in 1 .. Len(s)
      BY <2>2, <1>1
    <3>. QED
      BY <2>2, <3>1, <1>1, <1>2 DEF IsList
  <2>. QED
    BY <2>1, <2>2, Zenon
<1>5. ASSUME NEW i \in 1 .. Len(t) - 1
      PROVE  pn2[t[i]] = t[i + 1]
  <2>1. i \in 1 .. Len(s) /\ s # <<>> /\ Len(s) \in 1 .. Len(s)
    BY <1>1
  <2>2. l = s[Len(s)] /\ pn2 = [pn EXCEPT ![l] = p] /\ l \in Packet
    BY <2>1, <1>1 DEF IsList
  <2>3. CASE i = Len(s)
    BY <2>1, <2>2, <2>3, <1>1, Zenon
  <2>4. CASE i # Len(s)
    <3>1. i + 1 \in 1 .. Len(s) /\ i \in 1 .. Len(s) - 1
      BY <2>1, <2>4, <1>1
    <3>2. pn[s[i]] = s[i + 1] /\ s[i] # s[Len(s)]
      BY <2>1, <2>4, <3>1 DEF IsList
    <3>. QED
      BY <2>1, <2>2, <3>1, <3>2, <1>1
  <2>. QED
    BY <2>3, <2>4, Zenon
<1>6. \A i, j \in 1 .. Len(t) : t[i] = t[j] => i = j
  <2>. SUFFICES ASSUME NEW i \in 1 .. Len(t), NEW j \in 1 .. Len(t), t[i] = t[j]
                PROVE  i = j
    BY Zenon
  <2>1. (i \in 1 .. Len(s) \/ i = Len(t)) /\ (j \in 1 .. Len(s) \/ j = Len(t))
    BY <1>1
  <2>. QED
    BY <2>1, <1>1, <1>2 DEF IsList
<1>7. \A i \in 1 .. Len(t) : wh2[t[i]] = w
  <2>. SUFFICES ASSUME NEW i \in 1 .. Len(t)
                PROVE  wh2[t[i]] = w
    BY Zenon
  <2>1. i \in 1 .. Len(s) \/ i = Len(t)
    BY <1>1
  <2>. QED
    BY <2>1, <1>1, <1>2 DEF IsList
<1>8. \A x \in Packet : wh2[x] = w => \E i \in 1 .. Len(t) : t[i] = x
  <2>. SUFFICES ASSUME NEW x \in Packet, wh2[x] = w
                PROVE  \E i \in 1 .. Len(t) : t[i] = x
    BY Zenon
  <2>1. CASE x = p
    <3>1. Len(t) \in 1 .. Len(t)
      BY <1>1
    <3>. QED
      BY <2>1, <3>1, <1>1, Zenon
  <2>2. CASE x # p
    <3>1. PICK i \in 1 .. Len(s) : s[i] = x
      BY <2>2 DEF IsList
    <3>2. i \in 1 .. Len(t)
      BY <1>1
    <3>. QED
      BY <3>1, <3>2, <1>1, Zenon
  <2>. QED
    BY <2>1, <2>2, Zenon
<1>. QED
  BY <1>1, <1>3, <1>4, <1>5, <1>6, <1>7, <1>8 DEF IsList

(* dequeue_packet: taking the first packet leaves the tail of the list.    *)
(* The last packet recorded in the queue stays right, or the list is empty *)
(* and it no longer matters.                                               *)
LEMMA ListTail ==
  ASSUME NEW pn \in [Packet -> Packet \cup {NULL}], NEW wh,
         NEW s \in Seq(Packet), NEW f \in Packet, NEW l, NEW n, NEW w,
         NEW pn2, NEW wh2,
         IsList(pn, wh, s, f, l, n, w),
         s # <<>>, wh2[f] # w,
         pn2 = [pn EXCEPT ![f] = NULL],
         \A x \in Packet : x # f => wh2[x] = wh[x]
  PROVE  IsList(pn2, wh2, Tail(s), pn[f], l, n - 1, w)
<1>. DEFINE t == Tail(s)
<1>1. /\ t \in Seq(Packet) /\ Len(t) = Len(s) - 1 /\ Len(s) \in Nat
      /\ Len(t) \in Nat /\ Len(s) >= 1
      /\ \A i \in 1 .. Len(t) : t[i] = s[i + 1] /\ i + 1 \in 1 .. Len(s)
      /\ \A i \in 1 .. Len(s) : s[i] \in Packet
  OBVIOUS
<1>2. f = s[1] /\ n = Len(s) /\ 1 \in 1 .. Len(s)
  BY <1>1 DEF IsList
<1>3. \A i \in 1 .. Len(t) : t[i] # f /\ t[i] \in Packet
  <2>1. \A i \in 1 .. Len(t) : i + 1 # 1
    BY <1>1
  <2>. QED
    BY <1>1, <1>2, <2>1 DEF IsList
<1>4. t = <<>> => pn[f] = NULL
  <2>1. Len(<<>>) = 0
    BY Zenon
  <2>2. t = <<>> => Len(s) = 1
    <3>. HIDE DEF t
    <3>. QED
      BY <2>1, <1>1
  <2>. QED
    BY <2>2, <1>2, Zenon DEF IsList
<1>5. t # <<>> => pn[f] = t[1] /\ l = t[Len(t)] /\ pn2[t[Len(t)]] = NULL
  <2>. SUFFICES ASSUME t # <<>>
                PROVE  pn[f] = t[1] /\ l = t[Len(t)] /\ pn2[t[Len(t)]] = NULL
    BY Zenon
  <2>1. Len(t) >= 1 /\ 1 \in 1 .. Len(t) /\ Len(t) \in 1 .. Len(t)
    BY <1>1
  <2>2. 1 \in 1 .. Len(s) - 1
    BY <2>1, <1>1, Zenon
  <2>3. pn[f] = s[1 + 1] /\ t[1] = s[1 + 1] /\ t[Len(t)] = s[Len(s)]
    BY <2>1, <2>2, <1>1, <1>2 DEF IsList
  <2>4. l = s[Len(s)] /\ pn[s[Len(s)]] = NULL
    BY Zenon DEF IsList
  <2>. QED
    BY <2>1, <2>3, <2>4, <1>3, Zenon
<1>6. \A i \in 1 .. Len(t) - 1 : pn2[t[i]] = t[i + 1]
  <2>. SUFFICES ASSUME NEW i \in 1 .. Len(t) - 1
                PROVE  pn2[t[i]] = t[i + 1]
    BY Zenon
  <2>1. /\ i \in 1 .. Len(t) /\ i + 1 \in 1 .. Len(t)
        /\ i + 1 \in 1 .. Len(s) - 1
    BY <1>1
  <2>2. pn[s[i + 1]] = s[(i + 1) + 1]
    BY <2>1, Zenon DEF IsList
  <2>. QED
    BY <2>1, <2>2, <1>1, <1>3
<1>7. \A i, j \in 1 .. Len(t) : t[i] = t[j] => i = j
  <2>. SUFFICES ASSUME NEW i \in 1 .. Len(t), NEW j \in 1 .. Len(t), t[i] = t[j]
                PROVE  i = j
    BY Zenon
  <2>1. i + 1 = j + 1
    BY <1>1 DEF IsList
  <2>. QED
    BY <2>1
<1>8. \A i \in 1 .. Len(t) : wh2[t[i]] = w
  BY <1>1, <1>3 DEF IsList
<1>9. \A x \in Packet : wh2[x] = w => \E i \in 1 .. Len(t) : t[i] = x
  <2>. SUFFICES ASSUME NEW x \in Packet, wh2[x] = w
                PROVE  \E i \in 1 .. Len(t) : t[i] = x
    BY Zenon
  <2>1. x # f /\ wh[x] = w
    BY Zenon
  <2>2. PICK i \in 1 .. Len(s) : s[i] = x
    BY <2>1, Zenon DEF IsList
  <2>3. i # 1
    BY <2>1, <2>2, <1>2
  <2>4. i - 1 \in 1 .. Len(t) /\ (i - 1) + 1 = i
    BY <2>3, <1>1
  <2>5. t[i - 1] = s[i]
    BY <2>4, <1>1, Zenon
  <2>. QED
    BY <2>2, <2>4, <2>5, Zenon
<1>. QED
  BY <1>1, <1>2, <1>4, <1>5, <1>6, <1>7, <1>8, <1>9 DEF IsList

(* move_queued_packets: linking the moved list behind a non-empty one      *)
(* concatenates the two.                                                   *)
LEMMA ListConcat ==
  ASSUME pnext \in [Packet -> Packet \cup {NULL}],
         NEW s \in Seq(Packet), NEW f, NEW l, NEW n, NEW w,
         NEW t \in Seq(Packet), NEW f2, NEW l2, NEW n2,
         IsList(pnext, where, s, f, l, n, w),
         IsList(pnext, where, t, f2, l2, n2, Moving),
         s # <<>>, t # <<>>, w # Moving,
         pnext' = [pnext EXCEPT ![l] = f2],
         \A x \in Packet : where'[x] = IF where[x] = Moving THEN w ELSE where[x]
  PROVE  IsList(pnext', where', s \o t, f, l2, n + n2, w)
<1>. DEFINE u == s \o t
            m == Len(s)
            k == Len(t)
<1>1. /\ u \in Seq(Packet) /\ Len(u) = m + k
      /\ m \in Nat /\ k \in Nat /\ m >= 1 /\ k >= 1
      /\ \A i \in 1 .. m : u[i] = s[i] /\ s[i] \in Packet
      /\ \A i \in 1 .. k : u[m + i] = t[i] /\ t[i] \in Packet
      /\ u # <<>>
  OBVIOUS
<1>a. \A i \in m + 1 .. m + k : u[i] = t[i - m] /\ i - m \in 1 .. k
  BY <1>1
<1>b. \A i \in 1 .. Len(u) : i \in 1 .. m \/ i \in m + 1 .. m + k
  BY <1>1
<1>2. /\ n = m /\ n2 = k /\ f = s[1] /\ f2 = t[1] /\ l = s[m] /\ l2 = t[k]
      /\ pnext[t[k]] = NULL /\ m \in 1 .. m /\ k \in 1 .. k /\ 1 \in 1 .. m /\ 1 \in 1 .. k
  BY <1>1 DEF IsList
<1>3. \A i \in 1 .. m : \A j \in 1 .. k : s[i] # t[j]
  BY DEF IsList
<1>4. f = u[1] /\ l2 = u[Len(u)] /\ pnext'[u[Len(u)]] = NULL
  <2>1. u[1] = s[1] /\ u[Len(u)] = t[k]
    BY <1>1, <1>2
  <2>2. t[k] # l
    BY <1>2, <1>3, Zenon
  <2>. QED
    BY <2>1, <2>2, <1>1, <1>2, Zenon
<1>5. \A i \in 1 .. Len(u) - 1 : pnext'[u[i]] = u[i + 1]
  <2>. SUFFICES ASSUME NEW i \in 1 .. Len(u) - 1
                PROVE  pnext'[u[i]] = u[i + 1]
    BY Zenon
  <2>1. CASE i \in 1 .. m - 1
    <3>1. i \in 1 .. m /\ i + 1 \in 1 .. m /\ i # m
      BY <2>1, <1>1
    <3>2. pnext[s[i]] = s[i + 1] /\ s[i] # l
      BY <2>1, <3>1, <1>2, Zenon DEF IsList
    <3>. QED
      BY <3>1, <3>2, <1>1
  <2>2. CASE i = m
    <3>1. u[i] = l /\ u[i + 1] = t[1]
      BY <2>2, <1>1, <1>2, Zenon
    <3>. QED
      BY <3>1, <1>1, <1>2
  <2>3. CASE i \in m + 1 .. m + k - 1
    <3>1. /\ i - m \in 1 .. k - 1 /\ i - m \in 1 .. k /\ (i - m) + 1 \in 1 .. k
          /\ i + 1 \in m + 1 .. m + k /\ (i + 1) - m = (i - m) + 1
          /\ i \in m + 1 .. m + k
      BY <2>3, <1>1
    <3>2. pnext[t[i - m]] = t[(i - m) + 1]
      BY <3>1, Zenon DEF IsList
    <3>3. t[i - m] # l
      BY <3>1, <1>2, <1>3, Zenon
    <3>4. u[i] = t[i - m] /\ u[i + 1] = t[(i - m) + 1] /\ t[i - m] \in Packet
      BY <3>1, <1>a, <1>1, SMTT(30)
    <3>. QED
      BY <3>2, <3>3, <3>4
  <2>4. i \in 1 .. m - 1 \/ i = m \/ i \in m + 1 .. m + k - 1
    BY <1>1
  <2>. QED
    BY <2>1, <2>2, <2>3, <2>4
<1>6. \A i, j \in 1 .. Len(u) : u[i] = u[j] => i = j
  <2>. SUFFICES ASSUME NEW i \in 1 .. Len(u), NEW j \in 1 .. Len(u), u[i] = u[j]
                PROVE  i = j
    BY Zenon
  <2>1. CASE i \in 1 .. m /\ j \in 1 .. m
    BY <2>1, <1>1 DEF IsList
  <2>2. CASE i \in m + 1 .. m + k /\ j \in m + 1 .. m + k
    <3>1. i - m = j - m
      BY <2>2, <1>a DEF IsList
    <3>. QED
      BY <3>1, <1>1
  <2>3. CASE i \in 1 .. m /\ j \in m + 1 .. m + k
    BY <2>3, <1>1, <1>a, <1>3
  <2>4. CASE j \in 1 .. m /\ i \in m + 1 .. m + k
    BY <2>4, <1>1, <1>a, <1>3
  <2>. QED
    BY <2>1, <2>2, <2>3, <2>4, <1>b, Zenon
<1>7. \A i \in 1 .. Len(u) : where'[u[i]] = w
  <2>. SUFFICES ASSUME NEW i \in 1 .. Len(u)
                PROVE  where'[u[i]] = w
    BY Zenon
  <2>1. CASE i \in 1 .. m
    BY <2>1, <1>1 DEF IsList
  <2>2. CASE i \in m + 1 .. m + k
    BY <2>2, <1>1, <1>a DEF IsList
  <2>. QED
    BY <2>1, <2>2, <1>b, Zenon
<1>8. \A x \in Packet : where'[x] = w => \E i \in 1 .. Len(u) : u[i] = x
  <2>. SUFFICES ASSUME NEW x \in Packet, where'[x] = w
                PROVE  \E i \in 1 .. Len(u) : u[i] = x
    BY Zenon
  <2>1. CASE where[x] = Moving
    <3>1. PICK i \in 1 .. k : t[i] = x
      BY <2>1, Zenon DEF IsList
    <3>2. m + i \in 1 .. Len(u)
      BY <1>1
    <3>. QED
      BY <3>1, <3>2, <1>1
  <2>2. CASE where[x] # Moving
    <3>1. PICK i \in 1 .. m : s[i] = x
      BY <2>2 DEF IsList
    <3>2. i \in 1 .. Len(u)
      BY <1>1
    <3>. QED
      BY <3>1, <3>2, <1>1, Zenon
  <2>. QED
    BY <2>1, <2>2, Zenon
<1>9. n + n2 = Len(u)
  BY <1>1, <1>2, Zenon
<1>. QED
  BY <1>1, <1>4, <1>5, <1>6, <1>7, <1>8, <1>9 DEF IsList

-----------------------------------------------------------------------------
(***************************************************************************)
(* The invariant, action by action.                                        *)
(***************************************************************************)

PQInv == PQTypeOK /\ ListsIntact

(* Empty queues are well formed. *)
LEMMA InitInv == PQInit => PQInv
<1>. SUFFICES ASSUME PQInit
              PROVE  PQInv
  BY Zenon
<1>1. PQTypeOK
  BY QlenAssumption, PacketAssumption, FS_CardinalityType
     DEF PQInit, PQTypeOK, NoMove
<1>2. ListsIntact
  BY PlaceAssumption DEF PQInit, ListsIntact, IsList, NoMove, Heap, Held, Moving
<1>. QED
  BY <1>1, <1>2, Zenon DEF PQInv

(* A new packet is in no list. *)
LEMMA NewPacketInv ==
  ASSUME PQInv, NEW p \in Packet, newpacket(p)
  PROVE  PQInv'
<1>. USE DEF PQInv
<1>1. PQTypeOK'
  BY Zenon DEF PQTypeOK, newpacket
<1>2. \A x \in Packet : where'[x] = IF x = p THEN Held ELSE where[x]
  BY Zenon DEF PQTypeOK, newpacket
<1>3. where[p] = Heap /\ pnext[p] = NULL
  BY Zenon DEF newpacket, ListsIntact
<1>4. pnext' = pnext
  BY <1>3, Zenon DEF newpacket, PQTypeOK
<1>5. ASSUME NEW q \in Queue
      PROVE  IsList(pnext, where, chain[q], next[q], prev[q], qlen[q], q)'
  <2>1. IsList(pnext, where, chain[q], next[q], prev[q], qlen[q], q)
    BY Zenon DEF ListsIntact
  <2>2. q # Heap /\ q # Held /\ chain[q] \in Seq(Packet)
    BY PlaceAssumption, Zenon DEF PQTypeOK
  <2>3. IsList(pnext', where', chain[q], next[q], prev[q], qlen[q], q)
    BY <2>1, <2>2, <1>2, <1>3, <1>4, StepFrame, Zenon
  <2>. QED
    BY <2>3, Zenon DEF newpacket
<1>6. IsList(pnext, where, mchain, move.start, move.end, move.qlen, Moving)'
  <2>1. IsList(pnext, where, mchain, move.start, move.end, move.qlen, Moving)
    BY Zenon DEF ListsIntact
  <2>2. Moving # Heap /\ Moving # Held /\ mchain \in Seq(Packet)
    BY Zenon DEF PQTypeOK, Moving, Heap, Held
  <2>3. IsList(pnext', where', mchain, move.start, move.end, move.qlen, Moving)
    BY <2>1, <2>2, <1>2, <1>3, <1>4, StepFrame
  <2>. QED
    BY <2>3, Zenon DEF newpacket
<1>7. \A x \in Packet : where'[x] \in {Heap, Held} => pnext'[x] = NULL
  BY <1>2, <1>3, <1>4, Zenon DEF ListsIntact
<1>. QED
  BY <1>1, <1>5, <1>6, <1>7, Zenon DEF ListsIntact

(* queue_packet appends to the list. *)
LEMMA QueuePacketInv ==
  ASSUME PQInv, NEW q \in Queue, NEW p \in Packet, queue_packet(q, p)
  PROVE  PQInv'
<1>. USE DEF PQInv
<1>1. IsList(pnext, where, chain[q], next[q], prev[q], qlen[q], q)
  BY Zenon DEF ListsIntact
<1>2. /\ chain[q] \in Seq(Packet) /\ qlen[q] = Len(chain[q]) /\ Len(chain[q]) \in Nat
      /\ q # Held /\ q # Heap /\ q # Moving
      /\ where[p] = Held /\ pnext[p] = NULL
      /\ pnext \in [Packet -> Packet \cup {NULL}]
  BY <1>1, PlaceAssumption DEF PQTypeOK, IsList, queue_packet, ListsIntact
<1>3. /\ where' = [where EXCEPT ![p] = q]
      /\ \A x \in Packet : where'[x] = IF x = p THEN q ELSE where[x]
      /\ where' \in [Packet -> Queue \cup {Heap, Held, Moving}]
  BY Zenon DEF PQTypeOK, queue_packet
<1>4. chain[q] = <<>> <=> qlen[q] = 0
  BY <1>2
<1>5. /\ chain[q] = <<>> => next'[q] = p /\ pnext' = pnext
      /\ chain[q] # <<>> => next'[q] = next[q] /\ pnext' = [pnext EXCEPT ![prev[q]] = p]
      /\ prev'[q] = p /\ chain'[q] = Append(chain[q], p)
  BY <1>4, Zenon DEF queue_packet, LinkLast, PQTypeOK
<1>6. chain[q] # <<>> => prev[q] \in Packet /\ where[prev[q]] = q
  <2>. SUFFICES ASSUME chain[q] # <<>>
                PROVE  prev[q] \in Packet /\ where[prev[q]] = q
    BY Zenon
  <2>1. Len(chain[q]) \in 1 .. Len(chain[q])
    BY <1>2
  <2>. QED
    BY <2>1, <1>1, <1>2 DEF IsList
<1>7. \A x \in Packet : where[x] # q => pnext'[x] = pnext[x]
  BY <1>2, <1>5, <1>6
<1>8. IsList(pnext', where', chain'[q], next'[q], prev'[q], qlen[q] + 1, q)
  <2>1. IsList(pnext', where', Append(chain[q], p), next'[q], p, qlen[q] + 1, q)
    BY <1>1, <1>2, <1>3, <1>5, ListAppend, ZenonT(30)
  <2>. QED
    BY <2>1, <1>5, Zenon
<1>9. /\ chain'[q] \in Seq(Packet) /\ Len(chain'[q]) = qlen[q] + 1
      /\ qlen'[q] = qlen[q] + 1 /\ qlen'[q] \in 0 .. QlenModulus - 1
  <2>1. chain'[q] \in Seq(Packet) /\ Len(chain'[q]) = qlen[q] + 1
    BY <1>2, <1>5
  <2>2. Len(chain'[q]) \in 0 .. QlenModulus - 1
    BY <2>1, <1>8, LengthBound, Zenon DEF IsList
  <2>3. qlen'[q] = (qlen[q] + 1) % QlenModulus
    BY Zenon DEF queue_packet, PQTypeOK
  <2>. QED
    BY <2>1, <2>2, <2>3, <1>2, ModSmall, Zenon
<1>10. PQTypeOK'
  <2>1. next' \in [Queue -> Packet \cup {NULL}] /\ prev' \in [Queue -> Packet \cup {NULL}]
    <3>1. next' \in {next, [next EXCEPT ![q] = p]} /\ prev' = [prev EXCEPT ![q] = p]
      BY Zenon DEF queue_packet, LinkLast
    <3>. QED
      BY <3>1, Zenon DEF PQTypeOK
  <2>2. pnext' \in [Packet -> Packet \cup {NULL}]
    BY <1>2, <1>5, Zenon
  <2>3. qlen' \in [Queue -> 0 .. QlenModulus - 1]
    BY <1>9, Zenon DEF PQTypeOK, queue_packet
  <2>4. chain' \in [Queue -> Seq(Packet)]
    BY <1>9, Zenon DEF PQTypeOK, queue_packet
  <2>. QED
    BY <2>1, <2>2, <2>3, <2>4, <1>3, Zenon DEF PQTypeOK, queue_packet
<1>11. ASSUME NEW r \in Queue
       PROVE  IsList(pnext, where, chain[r], next[r], prev[r], qlen[r], r)'
  <2>1. CASE r = q
    BY <2>1, <1>8, <1>9, Zenon
  <2>2. CASE r # q
    <3>1. /\ chain'[r] = chain[r] /\ next'[r] = next[r] /\ prev'[r] = prev[r]
          /\ qlen'[r] = qlen[r] /\ chain[r] \in Seq(Packet) /\ r # Held
      BY <2>2, PlaceAssumption DEF PQTypeOK, queue_packet, LinkLast
    <3>2. IsList(pnext, where, chain[r], next[r], prev[r], qlen[r], r)
      BY Zenon DEF ListsIntact
    <3>3. /\ \A x \in Packet : where[x] = r => pnext'[x] = pnext[x]
          /\ \A x \in Packet : where'[x] = r <=> where[x] = r
      BY <2>2, <3>1, <1>2, <1>3, <1>7, Zenon
    <3>4. IsList(pnext', where', chain[r], next[r], prev[r], qlen[r], r)
      BY <3>1, <3>2, <3>3, StepFrame, Zenon
    <3>. QED
      BY <3>1, <3>4, Zenon
  <2>. QED
    BY <2>1, <2>2, Zenon
<1>12. IsList(pnext, where, mchain, move.start, move.end, move.qlen, Moving)'
  <2>1. IsList(pnext, where, mchain, move.start, move.end, move.qlen, Moving)
    BY Zenon DEF ListsIntact
  <2>2. /\ \A x \in Packet : where[x] = Moving => pnext'[x] = pnext[x]
        /\ \A x \in Packet : where'[x] = Moving <=> where[x] = Moving
        /\ mchain \in Seq(Packet)
    BY <1>2, <1>3, <1>7, Zenon DEF Moving, Held, PQTypeOK
  <2>3. IsList(pnext', where', mchain, move.start, move.end, move.qlen, Moving)
    BY <2>1, <2>2, StepFrame, Zenon
  <2>. QED
    BY <2>3, Zenon DEF queue_packet
<1>13. \A x \in Packet : where'[x] \in {Heap, Held} => pnext'[x] = NULL
  BY <1>2, <1>3, <1>7, Zenon DEF ListsIntact
<1>. QED
  BY <1>10, <1>11, <1>12, <1>13, Zenon DEF ListsIntact

(* dequeue_packet takes the first packet, the oldest one, and finds one    *)
(* whenever there is one.                                                  *)
LEMMA DequeuePacketInv ==
  ASSUME PQInv, NEW q \in Queue, dequeue_packet(q)
  PROVE  PQInv' /\ chain[q] # <<>> /\ next[q] = chain[q][1]
<1>. USE DEF PQInv
<1>. DEFINE p == next[q]
<1>1. IsList(pnext, where, chain[q], next[q], prev[q], qlen[q], q)
  BY Zenon DEF ListsIntact
<1>2. /\ chain[q] \in Seq(Packet) /\ qlen[q] = Len(chain[q]) /\ Len(chain[q]) \in Nat
      /\ q # Held /\ q # Heap /\ q # Moving /\ Held # Moving
      /\ p \in Packet /\ chain[q] # <<>> /\ p = chain[q][1]
      /\ pnext \in [Packet -> Packet \cup {NULL}]
  BY <1>1, PlaceAssumption DEF PQTypeOK, IsList, dequeue_packet, Moving, Held
<1>3. where[p] = q
  <2>1. 1 \in 1 .. Len(chain[q])
    BY <1>2
  <2>. QED
    BY <2>1, <1>1, <1>2 DEF IsList
<1>4. /\ \A x \in Packet : where'[x] = IF x = p THEN Held ELSE where[x]
      /\ where' \in [Packet -> Queue \cup {Heap, Held, Moving}]
  BY <1>2 DEF PQTypeOK, dequeue_packet
<1>5. /\ pnext' = [pnext EXCEPT ![p] = NULL]
      /\ next'[q] = pnext[p] /\ prev'[q] = prev[q]
      /\ chain'[q] = Tail(chain[q])
  BY <1>2, Zenon DEF PQTypeOK, dequeue_packet
<1>6. IsList(pnext', where', chain'[q], next'[q], prev'[q], qlen[q] - 1, q)
  <2>1. IsList(pnext', where', Tail(chain[q]), pnext[p], prev[q], qlen[q] - 1, q)
    <3>. HIDE DEF p
    <3>1. IsList(pnext, where, chain[q], p, prev[q], qlen[q], q)
      BY <1>1, Zenon DEF p
    <3>2. where'[p] # q /\ \A x \in Packet : x # p => where'[x] = where[x]
      BY <1>2, <1>4
    <3>3. /\ chain[q] \in Seq(Packet) /\ chain[q] # <<>> /\ p \in Packet
          /\ pnext \in [Packet -> Packet \cup {NULL}]
          /\ pnext' = [pnext EXCEPT ![p] = NULL]
      BY <1>2, <1>5, Zenon
    <3>. QED
      BY <3>1, <3>2, <3>3, ListTail, Zenon
  <2>. QED
    BY <2>1, <1>5, Zenon
<1>7. /\ chain'[q] \in Seq(Packet) /\ qlen'[q] = qlen[q] - 1
      /\ qlen'[q] \in 0 .. QlenModulus - 1
  <2>1. qlen[q] - 1 \in 0 .. QlenModulus - 1
    BY <1>2, QlenAssumption DEF PQTypeOK
  <2>2. qlen'[q] = (qlen[q] - 1) % QlenModulus
    BY Zenon DEF dequeue_packet, PQTypeOK
  <2>3. chain'[q] \in Seq(Packet)
    BY <1>2, <1>5
  <2>. QED
    BY <2>1, <2>2, <2>3, ModSmall, Zenon
<1>8. PQTypeOK'
  <2>1. next' \in [Queue -> Packet \cup {NULL}] /\ prev' \in [Queue -> Packet \cup {NULL}]
    BY <1>2 DEF PQTypeOK, dequeue_packet
  <2>2. pnext' \in [Packet -> Packet \cup {NULL}]
    BY <1>2, <1>5, Zenon
  <2>3. qlen' \in [Queue -> 0 .. QlenModulus - 1]
    BY <1>7, Zenon DEF PQTypeOK, dequeue_packet
  <2>4. chain' \in [Queue -> Seq(Packet)]
    BY <1>7 DEF PQTypeOK, dequeue_packet
  <2>. QED
    BY <2>1, <2>2, <2>3, <2>4, <1>4 DEF PQTypeOK, dequeue_packet
<1>9. ASSUME NEW r \in Queue
      PROVE  IsList(pnext, where, chain[r], next[r], prev[r], qlen[r], r)'
  <2>1. CASE r = q
    BY <2>1, <1>6, <1>7, Zenon
  <2>2. CASE r # q
    <3>1. /\ chain'[r] = chain[r] /\ next'[r] = next[r] /\ prev'[r] = prev[r]
          /\ qlen'[r] = qlen[r] /\ chain[r] \in Seq(Packet) /\ r # Held
      BY <2>2, PlaceAssumption DEF PQTypeOK, dequeue_packet
    <3>2. IsList(pnext, where, chain[r], next[r], prev[r], qlen[r], r)
      BY Zenon DEF ListsIntact
    <3>3. \A x \in Packet : where[x] = r => pnext'[x] = pnext[x]
      BY <2>2, <1>2, <1>3, <1>5
    <3>4. \A x \in Packet : where'[x] = r <=> where[x] = r
      BY <2>2, <3>1, <1>3, <1>4
    <3>5. IsList(pnext', where', chain[r], next[r], prev[r], qlen[r], r)
      BY <3>1, <3>2, <3>3, <3>4, StepFrame, Zenon
    <3>. QED
      BY <3>1, <3>5
  <2>. QED
    BY <2>1, <2>2, Zenon
<1>10. IsList(pnext, where, mchain, move.start, move.end, move.qlen, Moving)'
  <2>1. IsList(pnext, where, mchain, move.start, move.end, move.qlen, Moving)
    BY Zenon DEF ListsIntact
  <2>2. \A x \in Packet : where[x] = Moving => pnext'[x] = pnext[x]
    BY <1>2, <1>3, <1>5, Zenon
  <2>3. \A x \in Packet : where'[x] = Moving <=> where[x] = Moving
    BY <1>2, <1>3, <1>4
  <2>4. IsList(pnext', where', mchain, move.start, move.end, move.qlen, Moving)
    BY <2>1, <2>2, <2>3, StepFrame, Zenon DEF PQTypeOK
  <2>. QED
    BY <2>4, Zenon DEF dequeue_packet
<1>11. \A x \in Packet : where'[x] \in {Heap, Held} => pnext'[x] = NULL
  BY <1>2, <1>4, <1>5, Zenon DEF ListsIntact
<1>. QED
  BY <1>2, <1>8, <1>9, <1>10, <1>11, Zenon DEF ListsIntact

(* move_queued_packets takes all packets of a queue, which is empty then. *)
LEMMA MoveFromInv ==
  ASSUME PQInv, NEW q \in Queue, move_from(q)
  PROVE  PQInv'
<1>. USE DEF PQInv
<1>1. IsList(pnext, where, chain[q], next[q], prev[q], qlen[q], q)
  BY Zenon DEF ListsIntact
<1>2. /\ chain[q] \in Seq(Packet) /\ q # Held /\ q # Heap /\ q # Moving
      /\ mchain = <<>> /\ pnext' = pnext
      /\ Held # Moving /\ Heap # Moving
  BY PlaceAssumption, Zenon DEF PQTypeOK, move_from, Heap, Held, Moving
<1>3. \A x \in Packet : where[x] # Moving
  BY <1>2 DEF ListsIntact, IsList
<1>4. /\ \A x \in Packet : where'[x] = IF where[x] = q THEN Moving ELSE where[x]
      /\ where' \in [Packet -> Queue \cup {Heap, Held, Moving}]
  BY Zenon DEF PQTypeOK, move_from
<1>5. /\ next'[q] = NULL /\ qlen'[q] = 0 /\ chain'[q] = <<>>
      /\ mchain' = chain[q]
      /\ move'.start = next[q] /\ move'.end = prev[q] /\ move'.qlen = qlen[q]
  BY Zenon DEF PQTypeOK, move_from
<1>6. PQTypeOK'
  <2>1. 0 \in 0 .. QlenModulus - 1
    BY QlenAssumption, PacketAssumption, FS_CardinalityType
  <2>. QED
    BY <2>1, <1>2, <1>4, Zenon DEF PQTypeOK, move_from
<1>7. ASSUME NEW r \in Queue
      PROVE  IsList(pnext, where, chain[r], next[r], prev[r], qlen[r], r)'
  <2>1. CASE r = q
    <3>1. \A x \in Packet : where'[x] # q
      BY <1>2, <1>4, Zenon
    <3>. QED
      BY <2>1, <3>1, <1>5 DEF IsList
  <2>2. CASE r # q
    <3>1. /\ chain'[r] = chain[r] /\ next'[r] = next[r] /\ prev'[r] = prev[r]
          /\ qlen'[r] = qlen[r] /\ chain[r] \in Seq(Packet) /\ r # Moving
      BY <2>2, PlaceAssumption, Zenon DEF PQTypeOK, move_from
    <3>2. IsList(pnext, where, chain[r], next[r], prev[r], qlen[r], r)
      BY Zenon DEF ListsIntact
    <3>3. \A x \in Packet : where[x] = r => pnext'[x] = pnext[x]
      BY <1>2, Zenon
    <3>4. \A x \in Packet : where'[x] = r <=> where[x] = r
      BY <2>2, <3>1, <1>4, Zenon
    <3>5. IsList(pnext', where', chain[r], next[r], prev[r], qlen[r], r)
      BY <3>1, <3>2, <3>3, <3>4, StepFrame
    <3>. QED
      BY <3>1, <3>5, Zenon
  <2>. QED
    BY <2>1, <2>2, Zenon
<1>8. IsList(pnext, where, mchain, move.start, move.end, move.qlen, Moving)'
  <2>1. \A x \in Packet : where'[x] = Moving <=> where[x] = q
    BY <1>2, <1>3, <1>4, Zenon
  <2>2. \A i \in 1 .. Len(chain[q]) : chain[q][i] \in Packet
    BY <1>2
  <2>3. IsList(pnext', where', chain[q], next[q], prev[q], qlen[q], Moving)
    BY <2>1, <2>2, <1>1, <1>2, Zenon DEF IsList
  <2>. QED
    BY <2>3, <1>5, Zenon
<1>9. \A x \in Packet : where'[x] \in {Heap, Held} => pnext'[x] = NULL
  BY <1>2, <1>4, Zenon DEF ListsIntact
<1>. QED
  BY <1>6, <1>7, <1>8, <1>9, Zenon DEF ListsIntact

(* move_queued_packets links what it took behind another queue's packets. *)
LEMMA MoveToInv ==
  ASSUME PQInv, NEW q \in Queue, move_to(q)
  PROVE  PQInv'
<1>. USE DEF PQInv
<1>1. /\ IsList(pnext, where, chain[q], next[q], prev[q], qlen[q], q)
      /\ IsList(pnext, where, mchain, move.start, move.end, move.qlen, Moving)
  BY Zenon DEF ListsIntact
<1>2. /\ chain[q] \in Seq(Packet) /\ mchain \in Seq(Packet) /\ mchain # <<>>
      /\ q # Held /\ q # Heap /\ q # Moving /\ Held # Moving /\ Heap # Moving
      /\ pnext \in [Packet -> Packet \cup {NULL}]
  BY PlaceAssumption, Zenon DEF PQTypeOK, move_to, Heap, Held, Moving
<1>3. /\ \A x \in Packet : where'[x] = IF where[x] = Moving THEN q ELSE where[x]
      /\ where' \in [Packet -> Queue \cup {Heap, Held, Moving}]
  BY Zenon DEF PQTypeOK, move_to
<1>4. /\ prev'[q] = move.end /\ chain'[q] = chain[q] \o mchain
      /\ mchain' = <<>> /\ move' = NoMove
      /\ qlen[q] = Len(chain[q]) /\ move.qlen = Len(mchain)
      /\ Len(chain[q]) \in Nat /\ Len(mchain) \in Nat
  BY <1>1, <1>2 DEF PQTypeOK, move_to, IsList
<1>5. next[q] = NULL <=> chain[q] = <<>>
  <2>1. chain[q] # <<>> => chain[q][1] \in Packet
    BY <1>2
  <2>. QED
    BY <2>1, <1>1, PacketAssumption DEF IsList
<1>6. /\ IsList(pnext', where', chain'[q], next'[q], prev'[q], qlen[q] + move.qlen, q)
      /\ \A x \in Packet : where[x] # q => pnext'[x] = pnext[x]
      /\ pnext' \in [Packet -> Packet \cup {NULL}]
      /\ next'[q] \in Packet \cup {NULL}
      /\ next[q] = NULL => qlen'[q] = move.qlen
      /\ next[q] # NULL => qlen'[q] = (qlen[q] + move.qlen) % QlenModulus
  <2>1. CASE next[q] = NULL
    <3>1. /\ pnext' = pnext /\ next'[q] = move.start /\ qlen'[q] = move.qlen
          /\ move.start \in Packet \cup {NULL}
      BY <2>1, ZenonT(30) DEF PQTypeOK, move_to
    <3>2. \A x \in Packet : where[x] # q
      BY <1>1, <1>5, <2>1 DEF IsList
    <3>3. \A x \in Packet : where'[x] = q <=> where[x] = Moving
      BY <3>2, <1>3, Zenon
    <3>4. chain'[q] = mchain /\ qlen[q] + move.qlen = move.qlen
      BY <2>1, <1>2, <1>4, <1>5
    <3>5. \A i \in 1 .. Len(mchain) : mchain[i] \in Packet
      BY <1>2
    <3>6. IsList(pnext', where', mchain, move.start, move.end, move.qlen, q)
      BY <3>1, <3>3, <3>5, <1>1 DEF IsList
    <3>. QED
      BY <2>1, <3>1, <3>4, <3>6, <1>2, <1>4
  <2>2. CASE next[q] # NULL
    <3>1. /\ pnext' = [pnext EXCEPT ![prev[q]] = move.start] /\ next'[q] = next[q]
          /\ next[q] \in Packet \cup {NULL}
          /\ qlen'[q] = (qlen[q] + move.qlen) % QlenModulus
          /\ move.start \in Packet \cup {NULL}
      BY <2>2 DEF PQTypeOK, move_to
    <3>2. chain[q] # <<>>
      BY <2>2, <1>5, Zenon
    <3>3. IsList(pnext', where', chain[q] \o mchain, next[q], move.end,
                 qlen[q] + move.qlen, q)
      BY <3>1, <3>2, <1>1, <1>2, <1>3, ListConcat, Zenon
    <3>4. prev[q] \in Packet /\ where[prev[q]] = q
      <4>1. Len(chain[q]) \in 1 .. Len(chain[q])
        BY <3>2, <1>2
      <4>. QED
        BY <4>1, <3>2, <1>1, <1>2, SMTT(30) DEF IsList
    <3>. QED
      BY <2>2, <3>1, <3>3, <3>4, <1>2, <1>4
  <2>. QED
    BY <2>1, <2>2, SMTT(30)
<1>7. chain'[q] \in Seq(Packet)
  BY <1>2, <1>4
<1>8. qlen'[q] = qlen[q] + move.qlen /\ qlen'[q] \in 0 .. QlenModulus - 1
  <2>1. qlen[q] + move.qlen \in 0 .. QlenModulus - 1
    <3>1. /\ Len(chain'[q]) = qlen[q] + move.qlen
          /\ \A i, j \in 1 .. Len(chain'[q]) : chain'[q][i] = chain'[q][j] => i = j
      BY <1>6, Zenon DEF IsList
    <3>. QED
      BY <1>7, <3>1, LengthBound, Zenon
  <2>2. next[q] = NULL => qlen[q] + move.qlen = move.qlen
    BY <1>4, <1>5
  <2>. QED
    BY <1>6, <2>1, <2>2, ModSmall
<1>9. PQTypeOK'
  <2>1. next' \in [Queue -> Packet \cup {NULL}] /\ prev' \in [Queue -> Packet \cup {NULL}]
    BY <1>6, Zenon DEF PQTypeOK, move_to
  <2>2. qlen' \in [Queue -> 0 .. QlenModulus - 1]
    BY <1>8, Zenon DEF PQTypeOK, move_to
  <2>3. chain' \in [Queue -> Seq(Packet)]
    BY <1>7, Zenon DEF PQTypeOK, move_to
  <2>4. 0 \in 0 .. QlenModulus - 1
    BY QlenAssumption, PacketAssumption, FS_CardinalityType
  <2>. QED
    BY <2>1, <2>2, <2>3, <2>4, <1>3, <1>4, <1>6 DEF PQTypeOK, NoMove
<1>10. ASSUME NEW r \in Queue
       PROVE  IsList(pnext, where, chain[r], next[r], prev[r], qlen[r], r)'
  <2>1. CASE r = q
    BY <2>1, <1>6, <1>8, Zenon
  <2>2. CASE r # q
    <3>1. /\ chain'[r] = chain[r] /\ next'[r] = next[r] /\ prev'[r] = prev[r]
          /\ qlen'[r] = qlen[r] /\ chain[r] \in Seq(Packet) /\ r # Moving
      BY <2>2, PlaceAssumption, Zenon DEF PQTypeOK, move_to
    <3>2. IsList(pnext, where, chain[r], next[r], prev[r], qlen[r], r)
      BY Zenon DEF ListsIntact
    <3>3. \A x \in Packet : where[x] = r => pnext'[x] = pnext[x]
      BY <2>2, <1>6, Zenon
    <3>4. \A x \in Packet : where'[x] = r <=> where[x] = r
      BY <2>2, <3>1, <1>3, Zenon
    <3>5. IsList(pnext', where', chain[r], next[r], prev[r], qlen[r], r)
      BY <3>1, <3>2, <3>3, <3>4, StepFrame, Zenon
    <3>. QED
      BY <3>1, <3>5
  <2>. QED
    BY <2>1, <2>2, Zenon
<1>11. IsList(pnext, where, mchain, move.start, move.end, move.qlen, Moving)'
  <2>1. \A x \in Packet : where'[x] # Moving
    BY <1>2, <1>3, Zenon
  <2>. QED
    BY <2>1, <1>4 DEF IsList, NoMove
<1>12. \A x \in Packet : where'[x] \in {Heap, Held} => pnext'[x] = NULL
  BY <1>2, <1>3, <1>6, Zenon DEF ListsIntact
<1>. QED
  BY <1>9, <1>10, <1>11, <1>12, Zenon DEF ListsIntact

(* Every step keeps the lists well formed. *)
LEMMA NextInv == PQInv /\ [PQNext]_pqvars => PQInv'
<1>. SUFFICES ASSUME PQInv, [PQNext]_pqvars
              PROVE  PQInv'
  BY Zenon
<1>1. CASE UNCHANGED pqvars
  BY <1>1 DEF pqvars, PQInv, PQTypeOK, ListsIntact, IsList
<1>2. CASE PQNext
  BY <1>2, NewPacketInv, QueuePacketInv, DequeuePacketInv, MoveFromInv, MoveToInv, Zenon
     DEF PQNext
<1>. QED
  BY <1>1, <1>2, Zenon

-----------------------------------------------------------------------------

(* The types hold in every state, for any set of packets and of queues.    *)
THEOREM TypeCorrect == PQSpec => []PQTypeOK
<1>1. PQInv => PQTypeOK
  BY Zenon DEF PQInv
<1>. QED
  BY <1>1, InitInv, NextInv, PTL DEF PQSpec

(* The lists of queuemanager.c are well formed in every state: a queue's   *)
(* next, prev, qlen and links describe the packets queued and not yet      *)
(* taken, and no allocated buffer is lost, however the threads' critical   *)
(* sections interleave.                                                    *)
THEOREM ListsAlwaysIntact == PQSpec => []ListsIntact
<1>1. PQInv => ListsIntact
  BY Zenon DEF PQInv
<1>. QED
  BY <1>1, InitInv, NextInv, PTL DEF PQSpec

(* Empty lists are empty queues. *)
LEMMA FifoInitStep == PQInit => Fifo!FifoInit
BY Zenon DEF PQInit, Fifo!FifoInit, Heap, Held

(* Every step is one of the first-in first-out queues, or changes none. *)
LEMMA FifoNextStep ==
  PQInv /\ [PQNext]_pqvars => [Fifo!FifoNext]_(Fifo!fvars)
<1>. SUFFICES ASSUME PQInv, [PQNext]_pqvars
              PROVE  [Fifo!FifoNext]_(Fifo!fvars)
  BY Zenon
<1>. DEFINE held == {p \in Packet : where[p] = Held}
            heap == {p \in Packet : where[p] = Heap}
<1>0. /\ where \in [Packet -> Queue \cup {Heap, Held, Moving}]
      /\ Heap # Held /\ Heap # Moving /\ Held # Moving
      /\ \A q \in Queue : q # Heap /\ q # Held /\ q # Moving
  BY PlaceAssumption, Zenon DEF PQInv, PQTypeOK, Heap, Held, Moving
<1>1. ASSUME NEW p \in Packet, newpacket(p)
      PROVE  Fifo!Allocate(p)
  <2>1. held' = held \cup {p} /\ heap' = heap \ {p} /\ p \in heap
    BY <1>0, <1>1, Zenon DEF newpacket
  <2>. QED
    BY <2>1, <1>1, Zenon DEF newpacket, Fifo!Allocate
<1>2. ASSUME NEW q \in Queue, NEW p \in Packet, queue_packet(q, p)
      PROVE  Fifo!Put(q, p)
  <2>1. held' = held \ {p} /\ heap' = heap /\ p \in held
    BY <1>0, <1>2, Zenon DEF queue_packet
  <2>. QED
    BY <2>1, <1>2, Zenon DEF queue_packet, Fifo!Put
<1>3. ASSUME NEW q \in Queue, dequeue_packet(q)
      PROVE  Fifo!Get(q)
  <2>1. /\ chain[q] # <<>> /\ next[q] = Head(chain[q])
        /\ chain \in [Queue -> Seq(Packet)]
    BY <1>3, DequeuePacketInv DEF PQInv, PQTypeOK
  <2>2. Head(chain[q]) \in Packet /\ where[Head(chain[q])] = q
    <3>1. chain[q] \in Seq(Packet) /\ IsList(pnext, where, chain[q], next[q], prev[q], qlen[q], q)
      BY <2>1, Zenon DEF PQInv, ListsIntact
    <3>2. 1 \in 1 .. Len(chain[q]) /\ Head(chain[q]) = chain[q][1]
      BY <2>1, <3>1
    <3>3. \A i \in 1 .. Len(chain[q]) : where[chain[q][i]] = q
      BY <3>1, Zenon DEF IsList
    <3>4. Head(chain[q]) \in Packet
      BY <2>1, <3>1
    <3>. QED
      BY <3>2, <3>3, <3>4, Zenon
  <2>3. held' = held \cup {Head(chain[q])} /\ heap' = heap
    BY <1>0, <1>3, <2>1, <2>2 DEF dequeue_packet
  <2>4. chain' = [chain EXCEPT ![q] = Tail(@)] /\ mchain' = mchain
    BY <1>3, <2>1, Zenon DEF dequeue_packet
  <2>. QED
    BY <2>1, <2>3, <2>4, Zenon DEF Fifo!Get
<1>4. ASSUME NEW q \in Queue, move_from(q)
      PROVE  Fifo!MoveOut(q)
  <2>1. held' = held /\ heap' = heap
    BY <1>0, <1>4, Zenon DEF move_from
  <2>. QED
    BY <2>1, <1>4, Zenon DEF move_from, Fifo!MoveOut
<1>5. ASSUME NEW q \in Queue, move_to(q)
      PROVE  Fifo!MoveIn(q)
  <2>1. held' = held /\ heap' = heap
    BY <1>0, <1>5 DEF move_to
  <2>. QED
    BY <2>1, <1>5, Zenon DEF move_to, Fifo!MoveIn
<1>6. CASE UNCHANGED pqvars
  BY <1>6, Zenon DEF pqvars, Fifo!fvars
<1>7. CASE PQNext
  BY <1>7, <1>1, <1>2, <1>3, <1>4, <1>5 DEF PQNext, Fifo!FifoNext
<1>. QED
  BY <1>6, <1>7, Zenon

(* The linked lists implement the first-in first-out queues of PacketFifo. *)
THEOREM ListsImplementFifo == PQSpec => ImplementsFifo
BY InitInv, NextInv, FifoInitStep, FifoNextStep, PTL
   DEF PQSpec, ImplementsFifo, Fifo!FifoSpec


-----------------------------------------------------------------------------
(* The pool *)

(* The types do not depend on the lists being well formed, so they also    *)
(* hold after a start that was not quiet.                                  *)
LEMMA QueueOperationType ==
  ASSUME PQTypeOK, PQNext
  PROVE  PQTypeOK'
<1>. USE DEF PQTypeOK
<1>0. /\ QlenModulus \in Nat /\ QlenModulus > 0
      /\ \A m \in Int : m % QlenModulus \in 0 .. QlenModulus - 1
  BY QlenAssumption, PacketAssumption, FS_CardinalityType
<1>1. ASSUME NEW p \in Packet, newpacket(p)
      PROVE  PQTypeOK'
  BY <1>1, Zenon DEF newpacket
<1>2. ASSUME NEW q \in Queue, NEW p \in Packet, queue_packet(q, p)
      PROVE  PQTypeOK'
  <2>1. /\ next' \in [Queue -> Packet \cup {NULL}] /\ prev' \in [Queue -> Packet \cup {NULL}]
        /\ pnext' \in [Packet -> Packet \cup {NULL}]
    <3>1. CASE qlen[q] = 0
      <4>1. /\ next' = [next EXCEPT ![q] = p] /\ prev' = [prev EXCEPT ![q] = p]
            /\ pnext' = pnext
        BY <1>2, <3>1, Zenon DEF queue_packet, LinkLast
      <4>2. next' \in [Queue -> Packet \cup {NULL}]
        BY <4>1, Zenon
      <4>3. prev' \in [Queue -> Packet \cup {NULL}]
        BY <4>1, Zenon
      <4>. QED
        BY <4>1, <4>2, <4>3, Zenon
    <3>2. CASE qlen[q] # 0
      <4>1. /\ pnext' = [pnext EXCEPT ![prev[q]] = p] /\ UNCHANGED next
            /\ prev' = [prev EXCEPT ![q] = p]
        BY <1>2, <3>2, Zenon DEF queue_packet, LinkLast
      <4>2. pnext' \in [Packet -> Packet \cup {NULL}]
        BY <4>1, Zenon
      <4>. QED
        BY <4>1, <4>2, Zenon
    <3>. QED
      BY <3>1, <3>2, Zenon
  <2>2. qlen[q] + 1 \in Int
    BY <1>2
  <2>3. qlen' \in [Queue -> 0 .. QlenModulus - 1]
    BY <1>0, <1>2, <2>2, Zenon DEF queue_packet
  <2>4. chain' \in [Queue -> Seq(Packet)]
    BY <1>2 DEF queue_packet
  <2>. QED
    BY <1>2, <2>1, <2>3, <2>4, Zenon DEF queue_packet
<1>3. ASSUME NEW q \in Queue, dequeue_packet(q)
      PROVE  PQTypeOK'
  <2>1. next[q] \in Packet
    BY <1>3 DEF dequeue_packet
  <2>2. qlen[q] - 1 \in Int
    BY <1>3
  <2>3. qlen' \in [Queue -> 0 .. QlenModulus - 1]
    BY <1>0, <1>3, <2>2, Zenon DEF dequeue_packet
  <2>4. chain' \in [Queue -> Seq(Packet)]
    <3>1. chain[q] # <<>> => Tail(chain[q]) \in Seq(Packet)
      OBVIOUS
    <3>. QED
      BY <3>1, <1>3 DEF dequeue_packet
  <2>. QED
    BY <1>3, <2>1, <2>3, <2>4, Zenon DEF dequeue_packet
<1>4. ASSUME NEW q \in Queue, move_from(q)
      PROVE  PQTypeOK'
  BY <1>0, <1>4 DEF move_from
<1>5. ASSUME NEW q \in Queue, move_to(q)
      PROVE  PQTypeOK'
  <2>1. qlen[q] + move.qlen \in Int
    OBVIOUS
  <2>2. qlen' \in [Queue -> 0 .. QlenModulus - 1]
    BY <1>0, <1>5, <2>1 DEF move_to
  <2>3. /\ next' \in [Queue -> Packet \cup {NULL}] /\ prev' \in [Queue -> Packet \cup {NULL}]
        /\ pnext' \in [Packet -> Packet \cup {NULL}]
    BY <1>5, Zenon DEF move_to
  <2>4. chain[q] \o mchain \in Seq(Packet)
    OBVIOUS
  <2>5. chain' \in [Queue -> Seq(Packet)]
    BY <1>5, <2>4, Zenon DEF move_to
  <2>. QED
    BY <1>0, <1>5, <2>2, <2>3, <2>5 DEF move_to, NoMove
<1>. QED
  BY <1>1, <1>2, <1>3, <1>4, <1>5 DEF PQNext

(* The inductive invariant.  What get_freepacket_buffer saw in the pool    *)
(* stays there because only the fetcher takes buffers out of it.           *)
PoolInv ==
  /\ PoolTypeOK
  /\ mpc = "stage" => mpkt \in Packet
  /\ mpc \in {"init", "init_pool"} => quiet
  /\ quiet => PQInv
  /\ quiet /\ fpc = "dequeue" => chain[Pool] # <<>>

(* The invariant holds before the pool is filled. *)
LEMMA PoolInitInv == PoolInit => PoolInv
BY InitInv, PoolAssumption DEF PoolInit, PoolInv, PoolTypeOK, PQInv, Free

(* What a step does to the queues: one operation of PacketQueue, none, or  *)
(* the reset of the pool's count, which is nothing after a quiet start.    *)
LEMMA StepIsQueueOperation ==
  ASSUME PoolInv, [PoolNext]_vars
  PROVE  \/ PQNext
         \/ UNCHANGED pqvars
         \/ mm_init_pool /\ (quiet' => UNCHANGED pqvars)
<1>. USE PoolAssumption
<1>1. CASE mm_init_pool
  <2>. SUFFICES ASSUME quiet'
                PROVE  UNCHANGED pqvars
    BY <1>1, Zenon
  <2>1. (\A p \in Packet : where[p] = Heap) /\ quiet
    BY <1>1, Zenon DEF mm_init_pool, PoolInv
  <2>2. /\ IsList(pnext, where, chain[Pool], next[Pool], prev[Pool], qlen[Pool], Pool)
        /\ chain[Pool] \in Seq(Packet) /\ Pool # Heap /\ qlen \in [Queue -> 0 .. QlenModulus - 1]
    BY <2>1, PlaceAssumption, Zenon DEF PoolInv, PQInv, PQTypeOK, ListsIntact
  <2>3. chain[Pool] = <<>>
    <3>1. chain[Pool] # <<>> => 1 \in 1 .. Len(chain[Pool]) /\ chain[Pool][1] \in Packet
      BY <2>2
    <3>. QED
      BY <3>1, <2>1, <2>2 DEF IsList
  <2>4. qlen[Pool] = 0
    BY <2>2, <2>3, Zenon DEF IsList
  <2>5. qlen' = qlen
    BY <1>1, <2>2, <2>4 DEF mm_init_pool
  <2>. QED
    BY <1>1, <2>5, Zenon DEF mm_init_pool, pqvars
<1>2. ASSUME mm_newpacket \/ get_newpacket
      PROVE  PQNext
  BY <1>2, Zenon DEF mm_newpacket, get_newpacket, PQNext
<1>3. CASE mm_stage
  BY <1>3, Zenon DEF mm_stage, PQNext, PoolInv
<1>4. CASE put_freepacket_buffer
  BY <1>4, Zenon DEF put_freepacket_buffer, PQNext
<1>5. CASE mm_move_from
  BY <1>5, Zenon DEF mm_move_from, PQNext
<1>6. CASE mm_move_to
  BY <1>6, Zenon DEF mm_move_to, PQNext
<1>7. CASE get_dequeue
  BY <1>7, Zenon DEF get_dequeue, PQNext
<1>8. CASE \/ mm_init_lock \/ mm_lock \/ mm_load \/ mm_store \/ mm_unlock \/ mm_check
           \/ mm_lock_to_wait \/ mm_wait \/ mm_relock \/ mm_release \/ mm_refill
           \/ mm_spurious_wakeup
           \/ get_check \/ get_signal \/ get_lock \/ get_load \/ get_store \/ get_unlock
  BY <1>8, Zenon DEF mm_init_lock, mm_lock, mm_load, mm_store, mm_unlock, mm_check,
       mm_lock_to_wait, mm_wait, mm_relock, mm_release, mm_refill, mm_spurious_wakeup,
       get_check, get_signal, get_lock, get_load, get_store, get_unlock
<1>9. CASE UNCHANGED vars
  BY <1>9, Zenon DEF vars
<1>. QED
  BY <1>1, <1>2, <1>3, <1>4, <1>5, <1>6, <1>7, <1>8, <1>9
     DEF PoolNext, memorymanager_function, get_freepacket_buffer

(* What a step does to the rest of the types. *)
LEMMA StepType ==
  ASSUME PoolInv, [PoolNext]_vars
  PROVE  PoolTypeOK' /\ (mpc' = "stage" => mpkt' \in Packet)
<1>1. PQTypeOK'
  <2>1. CASE PQNext
    BY <2>1, QueueOperationType, Zenon DEF PoolInv, PoolTypeOK
  <2>2. CASE UNCHANGED pqvars
    BY <2>2, Zenon DEF pqvars, PQTypeOK, PoolInv, PoolTypeOK
  <2>3. CASE mm_init_pool
    <3>1. 0 \in 0 .. QlenModulus - 1
      BY QlenAssumption, PacketAssumption, FS_CardinalityType
    <3>. QED
      BY <2>3, <3>1, Zenon DEF mm_init_pool, PQTypeOK, PoolInv, PoolTypeOK
  <2>. QED
    BY <2>1, <2>2, <2>3, StepIsQueueOperation
<1>. USE <1>1 DEF PoolInv, PoolTypeOK, Free, Manager, Fetcher
<1>2. ASSUME mm_init_lock \/ mm_init_pool
      PROVE  PoolTypeOK' /\ (mpc' = "stage" => mpkt' \in Packet)
  <2>1. CASE mm_init_lock
    BY <2>1 DEF mm_init_lock, fvars
  <2>2. CASE mm_init_pool
    <3>1. quiet' \in BOOLEAN
      BY <2>2, Zenon DEF mm_init_pool
    <3>2. /\ UNCHANGED <<mpkt, todo, mreg, fresh, fvars, mylock, allocated>>
          /\ mpc' = "allocate"
      BY <2>2, Zenon DEF mm_init_pool
    <3>. QED
      BY <3>1, <3>2, Zenon DEF fvars
  <2>. QED
    BY <1>2, <2>1, <2>2
<1>3. ASSUME mm_newpacket \/ mm_stage
      PROVE  PoolTypeOK' /\ (mpc' = "stage" => mpkt' \in Packet)
  BY <1>3 DEF mm_newpacket, mm_stage, fvars
<1>4. ASSUME mm_lock \/ mm_unlock \/ mm_lock_to_wait \/ mm_wait \/ mm_relock \/ mm_release
      PROVE  PoolTypeOK' /\ (mpc' = "stage" => mpkt' \in Packet)
  BY <1>4 DEF mm_lock, mm_unlock, mm_lock_to_wait, mm_wait, mm_relock, mm_release, fvars
<1>5. ASSUME mm_move_from \/ mm_move_to
      PROVE  PoolTypeOK' /\ (mpc' = "stage" => mpkt' \in Packet)
  <2>1. move.qlen \in Nat
    BY QlenAssumption DEF PQTypeOK
  <2>. QED
    BY <1>5, <2>1 DEF mm_move_from, mm_move_to, fvars
<1>6. ASSUME mm_load \/ mm_store \/ mm_check \/ mm_spurious_wakeup \/ mm_refill
      PROVE  PoolTypeOK' /\ (mpc' = "stage" => mpkt' \in Packet)
  BY <1>6, PoolAssumption DEF mm_load, mm_store, mm_check, mm_spurious_wakeup, mm_refill, fvars
<1>7. ASSUME get_check \/ get_signal
      PROVE  PoolTypeOK' /\ (mpc' = "stage" => mpkt' \in Packet)
  BY <1>7 DEF get_check, get_signal, signal
<1>8. ASSUME get_dequeue \/ get_newpacket \/ put_freepacket_buffer
      PROVE  PoolTypeOK' /\ (mpc' = "stage" => mpkt' \in Packet)
  BY <1>8 DEF get_dequeue, get_newpacket, put_freepacket_buffer, mvars, fvars
<1>9. ASSUME get_lock \/ get_load \/ get_store \/ get_unlock
      PROVE  PoolTypeOK' /\ (mpc' = "stage" => mpkt' \in Packet)
  <2>1. CASE get_lock \/ get_unlock
    BY <2>1 DEF get_lock, get_unlock, mvars
  <2>2. CASE get_load \/ get_store
    BY <2>2 DEF get_load, get_store, mvars
  <2>. QED
    BY <1>9, <2>1, <2>2, Zenon
<1>10. CASE UNCHANGED vars
  BY <1>10, SMTT(30) DEF vars, mvars, fvars
<1>. QED
  BY <1>2, <1>3, <1>4, <1>5, <1>6, <1>7, <1>8, <1>9, <1>10
     DEF PoolNext, memorymanager_function, get_freepacket_buffer

(* Once lost, quiet is not regained. *)
LEMMA QuietStep ==
  ASSUME PoolInv, [PoolNext]_vars
  PROVE  (quiet' => quiet) /\ (mpc' \in {"init", "init_pool"} => quiet')
<1>1. CASE mm_init_pool
  BY <1>1, Zenon DEF mm_init_pool, PoolInv
<1>2. CASE quiet' = quiet /\ (mpc' \in {"init", "init_pool"} => mpc \in {"init", "init_pool"})
  BY <1>2, SMTT(30) DEF PoolInv
<1>. QED
  BY <1>1, <1>2, Zenon
     DEF PoolNext, memorymanager_function, get_freepacket_buffer, vars, mvars, fvars,
         mm_init_lock, mm_newpacket, mm_stage, mm_lock, mm_move_from, mm_move_to, mm_load,
         mm_store, mm_unlock, mm_check, mm_lock_to_wait, mm_wait, mm_relock, mm_release,
         mm_refill, mm_spurious_wakeup, signal,
         get_check, get_dequeue, get_signal, get_newpacket, get_lock, get_load, get_store,
         get_unlock, put_freepacket_buffer

(* The buffer get_freepacket_buffer has seen is still there when it comes  *)
(* to take it: the other threads only add buffers to the pool.             *)
LEMMA SeenBufferStays ==
  ASSUME PoolInv, [PoolNext]_vars, PQTypeOK', quiet, quiet', fpc' = "dequeue"
  PROVE  chain'[Pool] # <<>>
<1>. USE PoolAssumption
<1>1. chain \in [Queue -> Seq(Packet)] /\ chain' \in [Queue -> Seq(Packet)]
  BY Zenon DEF PoolInv, PQInv, PQTypeOK
<1>2. CASE get_check
  <2>1. qlen[Pool] # 0 /\ UNCHANGED chain
    BY <1>2 DEF get_check, pqvars
  <2>2. IsList(pnext, where, chain[Pool], next[Pool], prev[Pool], qlen[Pool], Pool)
    BY Zenon DEF PoolInv, PQInv, ListsIntact
  <2>. QED
    BY <2>1, <2>2, Zenon DEF IsList
<1>3. CASE mm_stage
  <2>1. fpc = "dequeue" /\ chain'[Pool] = chain[Pool]
    BY <1>1, <1>3, Zenon DEF mm_stage, queue_packet, fvars
  <2>. QED
    BY <2>1, Zenon DEF PoolInv
<1>4. CASE put_freepacket_buffer
  BY <1>1, <1>4 DEF put_freepacket_buffer, queue_packet
<1>5. CASE mm_move_from
  <2>1. fpc = "dequeue" /\ chain'[Pool] = chain[Pool]
    BY <1>1, <1>5 DEF mm_move_from, move_from, fvars
  <2>. QED
    BY <2>1, Zenon DEF PoolInv
<1>6. CASE mm_move_to
  <2>1. mchain # <<>> /\ mchain \in Seq(Packet) /\ chain'[Pool] = chain[Pool] \o mchain
    BY <1>1, <1>6, Zenon DEF mm_move_to, move_to, PoolInv, PQInv, PQTypeOK
  <2>. QED
    BY <1>1, <2>1
<1>7. CASE fpc = "dequeue" /\ UNCHANGED chain
  BY <1>7, Zenon DEF PoolInv
<1>. QED
  BY <1>2, <1>3, <1>4, <1>5, <1>6, <1>7, Zenon
     DEF PoolNext, memorymanager_function, get_freepacket_buffer, vars, pqvars, mvars, fvars,
         mm_init_lock, mm_init_pool, mm_newpacket, newpacket, mm_lock, mm_load,
         mm_store, mm_unlock, mm_check, mm_lock_to_wait, mm_wait, mm_relock, mm_release,
         mm_refill, mm_spurious_wakeup,
         get_dequeue, get_signal, get_newpacket, get_lock, get_load, get_store, get_unlock

(* Every step keeps the invariant of the pool. *)
LEMMA PoolNextInv == PoolInv /\ [PoolNext]_vars => PoolInv'
<1>. SUFFICES ASSUME PoolInv, [PoolNext]_vars
              PROVE  PoolInv'
  BY Zenon
<1>1. PoolTypeOK' /\ (mpc' = "stage" => mpkt' \in Packet)
  BY StepType, Zenon
<1>2. (quiet' => quiet) /\ (mpc' \in {"init", "init_pool"} => quiet')
  BY QuietStep, Zenon
<1>3. ASSUME quiet'
      PROVE  PQInv'
  <2>1. PQInv /\ [PQNext]_pqvars
    BY <1>2, <1>3, StepIsQueueOperation DEF PoolInv
  <2>. QED
    BY <2>1, NextInv, Zenon
<1>4. quiet' /\ fpc' = "dequeue" => chain'[Pool] # <<>>
  BY <1>1, <1>2, SeenBufferStays, Zenon DEF PoolTypeOK
<1>. QED
  BY <1>1, <1>2, <1>3, <1>4 DEF PoolInv

-----------------------------------------------------------------------------

(* The types of the pool and its threads hold in every state.              *)
THEOREM PoolTypeCorrect == PoolSpec => []PoolTypeOK
<1>1. PoolInv => PoolTypeOK
  BY Zenon DEF PoolInv
<1>. QED
  BY <1>1, PoolInitInv, PoolNextInv, PTL DEF PoolSpec

(* After a quiet start the pool of memorymanager.c is never corrupted and  *)
(* no buffer is lost, whatever the sizes and the interleaving.             *)
THEOREM PoolStaysIntact == PoolSpec => []PoolIntact
<1>1. PoolInv => PoolIntact
  BY Zenon DEF PoolInv, PoolIntact, PQInv
<1>. QED
  BY <1>1, PoolInitInv, PoolNextInv, PTL DEF PoolSpec

(* After a quiet start get_freepacket_buffer finds the buffer it has seen. *)
THEOREM GetFindsItsBuffer == PoolSpec => []GetNeverFails
<1>1. PoolInv => GetNeverFails
  <2>. SUFFICES ASSUME PoolInv, quiet, fpc = "dequeue"
                PROVE  next[Pool] # NULL
    BY Zenon DEF GetNeverFails
  <2>1. /\ chain[Pool] # <<>> /\ chain[Pool] \in Seq(Packet)
        /\ IsList(pnext, where, chain[Pool], next[Pool], prev[Pool], qlen[Pool], Pool)
    BY PoolAssumption, Zenon DEF PoolInv, PQInv, PQTypeOK, ListsIntact
  <2>2. chain[Pool][1] \in Packet
    BY <2>1
  <2>. QED
    BY <2>1, <2>2, PacketAssumption DEF IsList
<1>. QED
  BY <1>1, PoolInitInv, PoolNextInv, PTL DEF PoolSpec

(* After a quiet start the threads only do the operations of PacketQueue.  *)
THEOREM PoolRefinesQueues == PoolSpec => StepsAreQueueOperations
<1>1. PoolInv /\ [PoolNext]_vars => [quiet' => [PQNext]_pqvars]_vars
  BY StepIsQueueOperation, Zenon
<1>. QED
  BY <1>1, PoolInitInv, PoolNextInv, PTL DEF PoolSpec, StepsAreQueueOperations

=============================================================================
