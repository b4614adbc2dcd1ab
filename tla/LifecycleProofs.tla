-------------------------- MODULE LifecycleProofs ---------------------------
(***************************************************************************)
(* Proofs about Lifecycle and Counters: the rates are right whatever the   *)
(* width of the counters and the time between two updates, and however     *)
(* many packets and signals come, the fetcher takes at most one packet     *)
(* after the service has stopped.                                          *)
(***************************************************************************)
EXTENDS Lifecycle, TLAPS

-----------------------------------------------------------------------------
(* Arithmetic *)

(* The number of packets after s more than p, if s do not go round.        *)
After(p, s) == IF p + s < CounterModulus THEN p + s ELSE p + s - CounterModulus

(* calculate_ppsbps gets back how many packets there were.                 *)
LEMMA CalculateRight ==
  ASSUME NEW p \in 0 .. CounterModulus - 1, NEW s \in Nat, s < CounterModulus
  PROVE  calculate_ppsbps(p, After(p, s)) = s \div UPDATECOUNTERSTIMER
<1> DEFINE M == CounterModulus
           h == CounterModulus \div 2
           c == After(p, s)
<1>1. /\ M \in Nat \ {0} /\ h \in Nat /\ 2 * h = M
      /\ p \in Nat /\ p < M /\ c \in Nat /\ c < M
  BY CountersAssumption DEF After
<1>2. CASE p < c
  <2>1. c - p = s
    BY <1>1, <1>2 DEF After
  <2>. QED  BY <2>1, <1>2 DEF calculate_ppsbps
<1>3. CASE ~ (p < c)
  <2>1. c - p = IF s = 0 THEN 0 ELSE s - M
    BY <1>1, <1>3 DEF After
  <2>2. \A x \in {c, p} : (x + h) % M = IF x + h < M THEN x + h ELSE x + h - M
    <3>. SUFFICES ASSUME NEW x \in {c, p}
                  PROVE  (x + h) % M = IF x + h < M THEN x + h ELSE x + h - M
      OBVIOUS
    <3>. HIDE DEF M, h, c
    <3>1. x + h \in Int /\ 0 <= x + h /\ x + h < 2 * M
      BY <1>1
    <3>. QED  BY <3>1, <1>1
  <2> DEFINE d == ((c + h) % M) - ((p + h) % M)
  <2>3. d \in Int /\ (d = s \/ (d = s - M /\ 0 < s))
    <3>. HIDE DEF M, h, c
    <3>. QED  BY <1>1, <1>3, <2>1, <2>2
  <2>4. d % M = s
    <3>. HIDE DEF M, h, c, d
    <3>1. M \in Nat \ {0} /\ s \in Nat /\ s < M
      BY <1>1 DEF M
    <3>2. CASE d = s
      BY <3>1, <3>2
    <3>3. CASE d = s - M /\ 0 < s
      BY <3>1, <3>3
    <3>. QED  BY <3>2, <3>3, <2>3
  <2>5. calculate_ppsbps(p, c) = (d % M) \div UPDATECOUNTERSTIMER
    BY <1>3, Zenon DEF calculate_ppsbps
  <2>. QED  BY <2>4, <2>5
<1>. QED  BY <1>2, <1>3

-----------------------------------------------------------------------------
(* The rates *)

(* A quotient is no larger than what is divided, so that a rate fits where *)
(* the number of packets does.                                             *)
LEMMA QuotientBound ==
  ASSUME NEW x \in Nat, NEW T \in Nat \ {0}
  PROVE  x \div T \in 0 .. x
<1> DEFINE q == x \div T
<1>1. q \in Nat
  OBVIOUS
<1>2. T * q <= x
  OBVIOUS
<1>3. q <= T * q
  <2>. HIDE DEF q
  <2>. QED  BY <1>1
<1>. QED  BY <1>1, <1>2, <1>3

(* The inductive invariant: as long as less packets were counted since the *)
(* last update than a counter holds, the counter is that much further than *)
(* it was then.                                                            *)
RatesInv ==
  /\ metric \in [Metric -> [packets : 0 .. CounterModulus - 1,
                            previous : 0 .. CounterModulus - 1,
                            pps : 0 .. CounterModulus - 1]]
  /\ since \in [Metric -> Nat] /\ span \in [Metric -> Nat]
  /\ \A m \in Metric :
       since[m] < CounterModulus => metric[m].packets = After(metric[m].previous, since[m])
  /\ RatesRight

(* packets++ *)
LEMMA CountKeeps ==
  ASSUME RatesInv, NEW t \in Metric, Count(t)
  PROVE  RatesInv'
<1> DEFINE M == CounterModulus
           n == metric[t].packets
<1>1. M \in Nat \ {0} /\ n \in Nat /\ n < M
  BY CountersAssumption DEF RatesInv
<1>2. (n + 1) % M = IF n + 1 < M THEN n + 1 ELSE 0
  <2>. HIDE DEF M, n
  <2>. QED  BY <1>1
<1>3. metric' = [metric EXCEPT ![t] = [metric[t] EXCEPT !.packets = (n + 1) % M]]
  BY DEF Count, RatesInv
<1>4. metric' \in [Metric -> [packets : 0 .. M - 1, previous : 0 .. M - 1, pps : 0 .. M - 1]]
  BY <1>1, <1>2, <1>3 DEF RatesInv
<1>5. since' \in [Metric -> Nat] /\ span' \in [Metric -> Nat]
  BY DEF Count, RatesInv
<1>6. ASSUME NEW m \in Metric, since'[m] < M
      PROVE  metric'[m].packets = After(metric'[m].previous, since'[m])
  <2>1. CASE m = t
    <3>1. /\ since'[m] = since[m] + 1 /\ since[m] \in Nat
          /\ metric'[m].packets = (n + 1) % M /\ metric'[m].previous = metric[m].previous
      BY <2>1, <1>3 DEF Count, RatesInv
    <3>2. n = After(metric[m].previous, since[m])
      BY <2>1, <3>1, <1>1, <1>6 DEF RatesInv
    <3>3. metric[m].previous \in 0 .. M - 1
      BY DEF RatesInv
    <3>. QED  BY <3>1, <3>2, <3>3, <1>1, <1>2, <1>6 DEF After
  <2>2. CASE m # t
    BY <2>2, <1>3, <1>6 DEF Count, RatesInv
  <2>. QED  BY <2>1, <2>2
<1>7. RatesRight'
  <2>1. \A m \in Metric : metric'[m].pps = metric[m].pps /\ span'[m] = span[m]
    BY <1>3 DEF Count, RatesInv
  <2>. QED  BY <2>1 DEF RatesInv, RatesRight
<1>. QED  BY <1>4, <1>5, <1>6, <1>7 DEF RatesInv

(* The update of the rates. *)
LEMMA ExecuteKeeps ==
  ASSUME RatesInv, execute_counters
  PROVE  RatesInv'
<1> DEFINE M == CounterModulus
<1>1. PICK run \in SUBSET Metric :
         /\ metric' = [m \in Metric |-> IF m \in run THEN Updated(metric[m]) ELSE metric[m]]
         /\ since' = [m \in Metric |-> IF m \in run THEN 0 ELSE since[m]]
         /\ span' = [m \in Metric |-> IF m \in run THEN since[m] ELSE span[m]]
  BY DEF execute_counters
<1>2. ASSUME NEW p \in 0 .. M - 1, NEW c \in 0 .. M - 1
      PROVE  calculate_ppsbps(p, c) \in 0 .. M - 1
  <2>1. CASE p < c
    <3>1. c - p \in Nat /\ c - p <= M - 1
      BY <2>1, CountersAssumption
    <3>. QED  BY <2>1, <3>1, QuotientBound, CountersAssumption DEF calculate_ppsbps
  <2>2. CASE ~ (p < c)
    <3> DEFINE y == (((c + (M \div 2)) % M) - ((p + (M \div 2)) % M)) % M
    <3>1. y \in Nat /\ y <= M - 1
      BY CountersAssumption
    <3>2. calculate_ppsbps(p, c) = y \div UPDATECOUNTERSTIMER
      BY <2>2 DEF calculate_ppsbps
    <3>. HIDE DEF y
    <3>. QED  BY <3>1, <3>2, QuotientBound, CountersAssumption
  <2>. QED  BY <2>1, <2>2
<1>3. ASSUME NEW m \in Metric
      PROVE  /\ Updated(metric[m]) \in
                  [packets : 0 .. M - 1, previous : 0 .. M - 1, pps : 0 .. M - 1]
             /\ Updated(metric[m]).packets = metric[m].packets
             /\ Updated(metric[m]).previous = metric[m].packets
             /\ Updated(metric[m]).pps =
                  calculate_ppsbps(metric[m].previous, metric[m].packets)
  BY <1>2 DEF RatesInv, Updated
<1>4. metric' \in [Metric -> [packets : 0 .. M - 1, previous : 0 .. M - 1, pps : 0 .. M - 1]]
  BY <1>1, <1>3 DEF RatesInv
<1>5. since' \in [Metric -> Nat] /\ span' \in [Metric -> Nat]
  BY <1>1 DEF RatesInv
<1>6. ASSUME NEW m \in Metric, since'[m] < M
      PROVE  metric'[m].packets = After(metric'[m].previous, since'[m])
  <2>1. CASE m \in run
    BY <2>1, <1>1, <1>3, CountersAssumption DEF After, RatesInv
  <2>2. CASE m \notin run
    BY <2>2, <1>1, <1>6 DEF RatesInv
  <2>. QED  BY <2>1, <2>2
<1>7. ASSUME NEW m \in Metric, span'[m] < M
      PROVE  metric'[m].pps = span'[m] \div UPDATECOUNTERSTIMER
  <2>1. CASE m \in run
    <3>1. /\ since[m] \in Nat /\ since[m] < M
          /\ metric[m].previous \in 0 .. M - 1
          /\ metric[m].packets = After(metric[m].previous, since[m])
      BY <2>1, <1>1, <1>7 DEF RatesInv
    <3>2. metric'[m].pps = calculate_ppsbps(metric[m].previous, metric[m].packets)
      BY <2>1, <1>1, <1>3
    <3>3. span'[m] = since[m]
      BY <2>1, <1>1
    <3>. QED  BY <3>1, <3>2, <3>3, CalculateRight
  <2>2. CASE m \notin run
    BY <2>2, <1>1, <1>7 DEF RatesInv, RatesRight
  <2>. QED  BY <2>1, <2>2
<1>. QED  BY <1>4, <1>5, <1>6, <1>7 DEF RatesInv, RatesRight

(* The counters through every step. *)
LEMMA RatesInvariant == Spec => []RatesInv
<1>1. Init => RatesInv
  <2>. SUFFICES ASSUME Init PROVE RatesInv
    OBVIOUS
  <2>1. \A m \in Metric : metric[m] = [packets |-> 0, previous |-> 0, pps |-> 0]
    BY DEF Init, CountersInit
  <2>2. 0 \div UPDATECOUNTERSTIMER = 0
    BY CountersAssumption
  <2>. QED
    BY <2>1, <2>2, CountersAssumption DEF Init, CountersInit, RatesInv, RatesRight, After
<1>2. RatesInv /\ [Next]_vars => RatesInv'
  <2>. SUFFICES ASSUME RatesInv, [Next]_vars PROVE RatesInv'
    OBVIOUS
  <2>1. \/ metric' = metric /\ since' = since /\ span' = span
        \/ \E t \in Metric : Count(t)
        \/ execute_counters
    <3>1. "fetcher" \in Metric /\ "worker" \in Metric
      BY LifecycleAssumption
    <3>. QED
      BY <3>1, Zenon
      DEF Next, vars, rest, countersVars, signal_handler, fetcher_graceful_exit,
          shutdown_workers, thread_start, register_counter, fetcher_loop, fetcher_packet,
          queue_packet, fetcher_error, fetcher_failed, WorkerStep, worker_wait, worker_wake,
          dequeue_packet, worker_done, sleeper_loop, CountersStep, counters_loop,
          counters_find, execute_find, counters_execute, join
  <2>2. CASE metric' = metric /\ since' = since /\ span' = span
    BY <2>2 DEF RatesInv, RatesRight
  <2>3. CASE \E t \in Metric : Count(t)
    BY <2>3, CountKeeps
  <2>4. CASE execute_counters
    BY <2>4, ExecuteKeeps
  <2>. QED  BY <2>1, <2>2, <2>3, <2>4
<1>. QED  BY <1>1, <1>2, PTL DEF Spec

(* Whatever the width of the counters, the time between two updates and    *)
(* the interleaving of the threads that count, register and update,        *)
(* calculate_ppsbps gives the rate of the packets that came in between.    *)
THEOREM RatesAreRight == Spec => []RatesRight
<1>1. RatesInv => RatesRight
  BY DEF RatesInv
<1>. QED  BY <1>1, RatesInvariant, PTL

-----------------------------------------------------------------------------
(* The packets that come late *)

(* The inductive invariant: a late packet finds the service stopped, which *)
(* stays so, and leaves the fetcher where it looks at the state first.     *)
LateInv ==
  /\ DOMAIN thread = Thread
  /\ servicestate \in {RUNNING, STOPPING, STOPPED}
  /\ late \in {0, 1}
  /\ late = 1 => servicestate < RUNNING /\ thread["fetcher"] \in {"loop", "exit"}

(* However many packets and signals come, in whatever order, the fetcher   *)
(* takes at most one packet after the service has left RUNNING.            *)
THEOREM AtMostOneIsLate == Spec => []AtMostOneLate
<1>1. Init => LateInv
  BY DEF Init, LateInv, Thread
<1>2. LateInv /\ [Next]_vars => LateInv'
  <2>. SUFFICES ASSUME LateInv, [Next]_vars PROVE LateInv'
    OBVIOUS
  <2>. USE DEF LateInv, RUNNING, STOPPING, STOPPED
  <2>1. "fetcher" \in Thread /\ "worker" \in Thread /\ "counters" \in Thread
    BY DEF Thread
  <2>2. CASE signal_handler
    BY <2>2 DEF signal_handler, packets
  <2>3. CASE fetcher_graceful_exit \/ join \/ UNCHANGED vars
    BY <2>3 DEF fetcher_graceful_exit, join, vars, state, packets
  <2>4. CASE shutdown_workers
    BY <2>1, <2>4 DEF shutdown_workers, Signalled, packets
  <2>5. CASE \E t \in Metric : thread_start(t)
    BY <2>1, <2>5 DEF thread_start, Goto, state, packets
  <2>6. CASE fetcher_loop
    BY <2>1, <2>6 DEF fetcher_loop, Goto, rest, state, packets
  <2>7. CASE fetcher_packet
    BY <2>1, <2>7 DEF fetcher_packet, Goto, state
  <2>8. CASE queue_packet
    BY <2>1, <2>8 DEF queue_packet, Signalled, state
  <2>9. CASE fetcher_error
    BY <2>1, <2>9 DEF fetcher_error, Goto, rest, state, packets
  <2>10. CASE fetcher_failed
    BY <2>1, <2>10 DEF fetcher_failed, Goto, packets
  <2>11. CASE WorkerStep \/ worker_wake
    BY <2>1, <2>11
    DEF WorkerStep, worker_wait, worker_wake, dequeue_packet, worker_done, Goto, rest, state, packets
  <2>12. CASE \E t \in UntilStopped : sleeper_loop(t)
    BY <2>1, <2>12 DEF sleeper_loop, UntilStopped, Goto, rest, state, packets
  <2>13. CASE CountersStep
    BY <2>1, <2>13
    DEF CountersStep, counters_loop, counters_find, counters_execute, Goto, rest, state, packets
  <2>. QED
    BY <2>2, <2>3, <2>4, <2>5, <2>6, <2>7, <2>8, <2>9, <2>10, <2>11, <2>12, <2>13, Zenon DEF Next
<1>3. LateInv => AtMostOneLate
  BY DEF LateInv, AtMostOneLate
<1>. QED  BY <1>1, <1>2, <1>3, PTL DEF Spec

-----------------------------------------------------------------------------
(* The types *)

(* The inductive invariant, beside RatesInv: the packet the fetcher is     *)
(* about to queue has arrived and is not in the queue yet.                 *)
TypeInv ==
  /\ servicestate \in {RUNNING, STOPPING, STOPPED}
  /\ handler \in {"none", "fetcher", "workers"}
  /\ signals \in 0 .. MaxSignals /\ arrived \in 0 .. MaxPackets
  /\ late \in 0 .. arrived /\ qlen \in 0 .. arrived
  /\ closed \in BOOLEAN
  /\ thread \in [Thread -> {"start", "loop", "recv", "queue", "failed", "work", "wait",
                            "sleep", "execute", "exit"}]
  /\ joined \in 0 .. 4
  /\ counters \in Seq(Metric) /\ found \in BOOLEAN
  /\ thread["fetcher"] = "queue" => qlen < arrived

(* Type correctness of the threads, the queue and the counters, for every  *)
(* number of signals and packets: the worker's qlen in particular, which   *)
(* dequeue_packet counts down, does not go below zero.                     *)
THEOREM LifecycleTypeCorrect == Spec => []TypeOK
<1>1. Init => TypeInv
  <2>. SUFFICES ASSUME Init PROVE TypeInv
    OBVIOUS
  <2>1. "fetcher" \in Thread /\ "fetcher" \in Metric
    BY LifecycleAssumption DEF Thread
  <2>2. /\ thread \in [Thread -> {"start", "loop"}]
        /\ thread["fetcher"] = "start"
    BY <2>1 DEF Init
  <2>3. counters = <<>>
    BY DEF Init, CountersInit
  <2>4. found \in BOOLEAN /\ closed \in BOOLEAN
    BY Zenon DEF Init, CountersInit
  <2>5. /\ signals = 0 /\ arrived = 0 /\ late = 0 /\ qlen = 0 /\ joined = 0
        /\ servicestate = RUNNING /\ handler = "none"
    BY DEF Init
  <2>. QED  BY <2>2, <2>3, <2>4, <2>5, LifecycleAssumption DEF TypeInv
<1>2. TypeInv /\ [Next]_vars => TypeInv'
  <2>. SUFFICES ASSUME TypeInv, [Next]_vars PROVE TypeInv'
    OBVIOUS
  <2>1. /\ "fetcher" \in Thread /\ "worker" \in Thread /\ "counters" \in Thread
        /\ UntilStopped \subseteq Thread \ {"fetcher"} /\ Metric \subseteq Thread
    BY LifecycleAssumption DEF Thread, UntilStopped
  <2>. USE LifecycleAssumption DEF TypeInv
  <2>2. CASE signal_handler
    BY <2>1, <2>2 DEF signal_handler, packets, countersVars
  <2>3. CASE fetcher_graceful_exit
    BY <2>1, <2>3 DEF fetcher_graceful_exit, packets, countersVars
  <2>4. CASE shutdown_workers
    BY <2>1, <2>4 DEF shutdown_workers, Signalled, packets, countersVars
  <2>5. CASE \E t \in Metric : thread_start(t)
    BY <2>1, <2>5 DEF thread_start, register_counter, Goto, state, packets
  <2>6. CASE fetcher_loop
    BY <2>1, <2>6 DEF fetcher_loop, Goto, rest, state, packets, countersVars
  <2>7. CASE fetcher_packet
    BY <2>1, <2>7 DEF fetcher_packet, Count, Goto, state, countersVars
  <2>8. CASE queue_packet
    BY <2>1, <2>8 DEF queue_packet, Signalled, Count, state
  <2>9. CASE fetcher_error
    BY <2>1, <2>9 DEF fetcher_error, Goto, rest, state, packets, countersVars
  <2>10. CASE fetcher_failed
    BY <2>1, <2>10 DEF fetcher_failed, Goto, packets, countersVars
  <2>11. CASE worker_wait \/ worker_wake
    BY <2>1, <2>11 DEF worker_wait, worker_wake, Goto, rest, state, packets, countersVars
  <2>12. CASE dequeue_packet
    BY <2>1, <2>12 DEF dequeue_packet, Goto, state, countersVars
  <2>13. CASE worker_done
    BY <2>1, <2>13 DEF worker_done, Count, Goto, state, packets
  <2>14. CASE \E t \in UntilStopped : sleeper_loop(t)
    BY <2>1, <2>14 DEF sleeper_loop, Goto, rest, state, packets, countersVars
  <2>15. CASE counters_loop
    BY <2>1, <2>15 DEF counters_loop, Goto, rest, state, packets, countersVars
  <2>16. CASE counters_find \/ counters_execute
    BY <2>1, <2>16 DEF counters_find, counters_execute, execute_find, execute_counters,
        Goto, state, packets
  <2>17. CASE join
    BY <2>1, <2>17 DEF join, JoinOrder, packets, countersVars
  <2>18. CASE UNCHANGED vars
    BY <2>1, <2>18 DEF vars, state, packets, countersVars
  <2>. QED
    BY <2>2, <2>3, <2>4, <2>5, <2>6, <2>7, <2>8, <2>9, <2>10,
       <2>11, <2>12, <2>13, <2>14, <2>15, <2>16, <2>17, <2>18, Zenon DEF Next, WorkerStep, CountersStep
<1>3. TypeInv /\ RatesInv => TypeOK
  BY DEF TypeInv, RatesInv, TypeOK, CountersTypeOK, JoinOrder
<1>4. Spec => []TypeInv
  BY <1>1, <1>2, PTL DEF Spec
<1>. QED  BY <1>3, <1>4, RatesInvariant, PTL

=============================================================================
