----------------------------- MODULE Lifecycle ------------------------------
(***************************************************************************)
(* The end of the daemon: signal_handler (signals.c) takes the service     *)
(* from RUNNING to STOPPING and then to STOPPED, every thread looks at the *)
(* state in the condition of its loop, and main (opennopd.c) joins the     *)
(* threads one after the other.  The fourth, that of the IPC, never ends,  *)
(* so main does not get to those of WCCP, the CLI, the counters, the       *)
(* memory manager (see PacketPool) and the workers.  One worker's thread   *)
(* is here for its queue, whose condition variable is also signalled by    *)
(* shutdown_workers, and may wake up for nothing; and the counters of the  *)
(* fetcher and of the worker.                                              *)
(***************************************************************************)
EXTENDS Counters

CONSTANTS MaxSignals,   \* bound on the SIGTERMs
          MaxPackets    \* bound on the packets

ASSUME LifecycleAssumption ==
  /\ Metric = {"fetcher", "worker"}
  /\ MaxSignals \in Nat /\ MaxPackets \in Nat

RUNNING == 1
STOPPING == 0
STOPPED == -1

\* The threads that sleep, look at servicestate and do their work.
UntilStopped == {"cleanup", "healthagent"}
Thread == {"fetcher", "worker", "counters", "ipc"} \cup UntilStopped

VARIABLES servicestate,
          handler,    \* signal_handler: "none", or what it has left to do
          signals,    \* SIGTERMs so far
          closed,     \* the Netfilter queue is closed
          arrived,    \* packets so far
          qlen,       \* packets in the worker's queue
          late,       \* history: those that came after the service stopped
          thread,     \* thread[t]: where the thread is
          joined      \* how many threads main has joined

state == <<servicestate, handler, signals, closed, joined>>
packets == <<arrived, qlen, late>>
vars == <<state, packets, thread, countersVars>>
rest == <<state, packets, countersVars>>

(* The order in which main joins. *)
JoinOrder == <<"fetcher", "cleanup", "healthagent", "ipc">>

Init ==
  /\ servicestate = RUNNING
  /\ handler = "none" /\ signals = 0
  /\ closed = FALSE /\ arrived = 0 /\ qlen = 0 /\ late = 0
  /\ thread = [t \in Thread |-> IF t \in Metric THEN "start" ELSE "loop"]
  /\ joined = 0
  /\ CountersInit

Goto(t, where) == thread' = [thread EXCEPT ![t] = where]

-----------------------------------------------------------------------------

(* The first SIGTERM: the state, then fetcher_graceful_exit and            *)
(* shutdown_workers, which only wakes them up.  Later ones: STOPPED.       *)
signal_handler ==
  /\ signals < MaxSignals
  /\ signals' = signals + 1
  /\ \/ /\ servicestate = RUNNING
        /\ servicestate' = STOPPING /\ handler' = "fetcher"
     \/ /\ servicestate # RUNNING
        /\ servicestate' = STOPPED /\ UNCHANGED handler
  /\ UNCHANGED <<closed, joined, packets, thread, countersVars>>

fetcher_graceful_exit ==
  /\ handler = "fetcher"
  /\ closed' = TRUE
  /\ handler' = "workers"
  /\ UNCHANGED <<servicestate, signals, joined, packets, thread, countersVars>>

\* A signal to the worker's queue, noticed by a thread that waits.
Signalled == IF thread["worker"] = "wait" THEN [thread EXCEPT !["worker"] = "loop"] ELSE thread

shutdown_workers ==
  /\ handler = "workers"
  /\ handler' = "none"
  /\ thread' = Signalled
  /\ UNCHANGED <<servicestate, signals, closed, joined, packets, countersVars>>

(* The fetcher and the worker register their metrics first.                *)
thread_start(t) ==
  /\ thread[t] = "start"
  /\ register_counter(t)
  /\ Goto(t, "loop")
  /\ UNCHANGED <<state, packets>>

\* Mutant of fetcher_loop: goes on until STOPPED.
fetcher_loop_on ==
  /\ thread["fetcher"] = "loop"
  /\ Goto("fetcher", IF servicestate >= STOPPING THEN "recv" ELSE "exit")
  /\ UNCHANGED rest

(* The loop of fetcher_function: at the condition, in recv, and after the  *)
(* loop.  recv ends with a packet, with -1 when the queue is closed or     *)
(* fails, or with 0; after -1 the state is set to STOPPING, whatever it    *)
(* was, after 0 it stays.  Then the thread closes the queue, be it again:  *)
(* it was the one to read it, so no other thread here notices.             *)
fetcher_loop ==
  /\ thread["fetcher"] = "loop"
  /\ Goto("fetcher", IF servicestate >= RUNNING THEN "recv" ELSE "exit")
  /\ UNCHANGED rest

(* fetcher_callback looks at the state again, decides on the packet or     *)
(* goes on to queue it, and counts it.                                     *)
fetcher_packet ==
  /\ thread["fetcher"] = "recv" /\ ~ closed /\ arrived < MaxPackets
  /\ arrived' = arrived + 1
  /\ late' = IF servicestate >= RUNNING THEN late ELSE late + 1
  /\ \/ /\ servicestate >= RUNNING
        /\ Goto("fetcher", "queue")
        /\ UNCHANGED countersVars
     \/ /\ Goto("fetcher", "loop")
        /\ Count("fetcher")
  /\ UNCHANGED <<state, qlen>>

\* Mutant of queue_packet: the queue is not signalled.
queue_packet_silent ==
  /\ thread["fetcher"] = "queue"
  /\ qlen' = qlen + 1
  /\ Goto("fetcher", "loop")
  /\ Count("fetcher")
  /\ UNCHANGED <<state, arrived, late>>

queue_packet ==
  /\ thread["fetcher"] = "queue"
  /\ qlen' = qlen + 1
  /\ thread' = [Signalled EXCEPT !["fetcher"] = "loop"]
  /\ Count("fetcher")
  /\ UNCHANGED <<state, arrived, late>>

fetcher_error ==
  /\ thread["fetcher"] = "recv"
  /\ Goto("fetcher", "failed") \/ Goto("fetcher", "exit")
  /\ UNCHANGED rest

fetcher_failed ==
  /\ thread["fetcher"] = "failed"
  /\ servicestate' = STOPPING
  /\ Goto("fetcher", "exit")
  /\ UNCHANGED <<handler, signals, closed, joined, packets, countersVars>>

(* The loop of worker_thread, which nothing ends.  dequeue_packet waits at *)
(* most once: who wakes up to an empty queue gets no packet, and comes     *)
(* back.                                                                   *)
worker_wait ==
  /\ thread["worker"] = "loop" /\ qlen = 0
  /\ Goto("worker", "wait")
  /\ UNCHANGED rest

worker_wake ==
  /\ thread["worker"] = "wait"
  /\ Goto("worker", "loop")
  /\ UNCHANGED rest

dequeue_packet ==
  /\ thread["worker"] = "loop" /\ qlen > 0
  /\ qlen' = qlen - 1
  /\ Goto("worker", "work")
  /\ UNCHANGED <<state, arrived, late, countersVars>>

worker_done ==
  /\ thread["worker"] = "work"
  /\ Count("worker")
  /\ Goto("worker", "loop")
  /\ UNCHANGED <<state, packets>>

\* Mutant of sleeper_loop: does not end when STOPPED.
sleeper_loop_on(t) ==
  /\ thread[t] = "loop" /\ servicestate < STOPPED
  /\ Goto(t, "exit")
  /\ UNCHANGED rest

(* The threads that sleep between two looks at the state, and do what      *)
(* other modules model.                                                    *)
sleeper_loop(t) ==
  /\ thread[t] = "loop" /\ servicestate < STOPPING
  /\ Goto(t, "exit")
  /\ UNCHANGED rest

counters_loop ==
  /\ thread["counters"] = "loop"
  /\ Goto("counters", IF servicestate >= RUNNING THEN "sleep" ELSE "exit")
  /\ UNCHANGED rest

counters_find ==
  /\ thread["counters"] = "sleep"
  /\ execute_find
  /\ Goto("counters", "execute")
  /\ UNCHANGED <<state, packets>>

counters_execute ==
  /\ thread["counters"] = "execute"
  /\ execute_counters
  /\ Goto("counters", "loop")
  /\ UNCHANGED <<state, packets>>

-----------------------------------------------------------------------------
(* main *)

join ==
  /\ joined < Len(JoinOrder)
  /\ thread[JoinOrder[joined + 1]] = "exit"
  /\ joined' = joined + 1
  /\ UNCHANGED <<servicestate, handler, signals, closed, packets, thread, countersVars>>

WorkerStep == worker_wait \/ dequeue_packet \/ worker_done
CountersStep == counters_loop \/ counters_find \/ counters_execute

Next ==
  \/ signal_handler \/ fetcher_graceful_exit \/ shutdown_workers
  \/ \E t \in Metric : thread_start(t)
  \/ fetcher_loop \/ fetcher_packet \/ queue_packet \/ fetcher_error \/ fetcher_failed
  \/ WorkerStep \/ worker_wake
  \/ \E t \in UntilStopped : sleeper_loop(t)
  \/ CountersStep
  \/ join

Spec == Init /\ [][Next]_vars

(* A thread, the handler or main can go on. *)
CanRun(t) ==
  CASE t = "handler" -> handler # "none"
    [] t = "main" -> joined < Len(JoinOrder) /\ thread[JoinOrder[joined + 1]] = "exit"
    [] t = "fetcher" -> thread[t] \notin {"recv", "exit"}
    [] t = "worker" -> thread[t] \in {"start", "work"} \/ (thread[t] = "loop" /\ qlen > 0)

(* The threads run and sleeps end.  Nothing makes recv return: no packet   *)
(* need come, and closing a socket need not wake up who waits at it.       *)
(* Nothing but a signal need wake up a worker that waits.  The handler,    *)
(* main, the fetcher and the worker make only so many steps: that they     *)
(* cannot go on, again and again, is the weak fairness of these steps.     *)
FairSpec ==
  /\ Spec
  /\ \A t \in {"handler", "main", "fetcher", "worker"} : []<> ~ CanRun(t)
  /\ \A t \in UntilStopped : WF_vars(sleeper_loop(t))
  /\ WF_vars(CountersStep)

-----------------------------------------------------------------------------

(* Type correctness. *)
TypeOK ==
  /\ servicestate \in {RUNNING, STOPPING, STOPPED}
  /\ handler \in {"none", "fetcher", "workers"}
  /\ signals \in 0 .. MaxSignals /\ arrived \in 0 .. MaxPackets
  /\ late \in 0 .. arrived /\ qlen \in 0 .. arrived
  /\ closed \in BOOLEAN
  /\ thread \in [Thread -> {"start", "loop", "recv", "queue", "failed", "work", "wait",
                            "sleep", "execute", "exit"}]
  /\ joined \in 0 .. Len(JoinOrder)
  /\ CountersTypeOK

(* However the service stops, while the fetcher handles a packet, waits    *)
(* for one or is about to, it takes at most one more.                      *)
AtMostOneLate == late <= 1

(* When the service stays STOPPED and the fetcher has ended, main joins    *)
(* the threads up to the health agent.                                     *)
StoppedJoins ==
  <>[] (servicestate = STOPPED) /\ <> (thread["fetcher"] = "exit") => <> (joined >= 3)

(* What is put in a worker's queue is taken from it, although the worker   *)
(* waits at most once, wakes up for nothing, and is signalled by           *)
(* shutdown_workers too; also what the fetcher was about to queue when the *)
(* service stopped.                                                        *)
QueueDrained == qlen > 0 ~> qlen = 0

(* While the service runs, whatever the fetcher and the worker count gets  *)
(* into a rate, in whatever order they register.                           *)
PacketsReported ==
  \A m \in Metric : since[m] > 0 ~> (since[m] = 0 \/ servicestate # RUNNING)

=============================================================================
