----------------------------- MODULE Heartbeat ------------------------------
(***************************************************************************)
(* The kernel module hands packets to the daemon only while it believes    *)
(* the daemon is up.  The health agent of the daemon                       *)
(* (subsystems/healthagent.c) sends a heartbeat every healthtimer seconds, *)
(* opennopdrv/opennop_netlink.h receives it, and a timer of                *)
(* opennopdrv/module.c looks every timespan seconds when the last UP came. *)
(* The daemon may stop, be killed (scripts/opennop.sh) and start again at  *)
(* any time; a heartbeat may fail.                                         *)
(*                                                                         *)
(* Time is discrete.  A timer that has run out goes off before time goes   *)
(* on.                                                                     *)
(***************************************************************************)
EXTENDS Integers

CONSTANTS healthtimer,  \* 5 s in the code
          timespan      \* hbintervals * HBINTERVAL, 15 s in the code

ASSUME HeartbeatAssumption ==
  /\ healthtimer \in Nat \ {0} /\ timespan \in Nat
  /\ healthtimer < timespan

RUNNING == 1
STOPPING == 0
STOPPED == -1

VARIABLES process,      \* the daemon exists
          servicestate,
          agent,        \* healthagent_function has not returned
          sleeping,     \* what is left of its sleep
          daemonstate,  \* the kernel module's view of the daemon
          age,          \* time since tv_lasthb
          monitor,      \* what is left of the timer daemonmonitor
          steady        \* history: UP heard, and none failed or said DOWN since

vars == <<process, servicestate, agent, sleeping, daemonstate, age, monitor, steady>>
daemon == <<process, servicestate, agent>>

\* Bound on the age: beyond it, nothing tells ages apart.
Old == 2 * timespan

Init ==
  /\ process = FALSE /\ servicestate = STOPPED
  /\ agent = FALSE /\ sleeping = 0
  /\ daemonstate = "DOWN"
  /\ age = Old                     \* tv_lasthb = 0, the year 1970
  /\ monitor = timespan
  /\ steady = FALSE

(* main starts the health agent, which sleeps first. *)
start ==
  /\ ~ process
  /\ process' = TRUE /\ servicestate' = RUNNING
  /\ agent' = TRUE /\ sleeping' = healthtimer
  /\ UNCHANGED <<daemonstate, age, monitor, steady>>

kill ==
  /\ process
  /\ process' = FALSE /\ servicestate' = STOPPED
  /\ agent' = FALSE /\ sleeping' = 0
  /\ steady' = FALSE
  /\ UNCHANGED <<daemonstate, age, monitor>>

(* SIGTERM. *)
signal_handler ==
  /\ process
  /\ servicestate' = IF servicestate = RUNNING THEN STOPPING ELSE STOPPED
  /\ steady' = FALSE
  /\ UNCHANGED <<process, agent, sleeping, daemonstate, age, monitor>>

(* The fetcher has lost the Netfilter queue. *)
queue_failure ==
  /\ process
  /\ servicestate' = STOPPING
  /\ steady' = FALSE
  /\ UNCHANGED <<process, agent, sleeping, daemonstate, age, monitor>>

\* Round the loop of healthagent_function again, or out of it.
NextRound ==
  /\ agent' = (servicestate >= STOPPING)
  /\ sleeping' = IF servicestate >= STOPPING THEN healthtimer ELSE 0

(* send_hb, and opennop_nl_cmd_hb in the kernel module. *)
send_hb ==
  /\ agent /\ sleeping = 0
  /\ \/ /\ servicestate >= RUNNING
        /\ age' = 0
        /\ daemonstate' = "UP"
        /\ steady' = TRUE
     \/ /\ servicestate < RUNNING
        /\ daemonstate' = "DOWN"
        /\ steady' = FALSE
        /\ UNCHANGED age
  /\ NextRound
  /\ UNCHANGED <<process, servicestate, monitor>>

(* No socket, or no message. *)
send_fails ==
  /\ agent /\ sleeping = 0
  /\ steady' = FALSE
  /\ NextRound
  /\ UNCHANGED <<process, servicestate, daemonstate, age, monitor>>

\* Mutant of daemonmonitor_function: never finds the daemon down.
monitor_trusts ==
  /\ monitor = 0
  /\ daemonstate' = IF age >= timespan THEN daemonstate ELSE "UP"
  /\ monitor' = timespan
  /\ UNCHANGED <<daemon, sleeping, age, steady>>

\* Mutant of daemonmonitor_function: one interval is enough.
monitor_hasty ==
  /\ monitor = 0
  /\ daemonstate' = IF age >= healthtimer THEN "DOWN" ELSE "UP"
  /\ monitor' = timespan
  /\ UNCHANGED <<daemon, sleeping, age, steady>>

daemonmonitor_function ==
  /\ monitor = 0
  /\ daemonstate' = IF age >= timespan THEN "DOWN" ELSE "UP"
  /\ monitor' = timespan
  /\ UNCHANGED <<daemon, sleeping, age, steady>>

tick ==
  /\ monitor > 0
  /\ agent => sleeping > 0
  /\ monitor' = monitor - 1
  /\ sleeping' = IF agent THEN sleeping - 1 ELSE sleeping
  /\ age' = IF age < Old THEN age + 1 ELSE age
  /\ UNCHANGED <<daemon, daemonstate, steady>>

Next ==
  \/ start \/ kill \/ signal_handler \/ queue_failure
  \/ send_hb \/ send_fails
  \/ daemonmonitor_function
  \/ tick

Spec == Init /\ [][Next]_vars

(* The kernel's timer runs, and time goes on. *)
FairSpec == Spec /\ WF_vars(daemonmonitor_function) /\ WF_vars(tick)
                 /\ WF_vars(send_hb \/ send_fails)

(* The verdict of the Netfilter hook on a TCP packet. *)
queue_function == IF daemonstate = "UP" THEN "NF_QUEUE" ELSE "NF_ACCEPT"

-----------------------------------------------------------------------------

(* Type correctness. *)
TypeOK ==
  /\ process \in BOOLEAN /\ agent \in BOOLEAN /\ steady \in BOOLEAN
  /\ servicestate \in {RUNNING, STOPPING, STOPPED}
  /\ sleeping \in 0 .. healthtimer
  /\ daemonstate \in {"UP", "DOWN"}
  /\ age \in 0 .. Old /\ monitor \in 0 .. timespan

(* Packets are queued only to a daemon that was heard of in the last two   *)
(* periods of the timer, whenever it was killed and whatever it said last. *)
HeardOfLately == queue_function = "NF_QUEUE" => age < 2 * timespan

(* The timer never cuts off a daemon that sends its heartbeats. *)
SteadyIsUp == steady => queue_function = "NF_QUEUE"

(* Once the daemon is gone for good, packets pass it by for good. *)
KilledIsBypassed ==
  <>[] (~ process) => <>[] (queue_function = "NF_ACCEPT")

=============================================================================
