--------------------------- MODULE TimeoutProofs ---------------------------
(***************************************************************************)
(* Who is silent is taken for dead: proofs about Heartbeat, for every      *)
(* healthtimer shorter than timespan, and about DeadSession, for sequence  *)
(* numbers of any width.                                                   *)
(***************************************************************************)
EXTENDS Heartbeat, TLAPS

\* While the module believes the daemon is up, what has passed since the
\* last UP and what is left of the timer are together less than two of its
\* periods; and the age of a steady daemon's heartbeat is what its agent has
\* slept.
Inv ==
  /\ TypeOK
  /\ agent => process
  /\ daemonstate = "UP" => age + monitor < 2 * timespan
  /\ steady => /\ daemonstate = "UP"
               /\ process /\ agent /\ servicestate = RUNNING
               /\ age <= healthtimer - sleeping

(* The module is loaded before the daemon starts, in a state of Inv. *)
LEMMA InitInv == Init => Inv
<1> SUFFICES ASSUME Init PROVE Inv
  OBVIOUS
<1>1. process \in BOOLEAN /\ agent \in BOOLEAN /\ steady \in BOOLEAN /\ ~ steady
  BY Zenon DEF Init
<1>2. /\ servicestate \in {RUNNING, STOPPING, STOPPED} /\ daemonstate \in {"UP", "DOWN"}
  BY Zenon DEF Init
<1>3. sleeping \in 0 .. healthtimer /\ age \in 0 .. Old /\ monitor \in 0 .. timespan
  BY HeartbeatAssumption DEF Init, Old
<1> QED
  BY <1>1, <1>2, <1>3 DEF Init, Inv, TypeOK

(* The agent's sleep is never longer than its period. *)
LEMMA SleepLeaves == \A s \in 0 .. healthtimer : 0 <= healthtimer - s
BY HeartbeatAssumption

(* Every step keeps Inv. *)
LEMMA NextInv == Inv /\ [Next]_vars => Inv'
<1> SUFFICES ASSUME Inv, [Next]_vars PROVE Inv'
  OBVIOUS
<1> USE HeartbeatAssumption DEF RUNNING, STOPPING, STOPPED
<1>1. CASE start
  <2>1. ~ steady
    BY <1>1 DEF start, Inv
  <2> QED
    BY <1>1, <2>1 DEF start, Inv, TypeOK
<1>2. CASE kill
  <2>1. /\ process' \in BOOLEAN /\ agent' \in BOOLEAN /\ steady' \in BOOLEAN
        /\ ~ agent' /\ ~ steady'
    BY <1>2, Zenon DEF kill
  <2> QED
    BY <1>2, <2>1 DEF kill, Inv, TypeOK
<1>3. CASE signal_handler
  BY <1>3 DEF signal_handler, Inv, TypeOK
<1>4. CASE queue_failure
  BY <1>4 DEF queue_failure, Inv, TypeOK
<1>5. CASE send_hb
  <2>1. sleeping' \in 0 .. healthtimer
    BY <1>5 DEF send_hb, NextRound, Inv, TypeOK
  <2>a. /\ agent' \in BOOLEAN
        /\ servicestate >= STOPPING => agent'
        /\ process' = process /\ process
    <3>1. agent /\ agent' = (servicestate >= STOPPING) /\ process' = process
      BY <1>5, Zenon DEF send_hb, NextRound
    <3>2. (servicestate >= STOPPING) \in BOOLEAN
      BY DEF Inv, TypeOK
    <3> QED
      BY <3>1, <3>2, Zenon DEF Inv
  <2>2. CASE servicestate >= RUNNING
    <3>1. servicestate >= STOPPING /\ ~ (servicestate < RUNNING)
      BY <2>2 DEF Inv, TypeOK
    <3>2. age' = 0 /\ daemonstate' = "UP" /\ steady' \in BOOLEAN
      BY <1>5, <3>1, Zenon DEF send_hb
    <3>3. UNCHANGED <<servicestate, monitor>> /\ sleeping' <= healthtimer
      BY <1>5, <2>1 DEF send_hb
    <3>4. TypeOK'
      BY <2>1, <2>a, <3>2, <3>3 DEF Inv, TypeOK, Old
    <3>5. age' + monitor' < 2 * timespan
      BY <3>2, <3>3 DEF Inv, TypeOK
    <3>6. age' <= healthtimer - sleeping'
      <4>1. 0 <= healthtimer - sleeping'
        BY <2>1, SleepLeaves
      <4> QED
        BY <3>2, <4>1, Zenon
    <3>7. servicestate' = RUNNING
      BY <2>2, <3>3 DEF Inv, TypeOK
    <3>8. agent' /\ process'
      BY <2>a, <3>1, Zenon
    <3> QED
      BY <3>2, <3>4, <3>5, <3>6, <3>7, <3>8, Zenon DEF Inv
  <2>3. CASE servicestate < RUNNING
    <3>1. ~ (servicestate >= RUNNING)
      BY <2>3 DEF Inv, TypeOK
    <3>2. /\ daemonstate' = "DOWN" /\ steady' \in BOOLEAN /\ ~ steady'
          /\ UNCHANGED <<age, servicestate, monitor>>
      BY <1>5, <3>1, Zenon DEF send_hb
    <3> QED
      BY <2>1, <2>a, <3>2 DEF Inv, TypeOK
  <2> QED
    BY <2>2, <2>3 DEF Inv, TypeOK
<1>6. CASE send_fails
  <2>1. sleeping' \in 0 .. healthtimer
    BY <1>6 DEF send_fails, NextRound, Inv, TypeOK
  <2>2. agent /\ agent' \in BOOLEAN /\ steady' \in BOOLEAN /\ ~ steady'
    <3>1. (servicestate >= STOPPING) \in BOOLEAN
      BY DEF Inv, TypeOK
    <3> QED
      BY <1>6, <3>1, Zenon DEF send_fails, NextRound
  <2> QED
    BY <1>6, <2>1, <2>2 DEF send_fails, Inv, TypeOK
<1>7. CASE daemonmonitor_function
  <2>1. CASE age >= timespan
    <3>1. ~ steady
      BY <2>1 DEF Inv, TypeOK
    <3> QED
      BY <1>7, <2>1, <3>1 DEF daemonmonitor_function, daemon, Inv, TypeOK
  <2>2. CASE age < timespan
    BY <1>7, <2>2 DEF daemonmonitor_function, daemon, Inv, TypeOK
  <2> QED
    BY <2>1, <2>2 DEF Inv, TypeOK
<1>8. CASE tick
  <2>1. age' \in 0 .. Old /\ age' <= age + 1
    BY <1>8 DEF tick, Inv, TypeOK, Old
  <2>2. sleeping' \in 0 .. healthtimer
    BY <1>8 DEF tick, Inv, TypeOK
  <2>3. monitor' \in 0 .. timespan /\ monitor' = monitor - 1
    BY <1>8 DEF tick, Inv, TypeOK
  <2>4. TypeOK'
    BY <1>8, <2>1, <2>2, <2>3 DEF tick, daemon, Inv, TypeOK
  <2>5. daemonstate' = "UP" => age' + monitor' < 2 * timespan
    BY <1>8, <2>1, <2>3 DEF tick, Inv, TypeOK
  <2>6. steady' => age' <= healthtimer - sleeping'
    BY <1>8, <2>1 DEF tick, Inv, TypeOK
  <2> QED
    BY <1>8, <2>4, <2>5, <2>6 DEF tick, daemon, Inv
<1>9. CASE UNCHANGED vars
  BY <1>9 DEF vars, Inv, TypeOK, Old
<1> QED
  BY <1>1, <1>2, <1>3, <1>4, <1>5, <1>6, <1>7, <1>8, <1>9 DEF Next

(* The timers and the age stay in their range. *)
THEOREM HeartbeatTypeCorrect == Spec => []TypeOK
<1>1. Inv => TypeOK
  BY DEF Inv
<1> QED
  BY <1>1, InitInv, NextInv, PTL DEF Spec

(* queue_function hands packets only to a daemon heard of less than two    *)
(* periods of the timer ago.                                               *)
THEOREM QueuedOnlyIfHeardOf == Spec => []HeardOfLately
<1>1. Inv => HeardOfLately
  BY HeartbeatAssumption DEF Inv, TypeOK, HeardOfLately, queue_function
<1> QED
  BY <1>1, InitInv, NextInv, PTL DEF Spec

(* daemonmonitor_function never cuts off a daemon whose heartbeats come.   *)
THEOREM SteadyStaysUp == Spec => []SteadyIsUp
<1>1. Inv => SteadyIsUp
  BY DEF Inv, SteadyIsUp, queue_function
<1> QED
  BY <1>1, InitInv, NextInv, PTL DEF Spec

-----------------------------------------------------------------------------
(* Dead session detection *)

CONSTANTS SeqModulus, MaxTalk
VARIABLES sequence, nextsequence, previoussequence, deadcounter, loaded, doomed, present,
          enabled, alive, probe, talked, unanswered, raced
D == INSTANCE DeadSession

\* deadcounter counts the unanswered keepalives, the one being sent
\* included, unless a packet was lost on it; and a session that has moved
\* since the last pass has none.  A session found dead has its counter over
\* the limit still, unless a packet came since.
Counted ==
  /\ D!TypeOK
  /\ loaded = D!NotLoaded => unanswered <= deadcounter
  /\ loaded # D!NotLoaded => unanswered <= loaded + 1
  /\ ~ raced /\ loaded = D!NotLoaded => unanswered = deadcounter
  /\ ~ raced /\ loaded # D!NotLoaded => unanswered = loaded + 1
  /\ loaded = D!NotLoaded /\ sequence # previoussequence => deadcounter = 0 /\ unanswered = 0
  /\ doomed => loaded = D!NotLoaded /\ (~ raced => deadcounter > 2)
  /\ D!RemovedWhenSilent

(* The initial state, in which nothing has happened, satisfies Inv. *)
LEMMA DeadInit == D!Sizes /\ D!Init => Counted
<1> SUFFICES ASSUME D!Sizes, D!Init PROVE Counted
  OBVIOUS
<1>1. 0 \in D!SeqNo /\ 0 \in 0 .. MaxTalk
  BY DEF D!Sizes, D!SeqNo
<1>2. sequence = previoussequence
  BY DEF D!Init
<1>3. /\ sequence \in [D!Side -> D!SeqNo] /\ nextsequence \in [D!Side -> D!SeqNo]
      /\ previoussequence \in [D!Side -> D!SeqNo]
      /\ alive \in [D!Side -> BOOLEAN] /\ probe \in [D!Side -> BOOLEAN]
      /\ present \in BOOLEAN /\ enabled \in BOOLEAN /\ raced \in BOOLEAN /\ doomed \in BOOLEAN
  BY <1>1, Zenon DEF D!Init
<1>4. /\ deadcounter \in 0 .. 3 /\ loaded \in 0 .. 2 \cup {D!NotLoaded}
      /\ talked \in 0 .. MaxTalk /\ unanswered \in 0 .. 3
  BY <1>1 DEF D!Init
<1>5. D!TypeOK
  BY <1>3, <1>4, Zenon DEF D!TypeOK
<1> QED
  BY <1>2, <1>5 DEF D!Init, Counted, D!RemovedWhenSilent

(* updateseq, for any packet, keeps the invariant; what calls it leaves    *)
(* the cleanup thread and present alone.                                   *)
LEMMA DeadUpdate ==
  ASSUME D!Sizes, Counted, present, NEW x \in D!Side, NEW seq \in D!SeqNo, NEW len \in {0, 1},
         D!updateseq(x, seq, len),
         UNCHANGED <<loaded, doomed, present, enabled, alive>>,
         probe' \in [D!Side -> BOOLEAN], talked' \in 0 .. MaxTalk
  PROVE  Counted'
<1>1. CASE UNCHANGED <<D!endpoint, deadcounter, D!history>>
  BY <1>1 DEF Counted, D!TypeOK, D!RemovedWhenSilent, D!endpoint, D!cleanup, D!history
<1>2. CASE /\ sequence' = [sequence EXCEPT ![x] = seq]
           /\ nextsequence' = [nextsequence EXCEPT ![x] = (seq + len) % SeqModulus]
           /\ deadcounter' = 0
           /\ unanswered' = 0 /\ raced' = (raced \/ loaded # D!NotLoaded \/ doomed)
           /\ UNCHANGED previoussequence
  <2>1. (seq + len) % SeqModulus \in D!SeqNo
    BY SMT DEF D!Sizes, D!SeqNo
  <2>2. raced' \in BOOLEAN
    BY <1>2
  <2>3. ~ raced' => loaded = D!NotLoaded /\ ~ doomed
    BY <1>2, Zenon
  <2>4. D!TypeOK'
    BY <1>2, <2>1, <2>2 DEF Counted, D!TypeOK
  <2> QED
    BY <1>2, <2>3, <2>4 DEF Counted, D!TypeOK, D!RemovedWhenSilent, D!NotLoaded
<1> QED
  BY <1>1, <1>2 DEF D!updateseq

(* Every step keeps the invariant. *)
LEMMA DeadNext == D!Sizes /\ Counted /\ [D!Next]_(D!vars) => Counted'
<1> SUFFICES ASSUME D!Sizes, Counted, [D!Next]_(D!vars) PROVE Counted'
  OBVIOUS
<1> USE DEF D!Sizes
<1>1. ASSUME NEW x \in D!Side, NEW seq \in D!SeqNo, NEW len \in {0, 1}, D!talk(x, seq, len)
      PROVE Counted'
  <2>1. talked' \in 0 .. MaxTalk
    BY <1>1 DEF D!talk, Counted, D!TypeOK
  <2> QED
    BY <1>1, <2>1, DeadUpdate DEF D!talk, D!cleanup, Counted, D!TypeOK
<1>2. ASSUME NEW x \in D!Side, D!answer(x) PROVE Counted'
  <2>1. nextsequence[x] \in D!SeqNo
    BY <1>2 DEF Counted, D!TypeOK
  <2> QED
    BY <1>2, <2>1, DeadUpdate DEF D!answer, D!cleanup, Counted, D!TypeOK
<1>3. ASSUME NEW x \in D!Side, D!lose(x) \/ D!die(x) PROVE Counted'
  <2>1. UNCHANGED <<sequence, nextsequence, previoussequence, deadcounter, loaded, doomed,
                    present, enabled, talked, unanswered, raced>>
    BY <1>3 DEF D!lose, D!die, D!endpoint, D!cleanup, D!history
  <2>2. alive' \in [D!Side -> BOOLEAN] /\ probe' \in [D!Side -> BOOLEAN]
    BY <1>3 DEF D!lose, D!die, Counted, D!TypeOK
  <2> QED
    BY <2>1, <2>2 DEF Counted, D!TypeOK, D!RemovedWhenSilent
<1>4. ASSUME NEW on \in BOOLEAN, D!set_detection(on) PROVE Counted'
  BY <1>4 DEF D!set_detection, Counted, D!TypeOK, D!RemovedWhenSilent, D!endpoint, D!cleanup, D!history
<1>5. CASE D!check_idle /\ UNCHANGED enabled
  <2>1. ASSUME NEW x \in D!Side, D!sendkeepalive(x) PROVE Counted'
    BY <1>5, <2>1 DEF D!check_idle, D!Dead, D!sendkeepalive, Counted,
       D!TypeOK, D!RemovedWhenSilent, D!NotLoaded
  <2>2. CASE /\ ~ D!Unmoved("larger") /\ ~ D!Unmoved("smaller")
             /\ deadcounter' = 0
             /\ previoussequence' = sequence
             /\ UNCHANGED <<loaded, probe, unanswered>>
    <3>1. sequence # previoussequence
      BY <2>2 DEF D!Unmoved
    <3>2. deadcounter = 0 /\ unanswered = 0
      BY <1>5, <3>1 DEF D!check_idle, D!Dead, Counted
    <3> QED
      BY <1>5, <2>2, <3>2 DEF D!check_idle, D!Dead, Counted, D!TypeOK, D!RemovedWhenSilent, D!NotLoaded
  <2> QED
    BY <1>5, <2>1, <2>2 DEF D!check_idle, D!Dead, D!Side
<1>6. CASE D!find_dead /\ UNCHANGED enabled
  BY <1>6 DEF D!find_dead, D!Dead, Counted, D!TypeOK, D!RemovedWhenSilent, D!endpoint, D!history
<1>9. CASE D!remove
  <2>1. ~ raced => unanswered >= 3
    BY <1>9 DEF D!remove, Counted, D!TypeOK
  <2>2. /\ UNCHANGED <<D!endpoint, deadcounter, loaded, enabled, alive, probe, talked, D!history>>
        /\ present' = FALSE /\ doomed' = FALSE
    BY <1>9 DEF D!remove
  <2>3. D!TypeOK'
    BY <2>2, Zenon DEF Counted, D!TypeOK, D!endpoint, D!history
  <2>4. D!RemovedWhenSilent'
    BY <2>1, <2>2, Zenon DEF D!RemovedWhenSilent, D!history
  <2> QED
    BY <2>2, <2>3, <2>4 DEF Counted, D!endpoint, D!history
<1>7. CASE D!store_deadcounter
  BY <1>7 DEF D!store_deadcounter, Counted, D!TypeOK, D!RemovedWhenSilent, D!history, D!NotLoaded
<1>8. CASE UNCHANGED D!vars
  BY <1>8 DEF D!vars, Counted, D!TypeOK, D!RemovedWhenSilent, D!endpoint, D!cleanup, D!history
<1> QED
  BY <1>1, <1>2, <1>3, <1>4, <1>5, <1>6, <1>7, <1>8, <1>9 DEF D!Next, D!cleanup_function

(* The counters of dead session detection stay in their range. *)
THEOREM DeadSessionTypeCorrect ==
  ASSUME D!Sizes
  PROVE  D!Spec => []D!TypeOK
<1>1. Counted => D!TypeOK
  BY DEF Counted
<1>2. D!Init => Counted
  BY DeadInit
<1>3. Counted /\ [D!Next]_(D!vars) => Counted'
  BY DeadNext
<1> QED
  BY <1>1, <1>2, <1>3, PTL DEF D!Spec

(* cleanuplist removes a session only when three keepalives in a row       *)
(* brought no packet that counted, or one came in the two moments in which *)
(* the counter is not looked at: during deadcounter++, and between the     *)
(* test of the counter and clearsession.                                   *)
THEOREM OnlySilentRemoved ==
  ASSUME D!Sizes
  PROVE  D!Spec => []D!RemovedWhenSilent
<1>1. Counted => D!RemovedWhenSilent
  BY DEF Counted
<1>2. D!Init => Counted
  BY DeadInit
<1>3. Counted /\ [D!Next]_(D!vars) => Counted'
  BY DeadNext
<1> QED
  BY <1>1, <1>2, <1>3, PTL DEF D!Spec

=============================================================================
