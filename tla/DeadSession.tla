---------------------------- MODULE DeadSession -----------------------------
(***************************************************************************)
(* Dead session detection: what cleanuplist (subsystems/sessioncleanup.c)  *)
(* does to one session in each pass of the cleanup thread, updateseq       *)
(* (sessionmanager.c), which a packet of the session runs, and the two     *)
(* ends, which answer keepalives until they die.  Keepalives and answers   *)
(* may be lost.                                                            *)
(***************************************************************************)
EXTENDS Naturals

CONSTANTS SeqModulus,  \* of the TCP sequence numbers, 2^32 in the code
          MaxTalk      \* bound on the packets the ends send by themselves

Sizes == SeqModulus \in Nat \ {0, 1} /\ MaxTalk \in Nat

ASSUME DeadSessionAssumption == Sizes

Side == {"larger", "smaller"}
SeqNo == 0 .. SeqModulus - 1

VARIABLES sequence, nextsequence, previoussequence,  \* of each endpoint
          deadcounter,
          loaded,     \* deadcounter as deadcounter++ has read it, or NotLoaded
          doomed,     \* cleanuplist has found the session dead, and is to clear it
          present,    \* the session is in the table
          enabled,    \* dead_session_detection
          alive,      \* alive[x]: the host of side x is up
          probe,      \* probe[x]: a keepalive to x is on its way
          talked,     \* how many packets the ends have sent by themselves
          unanswered, \* history: keepalives since the last packet that counted
          raced       \* history: one counted between the load and the store, or
                      \* between the test of deadcounter and the removal

endpoint == <<sequence, nextsequence, previoussequence>>
history == <<unanswered, raced>>
cleanup == <<loaded, doomed>>
vars == <<endpoint, deadcounter, cleanup, present, enabled, alive, probe, talked, history>>

NotLoaded == 99

Init ==
  /\ sequence = [x \in Side |-> 0]
  /\ nextsequence = [x \in Side |-> 0]
  /\ previoussequence = [x \in Side |-> 0]
  /\ deadcounter = 0 /\ loaded = NotLoaded /\ doomed = FALSE
  /\ present = TRUE /\ enabled = TRUE
  /\ alive = [x \in Side |-> TRUE]
  /\ probe = [x \in Side |-> FALSE]
  /\ talked = 0 /\ unanswered = 0 /\ raced = FALSE

\* Mutant of updateseq: the sequence numbers only.
updateseq_only(x, seq, len) ==
  \/ /\ seq # nextsequence[x] /\ seq = (sequence[x] + SeqModulus - 1) % SeqModulus
     /\ UNCHANGED <<endpoint, deadcounter, history>>
  \/ /\ seq = nextsequence[x] \/ seq # (sequence[x] + SeqModulus - 1) % SeqModulus
     /\ sequence' = [sequence EXCEPT ![x] = seq]
     /\ nextsequence' = [nextsequence EXCEPT ![x] = (seq + len) % SeqModulus]
     /\ unanswered' = 0 /\ raced' = (raced \/ loaded # NotLoaded \/ doomed)
     /\ UNCHANGED <<previoussequence, deadcounter>>

(* A packet from x.  One that looks like a keepalive does not count. *)
updateseq(x, seq, len) ==
  \/ /\ seq # nextsequence[x] /\ seq = (sequence[x] + SeqModulus - 1) % SeqModulus
     /\ UNCHANGED <<endpoint, deadcounter, history>>
  \/ /\ seq = nextsequence[x] \/ seq # (sequence[x] + SeqModulus - 1) % SeqModulus
     /\ sequence' = [sequence EXCEPT ![x] = seq]
     /\ nextsequence' = [nextsequence EXCEPT ![x] = (seq + len) % SeqModulus]
     /\ deadcounter' = 0
     /\ unanswered' = 0 /\ raced' = (raced \/ loaded # NotLoaded \/ doomed)
     /\ UNCHANGED previoussequence

(* New data, a retransmission, an acknowledgement or a keepalive. *)
talk(x, seq, len) ==
  /\ present /\ alive[x] /\ talked < MaxTalk
  /\ talked' = talked + 1
  /\ updateseq(x, seq, len)
  /\ UNCHANGED <<cleanup, present, enabled, alive, probe>>

(* The answer to a keepalive is an acknowledgement without data. *)
answer(x) ==
  /\ probe[x] /\ alive[x] /\ present
  /\ probe' = [probe EXCEPT ![x] = FALSE]
  /\ updateseq(x, nextsequence[x], 0)
  /\ UNCHANGED <<cleanup, present, enabled, alive, talked>>

lose(x) ==
  /\ probe[x]
  /\ probe' = [probe EXCEPT ![x] = FALSE]
  /\ UNCHANGED <<endpoint, deadcounter, cleanup, present, enabled, alive, talked, history>>

die(x) ==
  /\ alive[x]
  /\ alive' = [alive EXCEPT ![x] = FALSE]
  /\ UNCHANGED <<endpoint, deadcounter, cleanup, present, enabled, probe, talked, history>>

(* The commands dead session detection enable and disable. *)
set_detection(on) ==
  /\ enabled' = on
  /\ UNCHANGED <<endpoint, deadcounter, cleanup, present, alive, probe, talked, history>>

Dead == deadcounter > 2

\* Mutant of Unmoved: the comparison is the wrong way round.
Moved(x) == sequence[x] # previoussequence[x]

Unmoved(x) == sequence[x] = previoussequence[x]

(* The keepalive, and the load of deadcounter++. *)
sendkeepalive(x) ==
  /\ probe' = [probe EXCEPT ![x] = TRUE]
  /\ loaded' = deadcounter
  /\ unanswered' = unanswered + 1
  /\ UNCHANGED <<deadcounter, previoussequence>>

(* The body of the loop of cleanuplist, when the session is not dead. *)
check_idle ==
  /\ present /\ loaded = NotLoaded /\ ~ doomed /\ ~ Dead
  /\ \/ Unmoved("larger") /\ sendkeepalive("larger")
     \/ ~ Unmoved("larger") /\ Unmoved("smaller") /\ sendkeepalive("smaller")
     \/ /\ ~ Unmoved("larger") /\ ~ Unmoved("smaller")
        /\ deadcounter' = 0
        /\ previoussequence' = sequence
        /\ UNCHANGED <<loaded, probe, unanswered>>
  /\ UNCHANGED <<sequence, nextsequence, doomed, present, alive, talked, raced>>

(* The store of deadcounter++, and the sequence numbers are kept. *)
store_deadcounter ==
  /\ loaded # NotLoaded
  /\ deadcounter' = loaded + 1
  /\ loaded' = NotLoaded
  /\ previoussequence' = sequence
  /\ UNCHANGED <<sequence, nextsequence, doomed, present, enabled, alive, probe, talked, history>>

(* The counter is over the limit: the session is to be removed, ... *)
find_dead ==
  /\ present /\ loaded = NotLoaded /\ ~ doomed /\ Dead
  /\ doomed' = TRUE
  /\ UNCHANGED <<endpoint, deadcounter, loaded, present, alive, probe, talked, history>>

(* ... and is, in clearsession, without another look at the counter.       *)
remove ==
  /\ doomed
  /\ present' = FALSE /\ doomed' = FALSE
  /\ UNCHANGED <<endpoint, deadcounter, loaded, enabled, alive, probe, talked, history>>

(* One pass, if detection is enabled when it begins. *)
cleanup_function ==
  \/ enabled /\ UNCHANGED enabled /\ (check_idle \/ find_dead)
  \/ store_deadcounter
  \/ remove

Next ==
  \/ \E x \in Side, seq \in SeqNo, len \in {0, 1} : talk(x, seq, len)
  \/ \E x \in Side : answer(x) \/ lose(x) \/ die(x)
  \/ \E on \in BOOLEAN : set_detection(on)
  \/ cleanup_function

Spec == Init /\ [][Next]_vars

(* The cleanup thread makes pass after pass while detection is enabled. *)
FairSpec == Spec /\ WF_vars(cleanup_function)

-----------------------------------------------------------------------------

(* Type correctness; the counter stays small. *)
TypeOK ==
  /\ sequence \in [Side -> SeqNo] /\ nextsequence \in [Side -> SeqNo]
  /\ previoussequence \in [Side -> SeqNo]
  /\ deadcounter \in 0 .. 3 /\ loaded \in 0 .. 2 \cup {NotLoaded}
  /\ present \in BOOLEAN /\ enabled \in BOOLEAN /\ doomed \in BOOLEAN
  /\ alive \in [Side -> BOOLEAN] /\ probe \in [Side -> BOOLEAN]
  /\ talked \in 0 .. MaxTalk /\ unanswered \in 0 .. 3 /\ raced \in BOOLEAN

(* A session is removed only when the last three keepalives brought no     *)
(* packet that counted, whatever the sequence numbers do: that two ends    *)
(* are idle, or that their numbers wrap around, never removes a session.   *)
(* No lock is held meanwhile, so that two moments have to be excepted, in  *)
(* both of which a session that has just spoken is removed (raced): the    *)
(* packet came while deadcounter++ was going on, or when the counter was   *)
(* found to be over the limit and the session not yet cleared.             *)
RemovedWhenSilent == ~ present /\ ~ raced => unanswered >= 3

(* Two dead ends are found out, if detection stays enabled. *)
DeadSessionRemoved ==
  (\A x \in Side : ~ alive[x]) /\ [] enabled ~> ~ present

=============================================================================
