------------------------------ MODULE Counters ------------------------------
(***************************************************************************)
(* The counters (subsystems/counters.c): threads register metrics, and the *)
(* counters' thread turns the number of packets that a thread has counted  *)
(* into a rate every few seconds.  The numbers are 32 bits and roll over.  *)
(* The numbers of bytes are treated as that of packets is.                 *)
(***************************************************************************)
EXTENDS Integers, Sequences

CONSTANTS Metric,                \* the threads with metrics
          CounterModulus,        \* 2^32
          UPDATECOUNTERSTIMER    \* seconds between two updates

ASSUME CountersAssumption ==
  /\ CounterModulus \in Nat \ {0} /\ CounterModulus % 2 = 0
  /\ UPDATECOUNTERSTIMER \in Nat \ {0}

VARIABLES counters,    \* the list of registered metrics
          found,       \* the counters' thread has found a first metric in the list
          metric,      \* metric[m]: packets, packetsprevious and pps
          since, span  \* history: packets counted since the last update, and
                       \* between the two before

countersVars == <<counters, found, metric, since, span>>

CountersInit ==
  /\ counters = <<>> /\ found = FALSE
  /\ metric = [m \in Metric |-> [packets |-> 0, previous |-> 0, pps |-> 0]]
  /\ since = [m \in Metric |-> 0] /\ span = [m \in Metric |-> 0]

(* packets++ *)
Count(m) ==
  /\ metric' = [metric EXCEPT ![m].packets = (@ + 1) % CounterModulus]
  /\ since' = [since EXCEPT ![m] = @ + 1]
  /\ UNCHANGED <<counters, found, span>>

\* Mutant of register_counter: the list is entered as if it were empty.
register_counter_over(m) ==
  /\ counters' = <<m>>
  /\ UNCHANGED <<found, metric, since, span>>

register_counter(m) ==
  /\ counters' = Append(counters, m)
  /\ UNCHANGED <<found, metric, since, span>>

\* Mutant of calculate_ppsbps: a number that rolled is taken for the rate.
calculate_ppsbps_rolled(previous, current) ==
  (IF previous < current THEN current - previous ELSE current) \div UPDATECOUNTERSTIMER

(* When the number has rolled, both are moved half way round first.        *)
calculate_ppsbps(previous, current) ==
  LET scale == CounterModulus \div 2
      U32(x) == x % CounterModulus
  IN
  (IF previous < current THEN current - previous
   ELSE U32(U32(current + scale) - U32(previous + scale))) \div UPDATECOUNTERSTIMER

(* counter_updatefetchermetrics and counter_updateworkermetrics.           *)
Updated(r) ==
  [r EXCEPT !.pps = calculate_ppsbps(r.previous, r.packets), !.previous = r.packets]

(* execute_counters reads the head of the list before it takes the lock.   *)
execute_find ==
  /\ found' = (counters # <<>>)
  /\ UNCHANGED <<counters, metric, since, span>>

execute_counters ==
  LET run == {m \in Metric : found /\ \E n \in DOMAIN counters : counters[n] = m}
  IN
  /\ metric' = [m \in Metric |-> IF m \in run THEN Updated(metric[m]) ELSE metric[m]]
  /\ since' = [m \in Metric |-> IF m \in run THEN 0 ELSE since[m]]
  /\ span' = [m \in Metric |-> IF m \in run THEN since[m] ELSE span[m]]
  /\ found' = FALSE
  /\ UNCHANGED counters

-----------------------------------------------------------------------------
(* Type correctness. *)
CountersTypeOK ==
  /\ counters \in Seq(Metric) /\ found \in BOOLEAN
  /\ \A m \in Metric : /\ metric[m].packets \in 0 .. CounterModulus - 1
                        /\ metric[m].previous \in 0 .. CounterModulus - 1
                        /\ metric[m].pps \in 0 .. CounterModulus - 1
                        /\ since[m] \in Nat /\ span[m] \in Nat

(* A rate is that of the packets counted between the last two updates,     *)
(* although the number of packets may have rolled over, and the thread     *)
(* that counts goes on meanwhile.  More packets than the number can hold   *)
(* cannot be told.                                                         *)
RatesRight ==
  \A m \in Metric :
    span[m] < CounterModulus => metric[m].pps = span[m] \div UPDATECOUNTERSTIMER

=============================================================================
