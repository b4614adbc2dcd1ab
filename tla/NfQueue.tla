------------------------------ MODULE NfQueue -------------------------------
(***************************************************************************)
(* What the Netfilter queue expects of the daemon: every packet it hands   *)
(* over gets one verdict, and the kernel keeps the packet until then.      *)
(***************************************************************************)
CONSTANT Id

VARIABLE verdict    \* "none" (not handed over), "pending", "accept" or "drop"

NfqInit == verdict = [i \in Id |-> "none"]

Take(i) ==
  /\ verdict[i] = "none"
  /\ verdict' = [verdict EXCEPT ![i] = "pending"]

Decide(i, v) ==
  /\ verdict[i] \in {"none", "pending"}
  /\ verdict' = [verdict EXCEPT ![i] = v]

NfqNext == \E i \in Id : Take(i) \/ \E v \in {"accept", "drop"} : Decide(i, v)

NfqSpec == NfqInit /\ [][NfqNext]_verdict

=============================================================================
