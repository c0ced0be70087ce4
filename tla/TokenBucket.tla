---------------------------- MODULE TokenBucket ----------------------------
(***************************************************************************)
(* What the per-IP limiter promises, without saying how it is kept: every  *)
(* address has a bucket that gains one unit a tick up to Burst, a          *)
(* connection is admitted when the bucket holds Cost units and fewer than  *)
(* MaxConcurrent connections are open, and every address is remembered     *)
(* for ever.                                                               *)
(***************************************************************************)
EXTENDS Integers

CONSTANTS IPs, Burst, Cost, RateOn, MaxConcurrent

VARIABLES level, open

Smaller(a, b) == IF a < b THEN a ELSE b

Init == level = [i \in IPs |-> Burst] /\ open = [i \in IPs |-> 0]

MayAdmit(i) ==
  /\ RateOn => level[i] >= Cost
  /\ MaxConcurrent > 0 => open[i] < MaxConcurrent

Admit(i) ==
  /\ MayAdmit(i)
  /\ level' = [level EXCEPT ![i] = IF RateOn THEN @ - Cost ELSE @]
  /\ open' = [open EXCEPT ![i] = @ + 1]

Close(i) ==
  /\ open[i] > 0
  /\ open' = [open EXCEPT ![i] = @ - 1]
  /\ UNCHANGED level

Refill ==
  /\ level' = [i \in IPs |-> Smaller(Burst, level[i] + 1)]
  /\ UNCHANGED open

Next == Refill \/ \E i \in IPs : Admit(i) \/ Close(i)

Spec == Init /\ [][Next]_<<level, open>>
=============================================================================
