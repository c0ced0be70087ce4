------------------------------ MODULE Limiter ------------------------------
(***************************************************************************)
(* internal/router/limits.go: per-IP token bucket and connection cap, with *)
(* the minute sweep that forgets idle addresses (router.go:153-165).       *)
(*                                                                         *)
(* Tokens are counted in units such that the bucket gains one unit a clock *)
(* tick; a connection costs Cost units.  Rounding of the code's float64 is *)
(* not modelled.  The clock is monotonic, as time.Now is inside a process. *)
(*                                                                         *)
(* A release closure holds a pointer to the ipState it was made for.  The  *)
(* open connections of an address are therefore counted in two groups:     *)
(* those whose ipState is the one in the table, and those whose ipState    *)
(* was deleted from it.                                                    *)
(***************************************************************************)
EXTENDS Integers

CONSTANTS
  IPs,
  Burst,           \* bucket size, in units
  Cost,            \* price of a connection, in units
  RateOn,          \* rate > 0
  MaxConcurrent,   \* 0 disables the cap
  NoState,         \* no ipState in the table
  MaxTime,         \* bound on the clock
  MaxOpen          \* bound on an address's open connections

IpState == [tokens : Nat, last : Nat, active : Nat]

\* newLimiter raises a burst below one token to one.
ASSUME LimiterAssumption ==
  /\ Cost \in Nat \ {0} /\ Burst \in Nat /\ Burst >= Cost
  /\ MaxConcurrent \in Nat
  /\ MaxTime \in Nat /\ MaxOpen \in Nat

\* enabled() holds: a disabled limiter admits everyone and keeps no state.
ASSUME EnabledAssumption == RateOn \in BOOLEAN /\ (RateOn \/ MaxConcurrent > 0)

ASSUME NoStateAssumption == NoState \notin IpState

VARIABLES
  now,
  ips,        \* limiter.ips
  held,       \* open connections whose release points into ips
  orphans,    \* open connections whose ipState is no longer in ips
  reason,     \* what the last acquire for the address returned
  start,      \* history: start of an arbitrary window of time
  spent       \* history: units paid since then

vars == <<now, ips, held, orphans, reason, start, spent>>

Smaller(a, b) == IF a < b THEN a ELSE b

Init ==
  /\ now = 0
  /\ ips = [i \in IPs |-> NoState]
  /\ held = [i \in IPs |-> 0] /\ orphans = [i \in IPs |-> 0]
  /\ reason = [i \in IPs |-> "none"]
  /\ start = [i \in IPs |-> 0] /\ spent = [i \in IPs |-> 0]

\* The ipState acquire works on: the one in the table or a fresh one.
Lookup(i) ==
  IF ips[i] = NoState THEN [tokens |-> Burst, last |-> now, active |-> 0] ELSE ips[i]

RefilledTwice(st) ==
  IF RateOn THEN [st EXCEPT !.tokens = Smaller(Burst, @ + (now - st.last))] ELSE st

Refilled(st) ==
  IF RateOn
  THEN [st EXCEPT !.tokens = Smaller(Burst, @ + (now - st.last)), !.last = now]
  ELSE st

OverRate(st) == RateOn /\ st.tokens < Cost

OverCap(st) == MaxConcurrent > 0 /\ st.active >= MaxConcurrent

Price == IF RateOn THEN Cost ELSE 0

Admitted(st) ==
  [tokens |-> st.tokens - Price, last |-> st.last, active |-> st.active + 1]

\* acquire refuses: the refilled state stays in the table.
Refuse(i) ==
  LET st == Refilled(Lookup(i)) IN
  /\ OverRate(st) \/ OverCap(st)
  /\ ips' = [ips EXCEPT ![i] = st]
  /\ reason' = [reason EXCEPT ![i] = IF OverRate(st) THEN "rate" ELSE "concurrency"]
  /\ UNCHANGED <<now, held, orphans, start, spent>>

\* acquire admits a connection.
Accept(i) ==
  LET st == Refilled(Lookup(i)) IN
  /\ ~OverRate(st) /\ ~OverCap(st)
  /\ held[i] + orphans[i] < MaxOpen
  /\ ips' = [ips EXCEPT ![i] = Admitted(st)]
  /\ held' = [held EXCEPT ![i] = @ + 1]
  /\ spent' = [spent EXCEPT ![i] = @ + Price]
  /\ reason' = [reason EXCEPT ![i] = "none"]
  /\ UNCHANGED <<now, orphans, start>>

ReleaseLost(i) ==
  \E own \in BOOLEAN :
    /\ IF own THEN held[i] > 0 ELSE orphans[i] > 0
    /\ held' = [held EXCEPT ![i] = IF own THEN @ - 1 ELSE @]
    /\ orphans' = [orphans EXCEPT ![i] = IF own THEN @ ELSE @ - 1]
    /\ UNCHANGED <<now, ips, reason, start, spent>>

\* The release closure decrements the ipState it was made for (once), be that
\* state its own entry of the table or one that was deleted from it.
Release(i) ==
  \E own \in BOOLEAN :
    /\ IF own THEN held[i] > 0 ELSE orphans[i] > 0
    /\ ips' = IF own THEN [ips EXCEPT ![i] = [ips[i] EXCEPT !.active = @ - 1]] ELSE ips
    /\ held' = [held EXCEPT ![i] = IF own THEN @ - 1 ELSE @]
    /\ orphans' = [orphans EXCEPT ![i] = IF own THEN @ ELSE @ - 1]
    /\ UNCHANGED <<now, reason, start, spent>>

Full(st) == ~RateOn \/ st.tokens + (now - st.last) >= Burst

ForgottenWhileOpen(i) == ips[i] # NoState /\ Full(ips[i])

ForgottenWhenPaid(i) ==
  ips[i] # NoState /\ ips[i].active = 0 /\ (~RateOn \/ ips[i].tokens >= Cost)

Forgotten(i) == ips[i] # NoState /\ ips[i].active = 0 /\ Full(ips[i])

\* sweep: one pass over the table under mu.
Sweep ==
  /\ \E i \in IPs : Forgotten(i)
  /\ ips' = [i \in IPs |-> IF Forgotten(i) THEN NoState ELSE ips[i]]
  /\ orphans' = [i \in IPs |-> IF Forgotten(i) THEN orphans[i] + held[i] ELSE orphans[i]]
  /\ held' = [i \in IPs |-> IF Forgotten(i) THEN 0 ELSE held[i]]
  /\ UNCHANGED <<now, reason, start, spent>>

Clock ==
  /\ now < MaxTime
  /\ now' = now + 1
  /\ UNCHANGED <<ips, held, orphans, reason, start, spent>>

\* History only: start measuring a window now.
OpenWindow(i) ==
  /\ start' = [start EXCEPT ![i] = now]
  /\ spent' = [spent EXCEPT ![i] = 0]
  /\ UNCHANGED <<now, ips, held, orphans, reason>>

Next ==
  \/ \E i \in IPs : Refuse(i) \/ Accept(i) \/ Release(i) \/ OpenWindow(i)
  \/ Sweep \/ Clock

Spec == Init /\ [][Next]_vars

-----------------------------------------------------------------------------
\* The units an acquire would find now.
Level(i) ==
  IF ips[i] = NoState THEN Burst
  ELSE IF RateOn THEN Smaller(Burst, ips[i].tokens + (now - ips[i].last))
  ELSE Burst

Open(i) == held[i] + orphans[i]

\* Every variable has its type.
TypeOK ==
  /\ now \in Nat
  /\ ips \in [IPs -> IpState \cup {NoState}]
  /\ held \in [IPs -> Nat] /\ orphans \in [IPs -> Nat]
  /\ reason \in [IPs -> {"none", "rate", "concurrency"}]
  /\ start \in [IPs -> Nat] /\ spent \in [IPs -> Nat]

\* The cap holds for the connections that are really open (limits.go:67),
\* although sweep deletes the state they are counted in (limits.go:94).
CapHolds == MaxConcurrent > 0 => \A i \in IPs : Open(i) <= MaxConcurrent

\* In any window of time an address is admitted at most burst plus rate times
\* the window's length (limits.go:60-72): neither the lazy refill nor a sweep
\* in between hands out a token twice.
WindowBound ==
  RateOn => \A i \in IPs : spent[i] <= Burst + (now - start[i])

\* An address is refused for concurrency only while that many of its
\* connections are really open: no release is lost (limits.go:75-81).
RefusedOnlyAtCap ==
  [][\A i \in IPs : Refuse(i) /\ reason'[i] = "concurrency" =>
        MaxConcurrent > 0 /\ Open(i) >= MaxConcurrent]_vars

Bucket == INSTANCE TokenBucket WITH
  level <- [i \in IPs |-> Level(i)], open <- [i \in IPs |-> Open(i)]

\* limits.go implements the eager token bucket: filling lazily on acquire and
\* forgetting idle full buckets cannot be told from remembering everything.
ImplementsBucket == Bucket!Spec
=============================================================================
