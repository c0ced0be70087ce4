--------------------------- MODULE LimiterProofs ---------------------------
(* What TLAPS proves about Limiter, for every rate, burst and cap.          *)
EXTENDS Limiter, TLAPS

\* The table counts exactly the open connections, and its buckets are never
\* above Burst nor filled into the future.
TableInv ==
  \A i \in IPs :
    /\ orphans[i] = 0
    /\ ips[i] = NoState => held[i] = 0
    /\ ips[i] # NoState => /\ ips[i].active = held[i]
                           /\ ips[i].last <= now
                           /\ ips[i].tokens <= Burst
    /\ MaxConcurrent > 0 => held[i] <= MaxConcurrent

\* What was paid in the window and what is left to pay with stay within the
\* burst plus what the window brought in.
WindowInv ==
  \A i \in IPs :
    /\ start[i] <= now
    /\ RateOn => spent[i] + Level(i) <= Burst + (now - start[i])

Inv == TypeOK /\ TableInv /\ WindowInv

LEMMA InitInv == Init => Inv
<1> SUFFICES ASSUME Init PROVE Inv OBVIOUS
<1>1. TypeOK
  BY DEF Init, TypeOK
<1>a. ASSUME NEW i \in IPs
      PROVE  /\ ips[i] = NoState /\ orphans[i] = 0 /\ held[i] = 0
             /\ start[i] = 0 /\ spent[i] = 0 /\ now = 0
  BY <1>a DEF Init
<1>2. TableInv
  <2> SUFFICES ASSUME NEW i \in IPs PROVE TableInv!(i) BY DEF TableInv
  <2> QED BY <1>a, LimiterAssumption
<1>3. WindowInv
  <2> SUFFICES ASSUME NEW i \in IPs PROVE WindowInv!(i) BY DEF WindowInv
  <2> QED BY <1>a, LimiterAssumption DEF Level
<1> QED BY <1>1, <1>2, <1>3 DEF Inv

\* The state acquire finds or makes holds what Level says.
LEMMA LookupFacts ==
  ASSUME Inv, NEW i \in IPs
  PROVE  /\ Lookup(i) \in IpState
         /\ Lookup(i).active = held[i]
         /\ Lookup(i).last <= now
         /\ Lookup(i).tokens <= Burst
         /\ RateOn => Level(i) = Smaller(Burst, Lookup(i).tokens + (now - Lookup(i).last))
<1>1. CASE ips[i] = NoState
  <2>1. Lookup(i) = [tokens |-> Burst, last |-> now, active |-> 0]
    BY <1>1 DEF Lookup
  <2>2. Level(i) = Burst /\ held[i] = 0 /\ now \in Nat
    BY <1>1 DEF Level, Inv, TableInv, TypeOK
  <2> QED BY <2>1, <2>2, LimiterAssumption DEF Smaller, IpState
<1>2. CASE ips[i] # NoState
  <2>1. Lookup(i) = ips[i] /\ ips[i] \in IpState
    BY <1>2 DEF Lookup, Inv, TypeOK
  <2>2. RateOn => Level(i) = Smaller(Burst, ips[i].tokens + (now - ips[i].last))
    BY <1>2 DEF Level
  <2> QED BY <1>2, <2>1, <2>2 DEF Inv, TableInv
<1> QED BY <1>1, <1>2

LEMMA RefilledFacts ==
  ASSUME Inv, NEW old \in IpState, old.last <= now, old.tokens <= Burst
  PROVE  /\ Refilled(old) \in IpState
         /\ Refilled(old).active = old.active
         /\ Refilled(old).last <= now
         /\ Refilled(old).tokens <= Burst
         /\ RateOn => /\ Refilled(old).tokens = Smaller(Burst, old.tokens + (now - old.last))
                      /\ Refilled(old).last = now
<1>0. now \in Nat /\ old.tokens \in Nat /\ old.last \in Nat /\ old.active \in Nat
  BY DEF Inv, TypeOK, IpState
<1>1. CASE RateOn
  <2> DEFINE t == Smaller(Burst, old.tokens + (now - old.last))
  <2>1. t \in Nat /\ t <= Burst
    BY <1>0, LimiterAssumption DEF Smaller
  <2>2. Refilled(old) = [old EXCEPT !.tokens = t, !.last = now]
    BY <1>1 DEF Refilled
  <2> HIDE DEF t
  <2>3. Refilled(old) = [tokens |-> t, last |-> now, active |-> old.active]
    BY <2>2 DEF IpState
  <2>4. Refilled(old).tokens = t /\ Refilled(old).last = now /\ Refilled(old).active = old.active
    BY <2>3
  <2>5. Refilled(old) \in IpState
    BY <1>0, <2>1, <2>3 DEF IpState
  <2> QED BY <1>0, <2>1, <2>4, <2>5 DEF t
<1>2. CASE ~RateOn
  BY <1>2 DEF Refilled
<1> QED BY <1>1, <1>2

\* Both together, for the state of acquire.
LEMMA AcquireFacts ==
  ASSUME Inv, NEW i \in IPs, NEW st, st = Refilled(Lookup(i))
  PROVE  /\ st \in IpState
         /\ st.active = held[i]
         /\ st.last <= now
         /\ st.tokens <= Burst
         /\ RateOn => st.tokens = Level(i) /\ st.last = now
BY LookupFacts, RefilledFacts

LEMMA LevelType ==
  ASSUME Inv, NEW i \in IPs
  PROVE  Level(i) \in Nat /\ Level(i) <= Burst
<1>1. CASE ips[i] = NoState
  BY <1>1, LimiterAssumption DEF Level
<1>2. CASE ips[i] # NoState
  <2>1. /\ ips[i].tokens \in Nat /\ ips[i].last \in Nat /\ now \in Nat
        /\ ips[i].last <= now
    BY <1>2 DEF Inv, TypeOK, TableInv, IpState
  <2>2. ips[i].tokens + (now - ips[i].last) \in Nat
    BY <2>1
  <2> QED BY <1>2, <2>2, LimiterAssumption DEF Level, Smaller
<1> QED BY <1>1, <1>2

\* A tick brings one unit, up to Burst.
LEMMA LevelStep ==
  ASSUME Inv, NEW i \in IPs, now' = now + 1, ips' = ips
  PROVE  Level(i)' = IF RateOn THEN Smaller(Burst, Level(i) + 1) ELSE Burst
<1>1. CASE ips[i] = NoState
  BY <1>1, LimiterAssumption DEF Level, Smaller
<1>2. CASE ips[i] # NoState
  <2>1. /\ ips[i].tokens \in Nat /\ ips[i].last \in Nat /\ now \in Nat
        /\ ips[i].last <= now
    BY <1>2 DEF Inv, TypeOK, TableInv, IpState
  <2> DEFINE x == ips[i].tokens + (now - ips[i].last)
  <2>2. x \in Nat /\ ips[i].tokens + ((now + 1) - ips[i].last) = x + 1
    BY <2>1
  <2>3. CASE RateOn
    <3>1. Level(i) = Smaller(Burst, x)
      BY <1>2, <2>3 DEF Level
    <3>2. Level(i)' = Smaller(Burst, x + 1)
      BY <1>2, <2>2, <2>3 DEF Level
    <3> QED BY <2>2, <2>3, <3>1, <3>2, LimiterAssumption DEF Smaller
  <2>4. CASE ~RateOn
    BY <1>2, <2>4 DEF Level
  <2> QED BY <2>3, <2>4
<1> QED BY <1>1, <1>2

\* A step that concerns one address keeps the facts of the others.
LEMMA OneAddress ==
  ASSUME Inv, NEW i \in IPs, TypeOK', now' = now,
         \A j \in IPs \ {i} : /\ ips'[j] = ips[j] /\ held'[j] = held[j]
                              /\ orphans'[j] = orphans[j]
                              /\ start'[j] = start[j] /\ spent'[j] = spent[j],
         TableInv!(i)', WindowInv!(i)'
  PROVE  Inv'
<1>1. ASSUME NEW j \in IPs PROVE TableInv!(j)'
  <2>1. CASE j = i BY <2>1
  <2>2. CASE j # i BY <2>2 DEF Inv, TableInv
  <2> QED BY <2>1, <2>2
<1>2. ASSUME NEW j \in IPs PROVE WindowInv!(j)'
  <2>1. CASE j = i BY <2>1
  <2>2. CASE j # i BY <2>2 DEF Inv, WindowInv, Level
  <2> QED BY <2>1, <2>2
<1> QED BY <1>1, <1>2 DEF Inv, TableInv, WindowInv

LEMMA RefuseInv == ASSUME Inv, NEW i \in IPs, Refuse(i) PROVE Inv'
<1> DEFINE st == Refilled(Lookup(i))
<1>1. /\ ips' = [ips EXCEPT ![i] = st]
      /\ UNCHANGED <<now, held, orphans, start, spent>>
      /\ reason' \in [IPs -> {"none", "rate", "concurrency"}]
  BY DEF Refuse, Inv, TypeOK
<1>2. /\ st \in IpState /\ st.active = held[i] /\ st.last <= now /\ st.tokens <= Burst
      /\ RateOn => st.tokens = Level(i) /\ st.last = now
  BY AcquireFacts
<1> HIDE DEF st
<1>3. ips'[i] = st /\ st # NoState
  BY <1>1, <1>2, NoStateAssumption DEF Inv, TypeOK
<1>4. TypeOK'
  BY <1>1, <1>2 DEF Inv, TypeOK
<1>5. TableInv!(i)'
  BY <1>1, <1>2, <1>3 DEF Inv, TableInv
<1>6. RateOn => Level(i)' = Level(i)
  <2> SUFFICES ASSUME RateOn PROVE Level(i)' = Level(i) OBVIOUS
  <2>1. Level(i)' = Smaller(Burst, st.tokens + (now - st.last))
    BY <1>1, <1>3 DEF Level
  <2> QED BY <1>2, <2>1, LimiterAssumption DEF Smaller, IpState, Inv, TypeOK
<1>7. WindowInv!(i)'
  BY <1>1, <1>6 DEF Inv, WindowInv
<1> QED BY <1>1, <1>4, <1>5, <1>7, OneAddress DEF Inv, TypeOK
LEMMA AcceptInv == ASSUME Inv, NEW i \in IPs, Accept(i) PROVE Inv'
<1> DEFINE st == Refilled(Lookup(i))
           paid == Price
           new == [tokens |-> st.tokens - paid, last |-> st.last, active |-> st.active + 1]
<1>1. /\ st \in IpState /\ st.active = held[i] /\ st.last <= now /\ st.tokens <= Burst
      /\ RateOn => st.tokens = Level(i) /\ st.last = now
  BY AcquireFacts
<1>2. /\ UNCHANGED <<now, orphans, start>>
      /\ held' = [held EXCEPT ![i] = @ + 1]
      /\ reason' \in [IPs -> {"none", "rate", "concurrency"}]
      /\ ips' = [ips EXCEPT ![i] = Admitted(st)]
      /\ ~OverRate(st) /\ ~OverCap(st)
  BY DEF Accept, Inv, TypeOK
<1>a. spent' = [spent EXCEPT ![i] = @ + paid]
  BY DEF Accept, Inv, TypeOK
<1> HIDE DEF st
<1>b. st.tokens \in Nat /\ st.active \in Nat /\ st.last \in Nat
  BY <1>1 DEF IpState
<1>3. Admitted(st) = new
  BY DEF Admitted
<1>4. paid \in Nat /\ paid <= st.tokens
  BY <1>2, <1>b, LimiterAssumption DEF OverRate, Price
<1> HIDE DEF paid
<1>5. new \in IpState /\ new.tokens = st.tokens - paid /\ new.last = st.last
      /\ new.active = st.active + 1 /\ new # NoState
  BY <1>4, <1>b, NoStateAssumption DEF IpState
<1> HIDE DEF new
<1>6. ips'[i] = new
  BY <1>2, <1>3 DEF Inv, TypeOK
<1>7. TypeOK'
  BY <1>2, <1>a, <1>3, <1>4, <1>5 DEF Inv, TypeOK
<1>8. TableInv!(i)'
  <2>1. held'[i] = held[i] + 1 /\ orphans'[i] = 0 /\ held[i] \in Nat
    BY <1>2 DEF Inv, TypeOK, TableInv
  <2>2. MaxConcurrent > 0 => held'[i] <= MaxConcurrent
    BY <1>1, <1>2, <2>1, LimiterAssumption DEF OverCap
  <2>3. /\ ips'[i].active = held'[i] /\ ips'[i].last <= now' /\ ips'[i].tokens <= Burst
    BY <1>1, <1>2, <1>4, <1>5, <1>6, <1>b, <2>1, LimiterAssumption
  <2> QED BY <1>5, <1>6, <2>1, <2>2, <2>3
<1>9. WindowInv!(i)'
  <2>1. start'[i] <= now'
    BY <1>2 DEF Inv, WindowInv
  <2>2. ASSUME RateOn
        PROVE  spent'[i] + Level(i)' <= Burst + (now' - start'[i])
    <3>1. Level(i)' = Smaller(Burst, new.tokens + (now - new.last))
      BY <1>2, <1>5, <1>6, <2>2 DEF Level
    <3>2. Level(i)' = Level(i) - paid /\ Level(i) \in Nat
      BY <1>1, <1>4, <1>5, <1>b, <2>2, <3>1, LimiterAssumption DEF Smaller, Inv, TypeOK
    <3>3. spent'[i] = spent[i] + paid /\ spent[i] \in Nat /\ start[i] \in Nat
      BY <1>a DEF Inv, TypeOK
    <3>4. spent[i] + Level(i) <= Burst + (now - start[i])
      BY <2>2 DEF Inv, WindowInv
    <3> HIDE DEF Level
    <3> QED BY <1>2, <1>4, <3>2, <3>3, <3>4, LimiterAssumption DEF Inv, TypeOK
  <2> QED BY <2>1, <2>2
<1> QED BY <1>2, <1>a, <1>3, <1>7, <1>8, <1>9, OneAddress DEF Inv, TypeOK

LEMMA ReleaseInv == ASSUME Inv, NEW i \in IPs, Release(i) PROVE Inv'
<1>1. /\ held[i] > 0
      /\ ips' = [ips EXCEPT ![i] = [ips[i] EXCEPT !.active = @ - 1]]
      /\ held' = [held EXCEPT ![i] = @ - 1]
      /\ orphans' = [orphans EXCEPT ![i] = @]
      /\ UNCHANGED <<now, reason, start, spent>>
  <2>1. PICK own \in BOOLEAN :
          /\ IF own THEN held[i] > 0 ELSE orphans[i] > 0
          /\ ips' = IF own THEN [ips EXCEPT ![i] = [ips[i] EXCEPT !.active = @ - 1]] ELSE ips
          /\ held' = [held EXCEPT ![i] = IF own THEN @ - 1 ELSE @]
          /\ orphans' = [orphans EXCEPT ![i] = IF own THEN @ ELSE @ - 1]
          /\ UNCHANGED <<now, reason, start, spent>>
    BY DEF Release
  <2>2. orphans[i] = 0
    BY DEF Inv, TableInv
  <2>3. own
    BY <2>1, <2>2
  <2> QED BY <2>1, <2>3
<1>2. /\ ips[i] # NoState /\ ips[i] \in IpState /\ held[i] \in Nat
      /\ ips[i].active = held[i]
  BY <1>1 DEF Inv, TypeOK, TableInv
<1> DEFINE new == [tokens |-> ips[i].tokens, last |-> ips[i].last, active |-> held[i] - 1]
<1>a. [ips[i] EXCEPT !.active = @ - 1] = new /\ new \in IpState
  BY <1>1, <1>2 DEF IpState
<1>3. ips' = [ips EXCEPT ![i] = new] /\ new \in IpState
  BY <1>1, <1>a, Zenon
<1>4. ips'[i] = new /\ new # NoState
  BY <1>3, NoStateAssumption DEF Inv, TypeOK
<1>b. new.tokens = ips[i].tokens /\ new.last = ips[i].last /\ new.active = held[i] - 1
  OBVIOUS
<1> HIDE DEF new
<1>5. TypeOK'
  BY <1>1, <1>2, <1>3 DEF Inv, TypeOK
<1>6. TableInv!(i)'
  <2>1. held'[i] = held[i] - 1 /\ orphans'[i] = 0
    BY <1>1, <1>2 DEF Inv, TypeOK, TableInv
  <2>2. ips[i].last <= now /\ ips[i].tokens <= Burst
        /\ (MaxConcurrent > 0 => held[i] <= MaxConcurrent)
    BY <1>2 DEF Inv, TableInv
  <2>3. now' = now /\ held[i] \in Nat /\ held[i] > 0 /\ ips'[i] # NoState
    BY <1>1, <1>2, <1>4
  <2>4. /\ ips'[i].active = held'[i] /\ ips'[i].last <= now' /\ ips'[i].tokens <= Burst
    BY <1>4, <1>b, <2>1, <2>2, <2>3
  <2>5. MaxConcurrent > 0 => held'[i] <= MaxConcurrent
    BY <2>1, <2>2, <2>3, LimiterAssumption
  <2> QED BY <2>1, <2>3, <2>4, <2>5
<1>7. Level(i)' = Level(i)
  BY <1>1, <1>2, <1>4, <1>b DEF Level
<1>8. WindowInv!(i)'
  BY <1>1, <1>7 DEF Inv, WindowInv
<1> QED BY <1>1, <1>3, <1>5, <1>6, <1>8, OneAddress DEF Inv, TypeOK
LEMMA OpenWindowInv == ASSUME Inv, NEW i \in IPs, OpenWindow(i) PROVE Inv'
<1>1. /\ start' = [start EXCEPT ![i] = now] /\ spent' = [spent EXCEPT ![i] = 0]
      /\ UNCHANGED <<now, ips, held, orphans, reason>>
  BY DEF OpenWindow
<1>2. TypeOK'
  BY <1>1 DEF Inv, TypeOK
<1>3. TableInv!(i)'
  BY <1>1 DEF Inv, TableInv
<1>4. Level(i)' = Level(i)
  BY <1>1 DEF Level
<1>5. Level(i) <= Burst
  BY LevelType
<1>6. WindowInv!(i)'
  <2>1. start'[i] = now /\ spent'[i] = 0 /\ now' = now /\ now \in Nat
    BY <1>1 DEF Inv, TypeOK
  <2> QED BY <1>4, <1>5, <2>1, LimiterAssumption, LevelType
<1> QED BY <1>1, <1>2, <1>3, <1>6, OneAddress DEF Inv, TypeOK

\* A swept bucket was full and had no open connection.
LEMMA SweepInv == ASSUME Inv, Sweep PROVE Inv'
<1>1. ASSUME NEW i \in IPs
      PROVE  /\ Forgotten(i) => /\ ips'[i] = NoState /\ held'[i] = 0 /\ held[i] = 0
                               /\ (RateOn => Level(i) = Burst)
             /\ ~Forgotten(i) => ips'[i] = ips[i] /\ held'[i] = held[i]
             /\ orphans'[i] = 0
  <2>1. Forgotten(i) => held[i] = 0
    BY DEF Forgotten, Inv, TableInv
  <2>2. ASSUME Forgotten(i), RateOn PROVE Level(i) = Burst
    <3>1. /\ ips[i] # NoState /\ ips[i] \in IpState
          /\ ips[i].tokens + (now - ips[i].last) >= Burst
      BY <2>2 DEF Forgotten, Full, Inv, TypeOK
    <3> QED BY <2>2, <3>1, LimiterAssumption DEF Level, Smaller, IpState, Inv, TypeOK
  <2>3. orphans[i] = 0 /\ held[i] \in Nat
    BY DEF Inv, TypeOK, TableInv
  <2> QED BY <2>1, <2>2, <2>3 DEF Sweep
<1>2. TypeOK'
  <2>1. ips' \in [IPs -> IpState \cup {NoState}]
    BY DEF Sweep, Inv, TypeOK
  <2>2. held' \in [IPs -> Nat] /\ orphans' \in [IPs -> Nat]
    BY DEF Sweep, Inv, TypeOK
  <2> QED BY <2>1, <2>2 DEF Sweep, Inv, TypeOK
<1>3. TableInv'
  <2> SUFFICES ASSUME NEW i \in IPs PROVE TableInv!(i)' BY DEF TableInv
  <2>1. TableInv!(i) /\ now' = now
    BY DEF Sweep, Inv, TableInv
  <2> QED BY <1>1, <2>1, LimiterAssumption
<1>4. WindowInv'
  <2> SUFFICES ASSUME NEW i \in IPs PROVE WindowInv!(i)' BY DEF WindowInv
  <2>1. WindowInv!(i) /\ UNCHANGED <<now, start, spent>>
    BY DEF Sweep, Inv, WindowInv
  <2>2. RateOn => Level(i)' = Level(i)
    <3>1. CASE Forgotten(i)
      BY <1>1, <3>1 DEF Level
    <3>2. CASE ~Forgotten(i)
      BY <1>1, <2>1, <3>2 DEF Level
    <3> QED BY <3>1, <3>2
  <2> QED BY <2>1, <2>2
<1> QED BY <1>2, <1>3, <1>4 DEF Inv

LEMMA ClockInv == ASSUME Inv, Clock PROVE Inv'
<1>1. now' = now + 1 /\ UNCHANGED <<ips, held, orphans, reason, start, spent>> /\ now \in Nat
  BY DEF Clock, Inv, TypeOK
<1>2. TypeOK'
  BY <1>1 DEF Inv, TypeOK
<1>3. TableInv'
  <2> SUFFICES ASSUME NEW i \in IPs PROVE TableInv!(i)' BY DEF TableInv
  <2>1. TableInv!(i) /\ ips[i] \in IpState \cup {NoState}
    BY DEF Inv, TypeOK, TableInv
  <2> QED BY <1>1, <2>1 DEF IpState
<1>4. WindowInv'
  <2> SUFFICES ASSUME NEW i \in IPs PROVE WindowInv!(i)' BY DEF WindowInv
  <2>1. WindowInv!(i) /\ start[i] \in Nat /\ spent[i] \in Nat
    BY DEF Inv, TypeOK, WindowInv
  <2>2. RateOn => Level(i)' <= Level(i) + 1 /\ Level(i)' \in Nat
    BY <1>1, LevelStep, LevelType, LimiterAssumption DEF Smaller
  <2> QED BY <1>1, <2>1, <2>2, LevelType, LimiterAssumption
<1> QED BY <1>2, <1>3, <1>4 DEF Inv
LEMMA NextInv == Inv /\ [Next]_vars => Inv'
<1> SUFFICES ASSUME Inv, [Next]_vars PROVE Inv' OBVIOUS
<1>1. CASE UNCHANGED vars
  BY <1>1 DEF vars, Inv, TypeOK, TableInv, WindowInv, Level
<1> QED BY <1>1, RefuseInv, AcceptInv, ReleaseInv, OpenWindowInv, SweepInv, ClockInv DEF Next

\* Every variable of the limiter keeps its type; no bucket goes below zero.
THEOREM TypeCorrect == Spec => []TypeOK
<1>1. Inv => TypeOK BY DEF Inv
<1> QED BY <1>1, InitInv, NextInv, PTL DEF Spec

\* limits.go:67, 94: the cap holds for the connections that are really open.
THEOREM CapCorrect == Spec => []CapHolds
<1>1. Inv => CapHolds
  <2> SUFFICES ASSUME Inv, MaxConcurrent > 0, NEW i \in IPs
               PROVE  Open(i) <= MaxConcurrent
    BY DEF CapHolds
  <2> QED BY DEF Inv, TypeOK, TableInv, Open
<1> QED BY <1>1, InitInv, NextInv, PTL DEF Spec

\* limits.go:60-72: an address never gets more than burst plus rate times the
\* length of any window, whatever was swept meanwhile.
THEOREM WindowCorrect == Spec => []WindowBound
<1>1. Inv => WindowBound
  <2> SUFFICES ASSUME Inv, RateOn, NEW i \in IPs
               PROVE  spent[i] <= Burst + (now - start[i])
    BY DEF WindowBound
  <2>1. spent[i] + Level(i) <= Burst + (now - start[i])
    BY DEF Inv, WindowInv
  <2> QED BY <2>1, LevelType, LimiterAssumption DEF Inv, TypeOK
<1> QED BY <1>1, InitInv, NextInv, PTL DEF Spec

\* limits.go:67-69: a refusal for concurrency means that the cap is reached by
\* connections that are still open.
THEOREM RefusalsCorrect == Spec => RefusedOnlyAtCap
<1> DEFINE A == \A i \in IPs : Refuse(i) /\ reason'[i] = "concurrency" =>
                  MaxConcurrent > 0 /\ Open(i) >= MaxConcurrent
<1>1. Inv /\ [Next]_vars => [A]_vars
  <2> SUFFICES ASSUME Inv, NEW i \in IPs, Refuse(i), reason'[i] = "concurrency"
               PROVE  MaxConcurrent > 0 /\ Open(i) >= MaxConcurrent
    OBVIOUS
  <2> DEFINE st == Refilled(Lookup(i))
  <2>1. OverCap(st)
    BY DEF Refuse, Inv, TypeOK
  <2>2. st.active = held[i]
    BY AcquireFacts
  <2>3. Open(i) = held[i]
    BY DEF Open, Inv, TypeOK, TableInv
  <2> QED BY <2>1, <2>2, <2>3 DEF OverCap
<1> QED BY <1>1, InitInv, NextInv, PTL DEF Spec, RefusedOnlyAtCap

\* The initial state maps to full buckets.
LEMMA BucketInit == Init => Bucket!Init
<1> SUFFICES ASSUME Init PROVE Bucket!Init OBVIOUS
<1>1. ASSUME NEW i \in IPs PROVE Level(i) = Burst /\ Open(i) = 0
  BY <1>1 DEF Init, Level, Open
<1> QED BY <1>1 DEF Bucket!Init
\* Open connections are the ones the table counts.
LEMMA OpenFacts == ASSUME Inv, NEW i \in IPs PROVE Open(i) = held[i] /\ held[i] \in Nat
BY DEF Inv, TypeOK, TableInv, Open

\* A step that leaves every level and every count alone is a stutter.
LEMMA BucketStutter ==
  ASSUME \A i \in IPs : Level(i)' = Level(i) /\ Open(i)' = Open(i)
  PROVE  UNCHANGED <<[i \in IPs |-> Level(i)], [i \in IPs |-> Open(i)]>>
OBVIOUS

LEMMA RefuseStutters ==
  ASSUME Inv, NEW i \in IPs, Refuse(i)
  PROVE  \A j \in IPs : Level(j)' = Level(j) /\ Open(j)' = Open(j)
<1> DEFINE st == Refilled(Lookup(i))
<1>1. ips' = [ips EXCEPT ![i] = st] /\ UNCHANGED <<now, held, orphans>>
  BY DEF Refuse
<1>2. /\ st \in IpState /\ st.tokens <= Burst /\ (RateOn => st.tokens = Level(i) /\ st.last = now)
  BY AcquireFacts
<1> HIDE DEF st
<1>3. ips'[i] = st /\ st # NoState /\ now \in Nat
  BY <1>1, <1>2, NoStateAssumption DEF Inv, TypeOK
<1>4. Level(i)' = Level(i)
  <2>1. CASE RateOn
    <3>1. Level(i)' = Smaller(Burst, st.tokens + (now - st.last))
      BY <1>1, <1>3, <2>1 DEF Level
    <3> QED BY <1>2, <1>3, <2>1, <3>1, LimiterAssumption DEF Smaller, IpState
  <2>2. CASE ~RateOn
    BY <2>2 DEF Level
  <2> QED BY <2>1, <2>2
<1>5. ASSUME NEW j \in IPs PROVE Level(j)' = Level(j) /\ Open(j)' = Open(j)
  <2>1. CASE j = i
    BY <1>1, <1>4, <2>1 DEF Open
  <2>2. CASE j # i
    BY <1>1, <2>2 DEF Level, Open, Inv, TypeOK
  <2> QED BY <2>1, <2>2
<1> QED BY <1>5

LEMMA AcceptAdmits == ASSUME Inv, NEW i \in IPs, Accept(i) PROVE Bucket!Admit(i)
<1> DEFINE st == Refilled(Lookup(i))
           new == Admitted(st)
<1>1. /\ ips' = [ips EXCEPT ![i] = new] /\ held' = [held EXCEPT ![i] = @ + 1]
      /\ UNCHANGED <<now, orphans>> /\ ~OverRate(st) /\ ~OverCap(st)
  BY DEF Accept
<1>2. /\ st \in IpState /\ st.active = held[i] /\ st.tokens <= Burst
      /\ RateOn => st.tokens = Level(i) /\ st.last = now
  BY AcquireFacts
<1> HIDE DEF st
<1>3. /\ st.tokens \in Nat /\ st.last \in Nat /\ now \in Nat /\ st.active \in Nat
  BY <1>2 DEF IpState, Inv, TypeOK
<1>4. /\ new.tokens = st.tokens - Price /\ new.last = st.last
  BY DEF Admitted
<1>5. new # NoState
  BY <1>1, <1>3, LimiterAssumption, NoStateAssumption DEF Admitted, IpState, Price, OverRate
<1> HIDE DEF new
<1>6. ips'[i] = new
  BY <1>1 DEF Inv, TypeOK
<1>7. Level(i)' = IF RateOn THEN Level(i) - Cost ELSE Level(i)
  <2>1. CASE RateOn
    <3>1. Level(i)' = Smaller(Burst, new.tokens + (now - new.last))
      BY <1>1, <1>5, <1>6, <2>1 DEF Level
    <3>2. new.tokens = Level(i) - Cost /\ new.last = now /\ Level(i) <= Burst /\ Level(i) \in Nat
      BY <1>2, <1>4, <2>1, LevelType DEF Price
    <3>3. Level(i)' = Level(i) - Cost
      BY <1>3, <3>1, <3>2, LimiterAssumption DEF Smaller
    <3> QED BY <2>1, <3>3
  <2>2. CASE ~RateOn
    BY <2>2 DEF Level
  <2> QED BY <2>1, <2>2
<1>8. Open(i)' = Open(i) + 1
  BY <1>1 DEF Open, Inv, TypeOK
<1>9. ASSUME NEW j \in IPs, j # i PROVE Level(j)' = Level(j) /\ Open(j)' = Open(j)
  BY <1>1, <1>9 DEF Level, Open, Inv, TypeOK
<1>10. RateOn => Level(i) >= Cost
  BY <1>1, <1>2, <1>3, LevelType, LimiterAssumption DEF OverRate
<1>11. MaxConcurrent > 0 => Open(i) < MaxConcurrent
  BY <1>1, <1>2, OpenFacts, LimiterAssumption DEF OverCap
<1> QED BY <1>7, <1>8, <1>9, <1>10, <1>11 DEF Bucket!Admit, Bucket!MayAdmit
LEMMA ReleaseCloses == ASSUME Inv, NEW i \in IPs, Release(i) PROVE Bucket!Close(i)
<1>1. PICK own \in BOOLEAN :
        /\ IF own THEN held[i] > 0 ELSE orphans[i] > 0
        /\ ips' = IF own THEN [ips EXCEPT ![i] = [ips[i] EXCEPT !.active = @ - 1]] ELSE ips
        /\ held' = [held EXCEPT ![i] = IF own THEN @ - 1 ELSE @]
        /\ orphans' = [orphans EXCEPT ![i] = IF own THEN @ ELSE @ - 1]
        /\ UNCHANGED <<now, reason, start, spent>>
  BY DEF Release
<1>2. orphans[i] = 0 /\ held[i] \in Nat
  BY DEF Inv, TypeOK, TableInv
<1>3. own
  BY <1>1, <1>2
<1>4. held[i] > 0 /\ ips[i] # NoState /\ ips[i] \in IpState
  BY <1>1, <1>3 DEF Inv, TypeOK, TableInv
<1> DEFINE new == [ips[i] EXCEPT !.active = @ - 1]
<1>5. new.tokens = ips[i].tokens /\ new.last = ips[i].last /\ new \in IpState
  BY <1>4, <1>2 DEF IpState, Inv, TableInv
<1>6. ips' = [ips EXCEPT ![i] = new]
  BY <1>1, <1>3
<1> HIDE DEF new
<1>7. ips'[i] = new /\ new # NoState
  BY <1>5, <1>6, NoStateAssumption DEF Inv, TypeOK
<1>8. Level(i)' = Level(i)
  BY <1>1, <1>4, <1>5, <1>7 DEF Level
<1>9. Open(i)' = Open(i) - 1 /\ Open(i) > 0
  BY <1>1, <1>2, <1>3, <1>4 DEF Open, Inv, TypeOK
<1>10. ASSUME NEW j \in IPs, j # i PROVE Level(j)' = Level(j) /\ Open(j)' = Open(j)
  BY <1>1, <1>6, <1>10 DEF Level, Open, Inv, TypeOK
<1> QED BY <1>8, <1>9, <1>10 DEF Bucket!Close

LEMMA SweepStutters ==
  ASSUME Inv, Sweep
  PROVE  \A i \in IPs : Level(i)' = Level(i) /\ Open(i)' = Open(i)
<1> SUFFICES ASSUME NEW i \in IPs PROVE Level(i)' = Level(i) /\ Open(i)' = Open(i)
  OBVIOUS
<1>1. now' = now
  BY DEF Sweep
<1>2. CASE Forgotten(i)
  <2>1. ips'[i] = NoState /\ held'[i] = 0 /\ orphans'[i] = orphans[i] + held[i]
    BY <1>2 DEF Sweep
  <2>2. Level(i)' = Burst
    BY <2>1 DEF Level
  <2>3. Level(i) = Burst
    <3>1. ips[i] # NoState /\ ips[i] \in IpState /\ now \in Nat
      BY <1>2 DEF Forgotten, Inv, TypeOK
    <3>2. CASE RateOn
      <4>1. ips[i].tokens + (now - ips[i].last) >= Burst
        BY <1>2, <3>2 DEF Forgotten, Full
      <4>2. Level(i) = Smaller(Burst, ips[i].tokens + (now - ips[i].last))
        BY <3>1, <3>2 DEF Level
      <4> QED BY <3>1, <4>1, <4>2, LimiterAssumption DEF Smaller, IpState
    <3>3. CASE ~RateOn
      BY <3>3 DEF Level
    <3> QED BY <3>2, <3>3
  <2> QED BY <2>1, <2>2, <2>3 DEF Open, Inv, TypeOK
<1>3. CASE ~Forgotten(i)
  BY <1>1, <1>3 DEF Sweep, Level, Open
<1> QED BY <1>2, <1>3

LEMMA ClockRefills == ASSUME Inv, Clock PROVE Bucket!Refill
<1>1. now' = now + 1 /\ UNCHANGED <<ips, held, orphans>>
  BY DEF Clock
<1>2. ASSUME NEW i \in IPs
      PROVE  Level(i)' = Smaller(Burst, Level(i) + 1) /\ Open(i)' = Open(i)
  <2>1. Level(i)' = IF RateOn THEN Smaller(Burst, Level(i) + 1) ELSE Burst
    BY <1>1, LevelStep
  <2>2. ~RateOn => Level(i) = Burst
    BY DEF Level
  <2>3. Smaller(Burst, Burst + 1) = Burst
    BY LimiterAssumption DEF Smaller
  <2>4. Level(i)' = Smaller(Burst, Level(i) + 1)
    BY <2>1, <2>2, <2>3
  <2> QED BY <1>1, <2>4 DEF Open
<1>3. \A a, b : Bucket!Smaller(a, b) = Smaller(a, b)
  BY DEF Bucket!Smaller, Smaller
<1> QED BY <1>2, <1>3 DEF Bucket!Refill

\* Every step of the limiter is a step of the bucket or changes nothing of it.
LEMMA BucketStep ==
  Inv /\ [Next]_vars =>
    [Bucket!Next]_<<[i \in IPs |-> Level(i)], [i \in IPs |-> Open(i)]>>
<1> SUFFICES ASSUME Inv, [Next]_vars
             PROVE  [Bucket!Next]_<<[i \in IPs |-> Level(i)], [i \in IPs |-> Open(i)]>>
  OBVIOUS
<1>1. CASE UNCHANGED vars
  BY <1>1, BucketStutter DEF vars, Level, Open
<1>2. ASSUME NEW i \in IPs, OpenWindow(i)
      PROVE  \A j \in IPs : Level(j)' = Level(j) /\ Open(j)' = Open(j)
  BY <1>2 DEF OpenWindow, Level, Open
<1>3. CASE Next
  BY <1>2, <1>3, RefuseStutters, AcceptAdmits, ReleaseCloses, SweepStutters, ClockRefills,
     BucketStutter DEF Next, Bucket!Next
<1> QED BY <1>1, <1>3

\* The lazily filled, swept table of limits.go implements the token bucket
\* that remembers every address.
THEOREM LimiterImplementsBucket == Spec => ImplementsBucket
<1>1. Spec => []Inv
  BY InitInv, NextInv, PTL DEF Spec
<1>2. Spec => Bucket!Init /\ [][Bucket!Next]_<<[i \in IPs |-> Level(i)], [i \in IPs |-> Open(i)]>>
  BY <1>1, BucketInit, BucketStep, PTL DEF Spec
<1> QED BY <1>2, PTL DEF ImplementsBucket, Bucket!Spec
=============================================================================
