--------------------------- MODULE RegistryProofs ---------------------------
(***************************************************************************)
(* Safety of Registry, and of SidePorts on top of it, for every number of  *)
(* servers, owners, handlers and addresses, and of names, ports and        *)
(* connections.  The registry's invariant adds to TypeOK where the live    *)
(* state of a server comes from: what it shows was seen at its present     *)
(* address.  The side port manager's rests on lemmas about its tables as   *)
(* a value: release, drop, allocation, assignment and sweep keep them      *)
(* sound.                                                                  *)
(***************************************************************************)
EXTENDS SidePorts, TLAPS

\* The live state of one registered server.
LiveState(i) ==
  servers[i] # NoServer => servers[i].seen \in {NoAddress, servers[i].address}

Inv == TypeOK /\ \A i \in Ids : LiveState(i)

LEMMA InitInv == Init => Inv
<1> SUFFICES ASSUME Init PROVE Inv
  OBVIOUS
<1> USE RegistryAssumption
<1>1. \A i \in StaticIds : Configured(i) \in Server
  BY DEF Configured, Server
<1>2. TypeOK
  BY <1>1 DEF Init, TypeOK
<1>3. \A i \in Ids : LiveState(i)
  BY DEF Init, LiveState, Configured
<1> QED
  BY <1>2, <1>3 DEF Inv

LEMMA RegisterInv ==
  ASSUME Inv, NEW r \in Reqs, NEW o \in Owners, NEW i \in Ids, NEW a \in Addresses,
         NEW ports \in PortSets, NEW online \in BOOLEAN,
         Register(r, o, i, a, ports, online)
  PROVE  Inv'
<1> USE RegistryAssumption
<1> DEFINE q == [at |-> "upsert", owner |-> o, id |-> i, address |-> a, ports |-> ports,
                 online |-> online,
                 prev |-> IF Live(i) THEN servers[i].address ELSE NoAddress]
<1>1. (IF Live(i) THEN servers[i].address ELSE NoAddress) \in Addresses \cup {NoAddress}
  BY DEF Inv, TypeOK, Live, Server
<1>2. q \in Req
  BY <1>1 DEF Req
<1>3. reqs' = [reqs EXCEPT ![r] = q]
  BY DEF Register
<1> HIDE DEF q
<1>4. TypeOK'
  BY <1>2, <1>3 DEF Inv, TypeOK, Register
<1>5. \A j \in Ids : LiveState(j)'
  BY DEF Inv, LiveState, Register
<1> QED
  BY <1>4, <1>5 DEF Inv

LEMMA UpsertedFacts ==
  ASSUME Inv, NEW r \in Reqs, reqs[r] # NoReq
  PROVE  LET s == Upserted(reqs[r]) IN
         /\ s \in Server
         /\ s.owner = reqs[r].owner
         /\ s.seen \in {NoAddress, s.address}
<1> USE RegistryAssumption
<1> DEFINE q == reqs[r]
           old == servers[q.id]
           same == old # NoServer /\ old.address = q.address
           seen == IF same THEN old.seen ELSE NoAddress
           online == IF same THEN old.online ELSE q.online
<1>1. q \in Req
  BY DEF Inv, TypeOK
<1>2. /\ q.owner \in Owners /\ q.id \in Ids /\ q.address \in Addresses
      /\ q.ports \in PortSets /\ q.online \in BOOLEAN
  BY <1>1 DEF Req
<1>3. old # NoServer => old \in Server
  BY <1>2 DEF Inv, TypeOK
<1>4. seen \in {NoAddress, q.address}
  BY <1>2 DEF Inv, LiveState
<1>5. online \in BOOLEAN
  BY <1>2, <1>3 DEF Server
<1> HIDE DEF seen, online
<1>7. Upserted(q) = [owner |-> q.owner, address |-> q.address, ports |-> q.ports,
                     static |-> FALSE, lease |-> TTL, online |-> online, seen |-> seen]
  BY DEF Upserted, seen, online
<1>8. Upserted(q) \in Server
  BY <1>2, <1>4, <1>5, <1>7 DEF Server
<1>9. /\ Upserted(q).owner = q.owner /\ Upserted(q).address = q.address
      /\ Upserted(q).online = online /\ Upserted(q).seen = seen
  BY <1>7
<1> QED
  BY <1>4, <1>8, <1>9

LEMMA UpsertInv == ASSUME Inv, NEW r \in Reqs, Upsert(r), OnRegister(r) PROVE Inv'
<1> USE RegistryAssumption
<1> DEFINE s == Upserted(reqs[r])
<1>1. /\ s \in Server
      /\ s.seen \in {NoAddress, s.address}
  BY UpsertedFacts DEF Upsert
<1>2. reqs[r] \in Req /\ reqs[r].id \in Ids
  BY DEF Inv, TypeOK, Upsert, Req
<1> HIDE DEF s
<1>3. servers' = [servers EXCEPT ![reqs[r].id] = s]
  BY DEF Upsert, s
<1>4. servers' \in [Ids -> Server \cup {NoServer}]
  BY <1>1, <1>2, <1>3 DEF Inv, TypeOK
<1>5. [reqs[r] EXCEPT !.at = "saved", !.prev = NoAddress] \in Req
  BY <1>2 DEF Req
<1>6. reqs' = [reqs EXCEPT ![r] = [reqs[r] EXCEPT !.at = "saved", !.prev = NoAddress]]
  BY DEF Upsert
<1>7. [id |-> reqs[r].id, address |-> reqs[r].address, result |-> "pending"] \in Check
  BY <1>2 DEF Req, Check
<1>8. TypeOK'
  BY <1>4, <1>5, <1>6, <1>7 DEF Inv, TypeOK, Upsert, OnRegister, Checks
<1>9. \A i \in Ids : LiveState(i)'
  BY <1>1, <1>2, <1>3 DEF Inv, TypeOK, LiveState
<1> QED
  BY <1>8, <1>9 DEF Inv

LEMMA AnswerInv == ASSUME Inv, NEW r \in Reqs, UpsertRefused(r) \/ Answer(r) PROVE Inv'
<1>1. TypeOK'
  BY DEF Inv, TypeOK, UpsertRefused, Answer
<1>2. \A i \in Ids : LiveState(i)'
  BY DEF Inv, LiveState, UpsertRefused, Answer
<1> QED
  BY <1>1, <1>2 DEF Inv

LEMMA UnregisterInv ==
  ASSUME Inv, NEW r \in Reqs, NEW o \in Owners, NEW i \in Ids, Unregister(r, o, i)
  PROVE  Inv'
<1> USE RegistryAssumption
<1> DEFINE q == [at |-> "removed", owner |-> o, id |-> i, address |-> servers[i].address,
                 ports |-> {}, online |-> FALSE, prev |-> NoAddress]
<1>1. servers[i].address \in Addresses
  BY DEF Inv, TypeOK, Unregister, Server
<1>2. q \in Req
  BY <1>1 DEF Req
<1>3. reqs' = [reqs EXCEPT ![r] = q]
  BY DEF Unregister
<1> HIDE DEF q
<1>4. TypeOK'
  <2>1. servers' = [servers EXCEPT ![i] = NoServer] /\ UNCHANGED <<checks, up>>
    BY DEF Unregister
  <2> QED
    BY <1>2, <1>3, <2>1 DEF Inv, TypeOK
<1>5. \A j \in Ids : LiveState(j)'
  BY DEF Inv, TypeOK, LiveState, Unregister
<1> QED
  BY <1>4, <1>5 DEF Inv

LEMMA RoundInv == ASSUME Inv, Round PROVE Inv'
<1>1. \A i \in Ids : servers[i] # NoServer => servers[i].address \in Addresses
  BY DEF Inv, TypeOK, Server
<1>2. \A i \in Ids : Live(i) =>
        [id |-> i, address |-> servers[i].address, result |-> "pending"] \in Check
  BY <1>1 DEF Live, Check
<1>3. TypeOK'
  BY <1>2 DEF Inv, TypeOK, Round, Prune, Checks
<1>4. \A i \in Ids : LiveState(i)'
  BY DEF Inv, LiveState, Round, Prune
<1> QED
  BY <1>3, <1>4 DEF Inv

LEMMA PingInv == ASSUME Inv, NEW c \in Checks, Ping(c) PROVE Inv'
<1>1. TypeOK'
  BY DEF Inv, TypeOK, Ping, Check
<1>2. \A i \in Ids : LiveState(i)'
  BY DEF Inv, LiveState, Ping
<1> QED
  BY <1>1, <1>2 DEF Inv

LEMMA SetHealthInv == ASSUME Inv, NEW c \in Checks, SetHealth(c) PROVE Inv'
<1> USE RegistryAssumption
<1> DEFINE k == checks[c]
           i == k.id
           s == Measured(servers[i], k)
<1>1. k \in Check /\ i \in Ids /\ k.address \in Addresses
  BY DEF Inv, TypeOK, SetHealth, Check
<1>2. CASE StillThere(k)
  <2>1. servers[i] \in Server /\ servers[i].address = k.address
    BY <1>1, <1>2 DEF Inv, TypeOK, StillThere
  <2>2. servers[i].seen \in {NoAddress, servers[i].address}
    BY <1>1, <1>2 DEF Inv, LiveState, StillThere
  <2>3. s = [servers[i] EXCEPT !.online = (k.result = "up"),
                               !.seen = IF k.result = "up" THEN k.address ELSE servers[i].seen]
    BY DEF Measured
  <2>4. /\ s \in Server
        /\ s.address = k.address
        /\ s.online = (k.result = "up")
        /\ s.seen = IF k.result = "up" THEN k.address ELSE servers[i].seen
    BY <1>1, <2>1, <2>2, <2>3 DEF Server
  <2> HIDE DEF s
  <2>5. servers' = [servers EXCEPT ![i] = s]
    BY <1>2 DEF SetHealth, s
  <2>6. TypeOK'
    BY <1>1, <2>4, <2>5 DEF Inv, TypeOK, SetHealth
  <2>7. \A j \in Ids : LiveState(j)'
    BY <1>1, <2>1, <2>2, <2>4, <2>5 DEF Inv, TypeOK, LiveState
  <2> QED
    BY <2>6, <2>7 DEF Inv
<1>3. CASE ~StillThere(k)
  <2>1. TypeOK'
    BY <1>3 DEF Inv, TypeOK, SetHealth
  <2>2. \A j \in Ids : LiveState(j)'
    BY <1>3 DEF Inv, LiveState, SetHealth
  <2> QED
    BY <2>1, <2>2 DEF Inv
<1> QED
  BY <1>2, <1>3

LEMMA ClockInv == ASSUME Inv, Clock PROVE Inv'
<1> USE RegistryAssumption
<1> DEFINE s(i) == [servers[i] EXCEPT !.lease = servers[i].lease - 1]
<1>1. ASSUME NEW i \in Ids, Live(i), ~servers[i].static
      PROVE  /\ s(i) \in Server
             /\ s(i).seen = servers[i].seen /\ s(i).address = servers[i].address
             /\ s(i).online = servers[i].online
  BY <1>1 DEF Inv, TypeOK, Live, Expired, Server
<1>2. servers' = [i \in Ids |->
                    IF Live(i) /\ ~servers[i].static THEN s(i) ELSE servers[i]]
  BY DEF Clock
<1> HIDE DEF s
<1>3. TypeOK'
  BY <1>1, <1>2 DEF Inv, TypeOK, Clock
<1>4. ASSUME NEW i \in Ids PROVE LiveState(i)'
  <2>1. CASE Live(i) /\ ~servers[i].static
    BY <1>1, <1>2, <2>1 DEF Inv, TypeOK, LiveState, Live
  <2>2. CASE ~(Live(i) /\ ~servers[i].static)
    BY <1>2, <2>2 DEF Inv, LiveState
  <2> QED
    BY <2>1, <2>2
<1> QED
  BY <1>3, <1>4 DEF Inv

LEMMA ToggleInv == ASSUME Inv, NEW a \in Addresses, Toggle(a) PROVE Inv'
<1>1. TypeOK'
  BY DEF Inv, TypeOK, Toggle
<1>2. \A i \in Ids : LiveState(i)'
  BY DEF Inv, LiveState, Toggle
<1> QED
  BY <1>1, <1>2 DEF Inv

LEMMA NextInv == Inv /\ [Next]_regvars => Inv'
<1> SUFFICES ASSUME Inv, [Next]_regvars PROVE Inv'
  OBVIOUS
<1>1. ASSUME NEW r \in Reqs, Handler(r) PROVE Inv'
  BY <1>1, RegisterInv, UnregisterInv, UpsertInv, AnswerInv DEF Handler
<1>2. CASE UNCHANGED regvars
  BY <1>2 DEF Inv, TypeOK, LiveState, regvars
<1> QED
  BY <1>1, <1>2, RoundInv, PingInv, SetHealthInv, ClockInv, ToggleInv DEF Next

\* Registrations, handlers and checks keep their types; a lease never falls
\* more than one tick below zero.
THEOREM TypeCorrect == Spec => []TypeOK
<1>1. Inv => TypeOK
  BY DEF Inv
<1> QED
  BY <1>1, InitInv, NextInv, PTL DEF Spec

\* SetHealth's address comparison and Upsert's reset (registry.go:218-222,
\* 299-301) keep what is shown of a server to what was seen at its address.
THEOREM SeenCorrect == Spec => []SeenAtItsAddress
<1>1. Inv => SeenAtItsAddress
  BY DEF Inv, LiveState, SeenAtItsAddress
<1> QED
  BY <1>1, InitInv, NextInv, PTL DEF Spec

LEMMA LeaseStep ==
  ASSUME Inv, [Next]_regvars, NEW i \in Ids, Live(i)
  PROVE  \/ servers'[i] # NoServer /\ servers'[i].owner = servers[i].owner
         \/ \E r \in Reqs : Unregister(r, servers[i].owner, i)
<1> USE RegistryAssumption
<1> DEFINE Kept == servers'[i] # NoServer /\ servers'[i].owner = servers[i].owner
           Left == \E r \in Reqs : Unregister(r, servers[i].owner, i)
<1>0. servers[i] # NoServer /\ servers[i] \in Server /\ DOMAIN servers = Ids
  BY DEF Live, Inv, TypeOK
<1>1. CASE UNCHANGED servers
  BY <1>0, <1>1
<1>2. ASSUME NEW r \in Reqs, NEW o \in Owners, NEW j \in Ids, Unregister(r, o, j)
      PROVE  Kept \/ Left
  <2>1. CASE j = i
    BY <1>2, <2>1 DEF Unregister, OwnedByAnother
  <2>2. CASE j # i
    BY <1>0, <1>2, <2>2 DEF Unregister
  <2> QED
    BY <2>1, <2>2
<1>3. ASSUME NEW r \in Reqs, Upsert(r) PROVE Kept
  <2>1. reqs[r] # NoReq /\ reqs[r].id \in Ids
    BY <1>3 DEF Upsert, Inv, TypeOK, Req
  <2>2. Upserted(reqs[r]) \in Server /\ Upserted(reqs[r]).owner = reqs[r].owner
    BY <2>1, UpsertedFacts
  <2>3. servers' = [servers EXCEPT ![reqs[r].id] = Upserted(reqs[r])]
    BY <1>3 DEF Upsert
  <2>4. CASE reqs[r].id = i
    <3>1. servers[i].owner = reqs[r].owner
      BY <1>0, <1>3, <2>4 DEF Upsert, Conflict, OwnedByAnother, Live
    <3> QED
      BY <1>0, <2>2, <2>3, <2>4, <3>1
  <2>5. CASE reqs[r].id # i
    BY <1>0, <2>3, <2>5
  <2> QED
    BY <2>4, <2>5
<1>4. CASE Round
  BY <1>0, <1>4 DEF Round, Prune
<1>5. ASSUME NEW c \in Checks, SetHealth(c) PROVE Kept
  <2> DEFINE k == checks[c]
             s == [servers[k.id] EXCEPT !.online = (k.result = "up"),
                     !.seen = IF k.result = "up" THEN k.address ELSE servers[k.id].seen]
  <2>1. CASE StillThere(k) /\ k.id = i
    <3>1. servers' = [servers EXCEPT ![i] = s]
      BY <1>5, <2>1 DEF SetHealth, Measured
    <3>2. s \in [owner : Owners \cup {Static}, address : Addresses, ports : PortSets,
                 static : BOOLEAN, lease : -1..TTL, online : BOOLEAN,
                 seen : Addresses \cup {NoAddress}]
      BY <1>0, <1>5, <2>1 DEF SetHealth, Inv, TypeOK, Check, Server
    <3>3. s \in Server /\ s.owner = servers[i].owner
      BY <1>0, <2>1, <3>2 DEF Server
    <3> QED
      BY <1>0, <3>1, <3>3
  <2>2. CASE ~(StillThere(k) /\ k.id = i)
    BY <1>0, <1>5, <2>2 DEF SetHealth
  <2> QED
    BY <2>1, <2>2
<1>6. CASE Clock
  <2> DEFINE s == [servers[i] EXCEPT !.lease = servers[i].lease - 1]
  <2>1. s.owner = servers[i].owner /\ (~servers[i].static => s \in Server)
    BY <1>0 DEF Live, Expired, Server
  <2>2. servers'[i] = IF ~servers[i].static THEN s ELSE servers[i]
    BY <1>6 DEF Clock
  <2> QED
    BY <1>0, <2>1, <2>2
<1>7. ASSUME NEW r \in Reqs, Handler(r) PROVE Kept \/ Left
  BY <1>0, <1>1, <1>2, <1>3, <1>7 DEF Handler, Register, UpsertRefused, Answer
<1> QED
  BY <1>1, <1>4, <1>5, <1>6, <1>7 DEF Next, Ping, Toggle, regvars

\* A running lease, or a static registration, protects its owner
\* (registry.go:209, 234) against every interleaving of handlers and rounds.
THEOREM LeaseCorrect == Spec => LeaseProtectsOwner
<1>1. Inv /\ [Next]_regvars =>
        [\A i \in Ids : Live(i) =>
           \/ servers'[i] # NoServer /\ servers'[i].owner = servers[i].owner
           \/ \E r \in Reqs : Unregister(r, servers[i].owner, i)]_regvars
  BY LeaseStep
<1> QED
  BY <1>1, InitInv, NextInv, PTL DEF Spec, LeaseProtectsOwner

-----------------------------------------------------------------------------
(* The tables of the side port manager, as a value.                         *)

TablesSet ==
  [byKey : [Keys -> Binding \cup {NoBinding}],
   byPort : [Ports -> Keys \cup {NoKey}],
   socket : [Ports -> Keys \cup {NoKey}],
   broken : [Ports -> 0..BrokenTime]]

Agree(t) ==
  /\ \A k \in Keys : t.byKey[k] # NoBinding => t.byPort[t.byKey[k].public] = k
  /\ \A p \in Ports : t.byPort[p] # NoKey =>
       t.byKey[t.byPort[p]] # NoBinding /\ t.byKey[t.byPort[p]].public = p

Listening(t) ==
  \A p \in Ports : t.socket[p] =
    IF t.byPort[p] # NoKey /\ t.byKey[t.byPort[p]].active THEN t.byPort[p] ELSE NoKey

Sound(t) == t \in TablesSet /\ Agree(t) /\ Listening(t)

LEMMA BindingFields ==
  ASSUME NEW b \in Binding
  PROVE  /\ b # NoBinding
         /\ b.owner \in Owners /\ b.public \in Ports
         /\ b.active \in BOOLEAN /\ b.held \in -1..Grace
BY SidePortAssumption DEF Binding

LEMMA DroppedSound ==
  ASSUME NEW t, Sound(t), NEW k \in Keys, t.byKey[k] # NoBinding
  PROVE  /\ Sound(Dropped(t, k))
         /\ Dropped(t, k).byKey = [t.byKey EXCEPT ![k] = NoBinding]
<1> DEFINE p == t.byKey[k].public
           key == [t.byKey EXCEPT ![k] = NoBinding]
           port == [t.byPort EXCEPT ![p] = NoKey]
           sock == [t.socket EXCEPT ![p] = NoKey]
           u == [byKey |-> key, byPort |-> port, socket |-> sock, broken |-> t.broken]
<1>1. /\ t.byKey \in [Keys -> Binding \cup {NoBinding}]
      /\ t.byPort \in [Ports -> Keys \cup {NoKey}]
      /\ t.socket \in [Ports -> Keys \cup {NoKey}]
      /\ t.broken \in [Ports -> 0..BrokenTime]
  BY DEF Sound, TablesSet
<1>2. p \in Ports /\ t.byPort[p] = k /\ k # NoKey
  BY <1>1, BindingFields, SidePortAssumption DEF Sound, Agree
<1>3. Dropped(t, k) = u
  <2>1. t = [byKey |-> t.byKey, byPort |-> t.byPort, socket |-> t.socket, broken |-> t.broken]
    BY DEF Sound, TablesSet
  <2>2. (IF t.byKey[k].active THEN NoKey ELSE t.socket[p]) = NoKey
    BY <1>2 DEF Sound, Listening
  <2>3. Dropped(t, k) = [t EXCEPT !.byKey[k] = NoBinding, !.byPort[p] = NoKey, !.socket[p] = NoKey]
    BY <1>2, <2>2 DEF Dropped
  <2> QED
    BY <2>1, <2>3
<1>4. u \in TablesSet
  BY <1>1, <1>2 DEF TablesSet
<1>5. Agree(u)
  BY <1>1, <1>2, BindingFields DEF Sound, Agree
<1>6. Listening(u)
  BY <1>1, <1>2 DEF Sound, Agree, Listening
<1>7. u.byKey = key
  OBVIOUS
<1> QED
  BY <1>3, <1>4, <1>5, <1>6, <1>7 DEF Sound

\* The three tables of one binding are set together.
SetAt(t, k, b, p) == [t EXCEPT !.byKey[k] = b, !.byPort[p] = k, !.socket[p] = k]

LEMMA SetAtFields ==
  ASSUME NEW t \in TablesSet, NEW k \in Keys, NEW b \in Binding, NEW p \in Ports
  PROVE  /\ SetAt(t, k, b, p) \in TablesSet
         /\ SetAt(t, k, b, p).byKey = [t.byKey EXCEPT ![k] = b]
         /\ SetAt(t, k, b, p).byPort = [t.byPort EXCEPT ![p] = k]
         /\ SetAt(t, k, b, p).socket = [t.socket EXCEPT ![p] = k]
BY DEF SetAt, TablesSet

\* A port the pool has left is bound to a key that has none.
LEMMA BindSound ==
  ASSUME NEW t, Sound(t), NEW k \in Keys, t.byKey[k] = NoBinding,
         NEW p \in Ports, t.byPort[p] = NoKey,
         NEW b \in Binding, b.public = p, b.active = TRUE
  PROVE  Sound(SetAt(t, k, b, p))
<1> DEFINE key == [t.byKey EXCEPT ![k] = b]
           port == [t.byPort EXCEPT ![p] = k]
           sock == [t.socket EXCEPT ![p] = k]
           u == SetAt(t, k, b, p)
<1>0. t \in TablesSet
  BY DEF Sound
<1>1. /\ t.byKey \in [Keys -> Binding \cup {NoBinding}]
      /\ t.byPort \in [Ports -> Keys \cup {NoKey}]
      /\ t.socket \in [Ports -> Keys \cup {NoKey}]
  BY <1>0 DEF TablesSet
<1>2. k # NoKey /\ b # NoBinding
  BY BindingFields, SidePortAssumption
<1>3. u \in TablesSet /\ u.byKey = key /\ u.byPort = port /\ u.socket = sock
  BY ONLY <1>0, SetAtFields, k \in Keys, b \in Binding, p \in Ports
<1> HIDE DEF u
<1>4. ASSUME NEW j \in Keys, key[j] # NoBinding PROVE port[key[j].public] = j
  <2>1. CASE j = k
    BY <1>1, <1>2, <2>1
  <2>2. CASE j # k
    <3>1. key[j] = t.byKey[j] /\ t.byKey[j].public \in Ports
      BY <1>1, <1>4, <2>2, BindingFields
    <3>2. t.byPort[t.byKey[j].public] = j /\ j # NoKey
      BY <1>4, <3>1, SidePortAssumption DEF Sound, Agree
    <3> QED
      BY <1>1, <3>1, <3>2
  <2> QED
    BY <2>1, <2>2
<1>5. ASSUME NEW q \in Ports, port[q] # NoKey
      PROVE  key[port[q]] # NoBinding /\ key[port[q]].public = q
  BY <1>1, <1>2, <1>5 DEF Sound, Agree
<1>6. Agree(u)
  BY <1>3, <1>4, <1>5 DEF Agree
<1>7. Listening(u)
  BY <1>1, <1>2, <1>3 DEF Sound, Agree, Listening
<1> QED
  BY <1>3, <1>6, <1>7 DEF Sound, u

\* The table after assign's search marked the ports it tried in vain.
LEMMA AvoidedSound ==
  ASSUME NEW t, Sound(t), NEW failed
  PROVE  LET u == [t EXCEPT !.broken =
                     [p \in Ports |-> IF p \in failed THEN BrokenTime ELSE t.broken[p]]] IN
         Sound(u) /\ u.byKey = t.byKey /\ u.byPort = t.byPort
<1> DEFINE br == [p \in Ports |-> IF p \in failed THEN BrokenTime ELSE t.broken[p]]
           u == [t EXCEPT !.broken = br]
<1>1. t \in TablesSet /\ br \in [Ports -> 0..BrokenTime]
  BY SidePortAssumption DEF Sound, TablesSet
<1> HIDE DEF br
<1>2. u \in TablesSet /\ u.byKey = t.byKey /\ u.byPort = t.byPort /\ u.socket = t.socket
  BY <1>1 DEF TablesSet
<1> HIDE DEF u
<1>3. Sound(u)
  BY <1>2 DEF Sound, Agree, Listening
<1> QED
  BY <1>2, <1>3 DEF u, br

LEMMA AllocatedSound ==
  ASSUME NEW t, Sound(t), NEW k \in Keys, t.byKey[k] = NoBinding,
         NEW o \in Owners, NEW pref, NEW bad
  PROVE  LET u == Allocated(t, k, o, pref, bad) IN
         /\ Sound(u)
         /\ \A j \in Keys \ {k} : u.byKey[j] = t.byKey[j]
<1> DEFINE good == Tryable(t) \ InUse(t, bad)
           first == {p \in good : \A q \in good : ~Earlier(q, p, pref)}
           failed == {p \in Tryable(t) \ good : \A q \in first : Earlier(p, q, pref)}
           avoided == [t EXCEPT !.broken =
                        [p \in Ports |-> IF p \in failed THEN BrokenTime ELSE t.broken[p]]]
           p == CHOOSE q \in first : TRUE
           b == [owner |-> o, public |-> p, active |-> TRUE, held |-> 0]
           u == SetAt(avoided, k, b, p)
<1>1. Allocated(t, k, o, pref, bad) = IF first = {} THEN avoided ELSE u
  BY DEF Allocated, SetAt
<1>2. first # {} => p \in Ports /\ t.byPort[p] = NoKey
  BY DEF Tryable
<1> HIDE DEF first, failed, p
<1>3. Sound(avoided) /\ avoided.byKey = t.byKey /\ avoided.byPort = t.byPort
  BY AvoidedSound
<1> HIDE DEF avoided
<1>4. CASE first # {}
  <2>0. 0 \in -1..Grace /\ p \in Ports
    BY <1>2, <1>4, SidePortAssumption
  <2>1. b \in Binding /\ b.public = p /\ b.active = TRUE
    BY <2>0 DEF Binding
  <2>2. avoided.byKey[k] = NoBinding /\ avoided.byPort[p] = NoKey /\ p \in Ports
    BY <1>2, <1>3, <1>4
  <2> HIDE DEF b
  <2>3. Sound(u)
    BY <1>3, <2>1, <2>2, BindSound
  <2>4. u.byKey = [t.byKey EXCEPT ![k] = b]
    <3>1. avoided \in TablesSet
      BY <1>3 DEF Sound
    <3>2. u.byKey = [avoided.byKey EXCEPT ![k] = b]
      BY <2>1, <2>2, <3>1 DEF SetAt, TablesSet
    <3> QED
      BY <1>3, <3>2
  <2> HIDE DEF u
  <2>5. \A j \in Keys \ {k} : u.byKey[j] = t.byKey[j]
    BY <2>4 DEF Sound, TablesSet
  <2> QED
    BY <1>1, <1>4, <2>3, <2>5
<1>5. CASE first = {}
  BY <1>1, <1>3, <1>5
<1> QED
  BY <1>4, <1>5

\* assign keeps, reactivates, or drops and allocates; other keys are left alone.
LEMMA AssignedSound ==
  ASSUME Sound(Tables), NEW k \in Keys, NEW o \in Owners, NEW pref, NEW bad
  PROVE  LET u == Assigned(k, o, pref, bad) IN
         /\ Sound(u)
         /\ \A j \in Keys \ {k} : u.byKey[j] = byKey[j]
<1> DEFINE b == byKey[k]
           keep == b # NoBinding /\ b.owner = o /\ b.active
           again == b # NoBinding /\ b.owner = o /\ b.public \notin InUse(Tables, bad)
           woken == [b EXCEPT !.active = TRUE, !.held = 0]
           again_t == [Tables EXCEPT !.byKey[k].active = TRUE, !.byKey[k].held = 0,
                                     !.socket[b.public] = k]
           base == IF b = NoBinding THEN Tables ELSE Dropped(Tables, k)
<1>0. /\ byKey \in [Keys -> Binding \cup {NoBinding}]
      /\ byPort \in [Ports -> Keys \cup {NoKey}]
      /\ socket \in [Ports -> Keys \cup {NoKey}]
      /\ broken \in [Ports -> 0..BrokenTime]
      /\ Tables.byKey = byKey /\ Tables.byPort = byPort /\ Tables.socket = socket
      /\ Tables \in TablesSet
  BY DEF Sound, TablesSet, Tables
<1>1. CASE keep
  BY <1>0, <1>1 DEF Assigned
<1>2. CASE ~keep /\ again
  <2>1. Assigned(k, o, pref, bad) = again_t
    BY <1>2 DEF Assigned
  <2>2. b \in Binding /\ b.public \in Ports
    BY <1>0, <1>2, BindingFields
  <2>3. woken \in Binding /\ woken.public = b.public /\ woken.active = TRUE
    <3>1. 0 \in -1..Grace
      BY SidePortAssumption
    <3> QED
      BY <2>2, <3>1 DEF Binding
  <2>4. /\ again_t \in TablesSet
        /\ again_t.byKey = [byKey EXCEPT ![k] = woken]
        /\ again_t.byPort = byPort
        /\ again_t.socket = [socket EXCEPT ![b.public] = k]
    <3> DEFINE key == [byKey EXCEPT ![k] = woken]
               sock == [socket EXCEPT ![b.public] = k]
    <3>1. key \in [Keys -> Binding \cup {NoBinding}] /\ sock \in [Ports -> Keys \cup {NoKey}]
      BY <1>0, <2>2, <2>3
    <3>2. again_t = [Tables EXCEPT !.byKey = key, !.socket = sock]
      BY <1>0 DEF TablesSet
    <3> HIDE DEF key, sock, again_t, woken
    <3>3. /\ again_t \in TablesSet
          /\ again_t.byKey = key /\ again_t.byPort = byPort /\ again_t.socket = sock
      BY <1>0, <3>1, <3>2 DEF TablesSet
    <3> QED
      BY <3>3 DEF key, sock
  <2> HIDE DEF again_t, woken
  <2>5. Agree(again_t)
    BY <1>0, <2>2, <2>3, <2>4, BindingFields DEF Sound, Agree
  <2>6. Listening(again_t)
    BY <1>0, <1>2, <2>2, <2>3, <2>4 DEF Sound, Agree, Listening
  <2> QED
    BY <1>0, <2>1, <2>4, <2>5, <2>6 DEF Sound
<1>3. CASE ~keep /\ ~again
  <2>1. Assigned(k, o, pref, bad) = Allocated(base, k, o, pref, bad)
    BY <1>3 DEF Assigned
  <2>2. /\ Sound(base) /\ base.byKey[k] = NoBinding
        /\ \A j \in Keys \ {k} : base.byKey[j] = byKey[j]
    <3>1. CASE b = NoBinding
      BY <1>0, <3>1
    <3>2. CASE b # NoBinding
      <4>1. /\ Sound(Dropped(Tables, k))
            /\ Dropped(Tables, k).byKey = [Tables.byKey EXCEPT ![k] = NoBinding]
        BY <1>0, <3>2, DroppedSound
      <4> QED
        BY <1>0, <3>2, <4>1
    <3> QED
      BY <3>1, <3>2
  <2> HIDE DEF base
  <2> QED
    BY <2>1, <2>2, AllocatedSound
<1> QED
  BY <1>1, <1>2, <1>3

\* The tables are sound as long as the fields they are made of are.
PortTables ==
  /\ byKey \in [Keys -> Binding \cup {NoBinding}]
  /\ byPort \in [Ports -> Keys \cup {NoKey}]
  /\ socket \in [Ports -> Keys \cup {NoKey}]
  /\ broken \in [Ports -> 0..BrokenTime]
  /\ MapsAgree /\ ListenersMatch

LEMMA TablesSound == PortTables <=> Sound(Tables)
BY DEF PortTables, Sound, TablesSet, Tables, Agree, Listening, MapsAgree, ListenersMatch

LEMMA SetTablesSound == ASSUME NEW t, Sound(t), SetTables(t) PROVE PortTables'
<1>1. /\ byKey' \in [Keys -> Binding \cup {NoBinding}]
      /\ byPort' \in [Ports -> Keys \cup {NoKey}]
      /\ socket' \in [Ports -> Keys \cup {NoKey}]
      /\ broken' \in [Ports -> 0..BrokenTime]
  BY DEF Sound, TablesSet, SetTables
<1>2. MapsAgree'
  BY DEF Sound, Agree, SetTables, MapsAgree
<1>3. ListenersMatch'
  BY DEF Sound, Listening, SetTables, ListenersMatch
<1> QED
  BY <1>1, <1>2, <1>3 DEF PortTables

\* A binding after release.
Held(b) == [b EXCEPT !.active = FALSE, !.held = Grace]

LEMMA HeldFields ==
  ASSUME NEW b \in Binding
  PROVE  /\ Held(b) \in Binding /\ Held(b) # NoBinding
         /\ Held(b).public = b.public /\ Held(b).active = FALSE
<1>1. Grace \in -1..Grace
  BY SidePortAssumption
<1>2. Held(b) \in Binding /\ Held(b).public = b.public /\ Held(b).active = FALSE
  BY <1>1 DEF Held, Binding
<1> QED
  BY <1>2, BindingFields

\* What release leaves of the tables.
LEMMA ReleasedFields ==
  ASSUME NEW ks
  PROVE  LET u == Released(Tables, ks) IN
         /\ u.byKey = [k \in Keys |-> IF k \in ks /\ Active(k) THEN Held(byKey[k]) ELSE byKey[k]]
         /\ u.byPort = byPort
         /\ u.socket = [p \in Ports |-> IF socket[p] \in ks THEN NoKey ELSE socket[p]]
         /\ u.broken = broken
BY DEF Released, Tables, Held

LEMMA ReleasedSound ==
  ASSUME PortTables, NEW ks \in SUBSET Keys, SetTables(Released(Tables, ks))
  PROVE  PortTables'
<1>1. /\ byKey' = [k \in Keys |-> IF k \in ks /\ Active(k) THEN Held(byKey[k]) ELSE byKey[k]]
      /\ byPort' = byPort
      /\ socket' = [p \in Ports |-> IF socket[p] \in ks THEN NoKey ELSE socket[p]]
      /\ broken' = broken
  BY ReleasedFields DEF SetTables
<1>2. \A k \in Keys : Active(k) => byKey[k] \in Binding
  BY DEF PortTables, Active
<1>3. /\ byKey' \in [Keys -> Binding \cup {NoBinding}]
      /\ socket' \in [Ports -> Keys \cup {NoKey}]
  BY <1>1, <1>2, HeldFields DEF PortTables
<1>4. ASSUME NEW k \in Keys
      PROVE  /\ byKey'[k] # NoBinding <=> byKey[k] # NoBinding
             /\ byKey[k] # NoBinding => byKey'[k].public = byKey[k].public
             /\ byKey[k] # NoBinding => (byKey'[k].active <=> byKey[k].active /\ k \notin ks)
  <2>1. CASE k \in ks /\ Active(k)
    <3>1. byKey'[k] = Held(byKey[k]) /\ byKey[k] \in Binding
      BY <1>1, <1>2, <2>1
    <3> QED
      BY <2>1, <3>1, HeldFields DEF Active
  <2>2. CASE ~(k \in ks /\ Active(k))
    BY <1>1, <2>2 DEF Active
  <2> QED
    BY <2>1, <2>2
<1>5. MapsAgree'
  BY <1>1, <1>4 DEF PortTables, MapsAgree
<1>6. ListenersMatch'
  BY <1>1, <1>4, SidePortAssumption DEF PortTables, MapsAgree, ListenersMatch
<1> QED
  BY <1>1, <1>3, <1>5, <1>6 DEF PortTables

LEMMA SweepSound == ASSUME PortTables, Sweep PROVE PortTables'
<1> DEFINE gone == {k \in Keys : Gone(k)}
           t == Released(Tables, gone)
<1>0. \A k \in Keys : GraceOver(k) => ~Active(k) /\ ~Gone(k)
  BY DEF GraceOver, Gone, Active
<1>1. /\ byKey' = [k \in Keys |-> IF GraceOver(k) THEN NoBinding ELSE t.byKey[k]]
      /\ byPort' = [p \in Ports |->
                      IF \E k \in Keys : GraceOver(k) /\ byKey[k].public = p /\ byPort[p] = k
                      THEN NoKey ELSE t.byPort[p]]
      /\ socket' = t.socket /\ broken' = t.broken
  BY DEF Sweep, SetTables, Released, Tables
<1>2. /\ t.byKey = [k \in Keys |->
                      IF k \in gone /\ Active(k) THEN Held(byKey[k]) ELSE byKey[k]]
      /\ t.byPort = byPort
      /\ t.socket = [p \in Ports |-> IF socket[p] \in gone THEN NoKey ELSE socket[p]]
      /\ t.broken = broken
  BY ReleasedFields
<1> HIDE DEF t
<1>3. ASSUME NEW k \in Keys
      PROVE  byKey'[k] = IF GraceOver(k) THEN NoBinding
                         ELSE IF Gone(k) THEN Held(byKey[k]) ELSE byKey[k]
  BY <1>1, <1>2 DEF Gone
<1>4. \A k \in Keys : Gone(k) => byKey[k] \in Binding
  BY DEF PortTables, Gone, Active
<1>5. /\ byKey' \in [Keys -> Binding \cup {NoBinding}]
      /\ byPort' \in [Ports -> Keys \cup {NoKey}]
      /\ socket' \in [Ports -> Keys \cup {NoKey}]
      /\ broken' \in [Ports -> 0..BrokenTime]
  <2>1. \A k \in Keys : byKey'[k] \in Binding \cup {NoBinding}
    BY <1>3, <1>4, HeldFields DEF PortTables
  <2> QED
    BY <1>1, <1>2, <2>1 DEF PortTables
<1>6. ASSUME NEW k \in Keys
      PROVE  /\ byKey'[k] # NoBinding <=> byKey[k] # NoBinding /\ ~GraceOver(k)
             /\ byKey'[k] # NoBinding => byKey'[k].public = byKey[k].public
             /\ byKey'[k] # NoBinding => (byKey'[k].active <=> byKey[k].active /\ ~Gone(k))
  <2>1. CASE GraceOver(k)
    BY <1>3, <2>1
  <2>2. CASE ~GraceOver(k) /\ Gone(k)
    BY <1>3, <1>4, <2>2, HeldFields, BindingFields
  <2>3. CASE ~GraceOver(k) /\ ~Gone(k)
    BY <1>3, <2>3
  <2> QED
    BY <2>1, <2>2, <2>3
<1>7. ASSUME NEW p \in Ports
      PROVE  byPort'[p] = IF byPort[p] # NoKey /\ GraceOver(byPort[p]) THEN NoKey ELSE byPort[p]
  BY <1>1, <1>2, SidePortAssumption DEF PortTables, MapsAgree
<1>8. MapsAgree'
  <2>1. ASSUME NEW k \in Keys, byKey'[k] # NoBinding PROVE byPort'[byKey'[k].public] = k
    <3>1. byKey[k] # NoBinding /\ ~GraceOver(k) /\ byKey'[k].public = byKey[k].public
      BY <1>6, <2>1
    <3>2. byKey[k].public \in Ports /\ byPort[byKey[k].public] = k
      BY <3>1, BindingFields DEF PortTables, MapsAgree
    <3> QED
      BY <1>7, <3>1, <3>2
  <2>2. ASSUME NEW p \in Ports, byPort'[p] # NoKey
        PROVE  byKey'[byPort'[p]] # NoBinding /\ byKey'[byPort'[p]].public = p
    BY <1>6, <1>7, <2>2 DEF PortTables, MapsAgree
  <2> QED
    BY <2>1, <2>2 DEF MapsAgree
<1>9. ListenersMatch'
  <2> SUFFICES ASSUME NEW p \in Ports
               PROVE  socket'[p] = IF byPort'[p] # NoKey /\ byKey'[byPort'[p]].active
                                   THEN byPort'[p] ELSE NoKey
    BY DEF ListenersMatch
  <2>1. socket'[p] = IF socket[p] \in gone THEN NoKey ELSE socket[p]
    BY <1>1, <1>2
  <2>2. CASE byPort[p] = NoKey
    BY <1>7, <2>1, <2>2 DEF PortTables, ListenersMatch
  <2>3. CASE byPort[p] # NoKey
    <3>1. byPort[p] \in Keys
      BY <2>3 DEF PortTables
    <3>2. CASE GraceOver(byPort[p])
      BY <1>7, <2>1, <2>3, <3>2 DEF PortTables, ListenersMatch, GraceOver
    <3>3. CASE ~GraceOver(byPort[p])
      <4>1. byPort'[p] = byPort[p] /\ byKey'[byPort[p]] # NoBinding
        BY <1>6, <1>7, <2>3, <3>1, <3>3 DEF PortTables, MapsAgree
      <4>2. byKey'[byPort[p]].active <=> byKey[byPort[p]].active /\ ~Gone(byPort[p])
        BY <1>6, <3>1, <4>1
      <4>3. socket[p] = IF byKey[byPort[p]].active THEN byPort[p] ELSE NoKey
        BY <2>3 DEF PortTables, ListenersMatch
      <4> QED
        BY <2>1, <2>3, <3>1, <4>1, <4>2, <4>3, SidePortAssumption
    <3> QED
      BY <3>2, <3>3
  <2> QED
    BY <2>2, <2>3
<1> QED
  BY <1>5, <1>8, <1>9 DEF PortTables

LEMMA StopSound == ASSUME PortTables, Stop PROVE PortTables'
BY DEF Stop, PortTables, MapsAgree, ListenersMatch

LEMMA TickSound == ASSUME PortTables, Tick PROVE PortTables'
<1> DEFINE waits(k) == byKey[k] # NoBinding /\ ~byKey[k].active /\ byKey[k].held >= 0
           later(k) == [byKey[k] EXCEPT !.held = byKey[k].held - 1]
<1>1. byKey' = [k \in Keys |-> IF waits(k) THEN later(k) ELSE byKey[k]]
  BY DEF Tick
<1>2. ASSUME NEW k \in Keys, waits(k)
      PROVE  /\ later(k) \in Binding /\ later(k).public = byKey[k].public
             /\ later(k).active = byKey[k].active
  <2>1. byKey[k] \in Binding
    BY <1>2 DEF PortTables
  <2>2. byKey[k].held - 1 \in -1..Grace
    BY <1>2, <2>1, BindingFields, SidePortAssumption
  <2> QED
    BY <2>1, <2>2 DEF Binding
<1> HIDE DEF later
<1>3. \A k \in Keys : later(k) \in Binding => later(k) # NoBinding
  BY BindingFields
<1>4. byKey' \in [Keys -> Binding \cup {NoBinding}]
  BY <1>1, <1>2 DEF PortTables
<1>5. ASSUME NEW k \in Keys
      PROVE  /\ byKey'[k] # NoBinding <=> byKey[k] # NoBinding
             /\ byKey[k] # NoBinding => byKey'[k].public = byKey[k].public
             /\ byKey[k] # NoBinding => (byKey'[k].active <=> byKey[k].active)
  BY <1>1, <1>2, <1>3
<1>6. broken' \in [Ports -> 0..BrokenTime]
  BY SidePortAssumption DEF Tick, Down, PortTables
<1>7. MapsAgree' /\ ListenersMatch'
  BY <1>5 DEF Tick, PortTables, MapsAgree, ListenersMatch
<1> QED
  BY <1>4, <1>6, <1>7 DEF Tick, PortTables

-----------------------------------------------------------------------------
(* The invariant of the side ports.                                         *)

\* Sync runs for a handler that has upserted and not answered yet.
Locked ==
  /\ mu \in Reqs \cup {Unlocked} /\ todo \in SUBSET Names
  /\ mu \in Reqs => reqs[mu] # NoReq /\ reqs[mu].at = "saved"

ConnsOK ==
  /\ conns \in [Conns -> Conn \cup {NoConn}]
  /\ NeverToAnotherOwner

PortsInv == TypeOK /\ PortTables /\ Locked /\ ConnsOK /\ stopped \in BOOLEAN

LEMMA UpsertedType ==
  ASSUME TypeOK, NEW r \in Reqs, reqs[r] # NoReq
  PROVE  /\ reqs[r] \in Req /\ reqs[r].id \in Ids
         /\ Upserted(reqs[r]) \in Server
         /\ Upserted(reqs[r]).owner = reqs[r].owner
         /\ Upserted(reqs[r]).ports = reqs[r].ports
<1> USE RegistryAssumption
<1> DEFINE q == reqs[r]
           old == servers[q.id]
           same == old # NoServer /\ old.address = q.address
           seen == IF same THEN old.seen ELSE NoAddress
           online == IF same THEN old.online ELSE q.online
<1>1. q \in Req
  BY DEF TypeOK
<1>2. /\ q.owner \in Owners /\ q.id \in Ids /\ q.address \in Addresses
      /\ q.ports \in PortSets /\ q.online \in BOOLEAN
  BY <1>1 DEF Req
<1>3. old # NoServer => old \in Server
  BY <1>2 DEF TypeOK
<1>4. seen \in Addresses \cup {NoAddress} /\ online \in BOOLEAN
  BY <1>2, <1>3 DEF Server
<1> HIDE DEF seen, online
<1>5. Upserted(q) = [owner |-> q.owner, address |-> q.address, ports |-> q.ports,
                     static |-> FALSE, lease |-> TTL, online |-> online, seen |-> seen]
  BY DEF Upserted, seen, online
<1> QED
  BY <1>1, <1>2, <1>4, <1>5 DEF Server

\* The registry's part of a handler's step.
LEMMA RegistrationTypes ==
  ASSUME TypeOK, NEW r \in Reqs, Registration(r)
  PROVE  /\ TypeOK'
         /\ \E q \in Req \cup {NoReq} : reqs' = [reqs EXCEPT ![r] = q]
         /\ reqs[r] # NoReq => reqs[r].at = "upsert"
<1> USE RegistryAssumption
<1>1. ASSUME NEW o \in Owners, NEW i \in Ids, NEW a \in Addresses, NEW ports \in PortSets,
             Register(r, o, i, a, ports, FALSE)
      PROVE  /\ TypeOK' /\ reqs[r] = NoReq
             /\ \E q \in Req : reqs' = [reqs EXCEPT ![r] = q]
  <2> DEFINE prev == IF Live(i) THEN servers[i].address ELSE NoAddress
             q == [at |-> "upsert", owner |-> o, id |-> i, address |-> a, ports |-> ports,
                   online |-> FALSE, prev |-> prev]
  <2>1. prev \in Addresses \cup {NoAddress}
    BY DEF TypeOK, Live, Server
  <2> HIDE DEF prev
  <2>2. q \in Req
    BY <2>1 DEF Req
  <2>3. reqs' = [reqs EXCEPT ![r] = q]
    BY <1>1 DEF Register, prev
  <2> HIDE DEF q
  <2>4. reqs[r] = NoReq /\ UNCHANGED <<servers, checks, up>>
    BY <1>1 DEF Register
  <2>5. TypeOK'
    BY <2>2, <2>3, <2>4 DEF TypeOK
  <2> QED
    BY <2>2, <2>3, <2>4, <2>5
<1>2. ASSUME NEW o \in Owners, NEW i \in Ids, Unregister(r, o, i)
      PROVE  /\ TypeOK' /\ reqs[r] = NoReq
             /\ \E q \in Req : reqs' = [reqs EXCEPT ![r] = q]
  <2> DEFINE q == [at |-> "removed", owner |-> o, id |-> i, address |-> servers[i].address,
                   ports |-> {}, online |-> FALSE, prev |-> NoAddress]
  <2>1. servers[i].address \in Addresses
    BY <1>2 DEF TypeOK, Unregister, Server
  <2>2. q \in Req
    BY <2>1 DEF Req
  <2>3. reqs' = [reqs EXCEPT ![r] = q]
    BY <1>2 DEF Unregister
  <2> HIDE DEF q
  <2>4. TypeOK'
    BY <1>2, <2>2, <2>3 DEF TypeOK, Unregister
  <2> QED
    BY <1>2, <2>2, <2>3, <2>4 DEF Unregister
<1>3. ASSUME Upsert(r), UNCHANGED checks
      PROVE  /\ TypeOK' /\ reqs[r].at = "upsert"
             /\ \E q \in Req : reqs' = [reqs EXCEPT ![r] = q]
  <2> DEFINE q == [reqs[r] EXCEPT !.at = "saved", !.prev = NoAddress]
             s == Upserted(reqs[r])
  <2>1. reqs[r] \in Req /\ reqs[r].id \in Ids /\ s \in Server
    BY <1>3, UpsertedType DEF Upsert
  <2>2. q \in Req
    BY <2>1 DEF Req
  <2>3. reqs' = [reqs EXCEPT ![r] = q] /\ servers' = [servers EXCEPT ![reqs[r].id] = s]
    BY <1>3 DEF Upsert
  <2> HIDE DEF q, s
  <2>4. reqs[r].at = "upsert" /\ UNCHANGED <<checks, up>>
    BY <1>3 DEF Upsert
  <2>5. TypeOK'
    BY <2>1, <2>2, <2>3, <2>4 DEF TypeOK
  <2> QED
    BY <2>2, <2>3, <2>4, <2>5
<1>4. ASSUME UpsertRefused(r)
      PROVE  /\ TypeOK' /\ reqs[r].at = "upsert"
             /\ reqs' = [reqs EXCEPT ![r] = NoReq]
  BY <1>4 DEF UpsertRefused, TypeOK
<1> QED
  BY <1>1, <1>2, <1>3, <1>4 DEF Registration

LEMMA RegistrationPorts ==
  ASSUME PortsInv, NEW r \in Reqs, Registration(r)
  PROVE  PortsInv'
<1> USE DEF PortsInv
<1>1. UNCHANGED portvars
  BY DEF Registration
<1>2. TypeOK' /\ stopped' \in BOOLEAN
  BY <1>1, RegistrationTypes DEF portvars
<1>3. PortTables'
  BY <1>1 DEF portvars, PortTables, MapsAgree, ListenersMatch
<1>4. Locked'
  <2>1. PICK q \in Req \cup {NoReq} : reqs' = [reqs EXCEPT ![r] = q]
    BY RegistrationTypes
  <2>2. mu # r
    <3>1. reqs[r] # NoReq => reqs[r].at = "upsert"
      BY RegistrationTypes
    <3> QED
      BY <3>1 DEF Locked
  <2> QED
    BY <1>1, <2>1, <2>2 DEF Locked, TypeOK, portvars
<1>5. ConnsOK'
  BY <1>1 DEF portvars, ConnsOK, NeverToAnotherOwner
<1> QED
  BY <1>2, <1>3, <1>4, <1>5

LEMMA AnswerTypes ==
  ASSUME TypeOK, NEW r \in Reqs, Answer(r)
  PROVE  TypeOK' /\ reqs' = [reqs EXCEPT ![r] = NoReq]
BY DEF Answer, TypeOK

LEMMA HandlerPorts ==
  ASSUME PortsInv, NEW r \in Reqs, HandlerStep(r)
  PROVE  PortsInv'
<1> USE DEF PortsInv
<1>1. CASE SyncBegin(r)
  <2>1. reqs[r].ports \in SUBSET Names
    BY <1>1, SidePortAssumption DEF SyncBegin, TypeOK, Req
  <2>2. Locked'
    BY <1>1, <2>1 DEF SyncBegin, Locked, regvars
  <2>3. TypeOK' /\ PortTables' /\ ConnsOK' /\ stopped' \in BOOLEAN
    BY <1>1 DEF SyncBegin, regvars, TypeOK, PortTables, MapsAgree, ListenersMatch,
               ConnsOK, NeverToAnotherOwner
  <2> QED
    BY <2>2, <2>3
<1>2. ASSUME NEW n \in Names, SyncAssign(r, n) PROVE PortsInv'
  <2>1. reqs[r] \in Req /\ <<reqs[r].id, n>> \in Keys /\ reqs[r].owner \in Owners
    BY <1>2 DEF SyncAssign, Locked, TypeOK, Req, Keys
  <2>2. PICK pref, bad : SetTables(Assigned(<<reqs[r].id, n>>, reqs[r].owner, pref, bad))
    BY <1>2 DEF SyncAssign
  <2>3. Sound(Assigned(<<reqs[r].id, n>>, reqs[r].owner, pref, bad))
    BY <2>1, TablesSound, AssignedSound
  <2>4. PortTables'
    BY <2>2, <2>3, SetTablesSound
  <2>5. TypeOK' /\ Locked' /\ ConnsOK' /\ stopped' \in BOOLEAN
    BY <1>2 DEF SyncAssign, regvars, TypeOK, Locked, ConnsOK, NeverToAnotherOwner
  <2> QED
    BY <2>4, <2>5
<1>3. CASE SyncEnd(r)
  <2>1. PortTables'
    BY <1>3, ReleasedSound DEF SyncEnd, Undeclared
  <2>2. TypeOK' /\ Locked'
    BY <1>3, AnswerTypes, SidePortAssumption DEF SyncEnd, Locked
  <2>3. ConnsOK' /\ stopped' \in BOOLEAN
    BY <1>3 DEF SyncEnd, ConnsOK, NeverToAnotherOwner
  <2> QED
    BY <2>1, <2>2, <2>3
<1>4. CASE ReleaseAll(r)
  <2>1. PortTables'
    BY <1>4, ReleasedSound DEF ReleaseAll
  <2>2. TypeOK' /\ Locked'
    BY <1>4, AnswerTypes, SidePortAssumption DEF ReleaseAll, Locked
  <2>3. ConnsOK' /\ stopped' \in BOOLEAN
    BY <1>4 DEF ReleaseAll, ConnsOK, NeverToAnotherOwner
  <2> QED
    BY <2>1, <2>2, <2>3
<1> QED
  BY <1>1, <1>2, <1>3, <1>4 DEF HandlerStep

LEMMA PrunePorts ==
  ASSUME PortsInv, Prune, UNCHANGED <<reqs, checks, up, portvars>>
  PROVE  PortsInv'
<1> USE DEF PortsInv
<1>1. TypeOK'
  BY DEF Prune, TypeOK
<1>2. PortTables' /\ Locked' /\ ConnsOK' /\ stopped' \in BOOLEAN
  BY DEF portvars, PortTables, MapsAgree, ListenersMatch, Locked, ConnsOK, NeverToAnotherOwner
<1> QED
  BY <1>1, <1>2

LEMMA SweepPorts == ASSUME PortsInv, Sweep PROVE PortsInv'
<1> USE DEF PortsInv
<1>1. TypeOK' /\ Locked' /\ ConnsOK' /\ stopped' \in BOOLEAN
  BY DEF Sweep, regvars, TypeOK, Locked, ConnsOK, NeverToAnotherOwner
<1> QED
  BY <1>1, SweepSound

LEMMA StopPorts == ASSUME PortsInv, Stop PROVE PortsInv'
<1> USE DEF PortsInv
<1>1. TypeOK' /\ Locked' /\ ConnsOK' /\ stopped' \in BOOLEAN
  BY DEF Stop, regvars, TypeOK, Locked, ConnsOK, NeverToAnotherOwner
<1> QED
  BY <1>1, StopSound

\* One tick of one registration.
LEMMA TickServers ==
  ASSUME TypeOK, Tick, NEW i \in Ids
  PROVE  /\ servers'[i] \in Server \cup {NoServer}
         /\ servers'[i] # NoServer <=> servers[i] # NoServer
         /\ servers[i] # NoServer =>
              servers'[i].owner = servers[i].owner /\ servers'[i].ports = servers[i].ports
<1> USE RegistryAssumption
<1> DEFINE s == [servers[i] EXCEPT !.lease = servers[i].lease - 1]
<1>1. servers'[i] = IF Live(i) /\ ~servers[i].static THEN s ELSE servers[i]
  BY DEF Tick
<1>2. ASSUME Live(i), ~servers[i].static
      PROVE  s \in Server /\ s.owner = servers[i].owner /\ s.ports = servers[i].ports
  <2>1. servers[i] \in Server
    BY <1>2 DEF TypeOK, Live
  <2>2. servers[i].lease - 1 \in -1..TTL
    BY <1>2, <2>1 DEF Live, Expired, Server
  <2> QED
    BY <2>1, <2>2 DEF Server
<1> HIDE DEF s
<1> QED
  BY <1>1, <1>2 DEF TypeOK, Live

LEMMA TickPorts == ASSUME PortsInv, Tick PROVE PortsInv'
<1> USE DEF PortsInv
<1>1. TypeOK'
  BY TickServers DEF Tick, TypeOK
<1>2. Locked' /\ ConnsOK' /\ stopped' \in BOOLEAN
  BY DEF Tick, Locked, ConnsOK, NeverToAnotherOwner
<1> QED
  BY <1>1, <1>2, TickSound

\* The forwarded connections; the tables and the registry stay as they are.
LEMMA ConnPorts ==
  ASSUME PortsInv, NEW c \in Conns, (\E p \in Ports : Accept(c, p)) \/ Dial(c) \/ Hangup(c)
  PROVE  PortsInv'
<1> USE DEF PortsInv
<1>1. UNCHANGED <<regvars, byKey, byPort, socket, broken, mu, todo, stopped>>
  BY DEF Accept, Dial, Hangup
<1>2. TypeOK' /\ PortTables' /\ Locked' /\ stopped' \in BOOLEAN
  BY <1>1 DEF regvars, TypeOK, PortTables, MapsAgree, ListenersMatch, Locked
<1>3. ASSUME NEW d \in Conn, d.to \in {NoConn, d.owner}, conns' = [conns EXCEPT ![c] = d]
      PROVE  ConnsOK'
  BY <1>3 DEF ConnsOK, NeverToAnotherOwner
<1>4. ASSUME conns' = [conns EXCEPT ![c] = NoConn] PROVE ConnsOK'
  BY <1>4 DEF ConnsOK, NeverToAnotherOwner
<1>5. ASSUME NEW p \in Ports, Accept(c, p) PROVE ConnsOK'
  <2> DEFINE k == socket[p]
             d == [key |-> k, owner |-> byKey[k].owner, to |-> NoConn]
  <2>1. k \in Keys /\ byKey[k] # NoBinding
    BY <1>5 DEF Accept, PortTables, MapsAgree, ListenersMatch
  <2>2. byKey[k].owner \in Owners
    BY <2>1, BindingFields DEF PortTables
  <2>3. d \in Conn /\ d.to = NoConn
    BY <2>1, <2>2 DEF Conn
  <2>4. conns' = [conns EXCEPT ![c] = d]
    BY <1>5 DEF Accept
  <2> HIDE DEF d
  <2> QED
    BY <1>3, <2>3, <2>4
<1>6. ASSUME Dial(c) PROVE ConnsOK'
  <2> DEFINE d == conns[c]
             o == servers[d.key[1]].owner
             e == [d EXCEPT !.to = o]
  <2>1. d \in Conn
    BY <1>6 DEF Dial, ConnsOK
  <2>2. CASE Reachable(d)
    <3>1. o = d.owner /\ o \in Owners
      BY <2>1, <2>2 DEF Reachable, Conn
    <3>2. e \in Conn /\ e.to = e.owner
      BY <2>1, <3>1 DEF Conn, Tenants
    <3>3. conns' = [conns EXCEPT ![c] = e]
      BY <1>6, <2>2 DEF Dial
    <3> HIDE DEF e
    <3> QED
      BY <1>3, <3>2, <3>3
  <2>3. CASE ~Reachable(d)
    BY <1>4, <1>6, <2>3 DEF Dial
  <2> QED
    BY <2>2, <2>3
<1>7. ASSUME Hangup(c) PROVE ConnsOK'
  BY <1>4, <1>7 DEF Hangup
<1> QED
  BY <1>2, <1>5, <1>6, <1>7

LEMMA PortsInvInit == PortsInit => PortsInv
<1> SUFFICES ASSUME PortsInit PROVE PortsInv
  OBVIOUS
<1>1. TypeOK
  BY InitInv DEF PortsInit, Inv
<1>2. PortTables
  BY SidePortAssumption DEF PortsInit, PortTables, MapsAgree, ListenersMatch
<1>3. Locked /\ ConnsOK /\ stopped \in BOOLEAN
  BY SidePortAssumption DEF PortsInit, Locked, ConnsOK, NeverToAnotherOwner
<1> QED
  BY <1>1, <1>2, <1>3 DEF PortsInv

LEMMA PortsInvStep == PortsInv /\ [PortsNext]_vars => PortsInv'
<1> SUFFICES ASSUME PortsInv, [PortsNext]_vars PROVE PortsInv'
  OBVIOUS
<1>1. CASE UNCHANGED vars
  BY <1>1 DEF vars, PortsInv, TypeOK, PortTables, MapsAgree, ListenersMatch, Locked, ConnsOK,
             NeverToAnotherOwner
<1>2. CASE PortsNext
  BY <1>2, RegistrationPorts, HandlerPorts, PrunePorts, SweepPorts, StopPorts, TickPorts, ConnPorts
     DEF PortsNext
<1> QED
  BY <1>1, <1>2

LEMMA PortsInvAlways == PortsSpec => []PortsInv
BY PortsInvInit, PortsInvStep, PTL DEF PortsSpec

\* Every variable of the side port manager and of the registry under it keeps
\* its type; in particular every listener has a binding to accept for.
THEOREM PortsTypes == PortsSpec => []PortsTypeOK
<1>1. PortsInv => PortsTypeOK
  BY DEF PortsInv, PortsTypeOK, PortTables, Locked, ConnsOK
<1> QED
  BY <1>1, PortsInvAlways, PTL

\* The two maps agree (sideport.go:79-81), so no two side ports hold one
\* public port, for every pool, every set of servers and any mix of Sync,
\* Release, sweep and takeover.
THEOREM MapsAgreeAlways == PortsSpec => []MapsAgree
<1>1. PortsInv => MapsAgree
  BY DEF PortsInv, PortTables
<1> QED
  BY <1>1, PortsInvAlways, PTL

\* The process listens on exactly the ports of its active bindings
\* (sideport.go:244-291).
THEOREM ListenersMatchAlways == PortsSpec => []ListenersMatch
<1>1. PortsInv => ListenersMatch
  BY DEF PortsInv, PortTables
<1> QED
  BY <1>1, PortsInvAlways, PTL

\* A connection is forwarded to a server of the owner whose port it came in on,
\* or not at all (sideport.go:359-366).
THEOREM NeverToAnotherOwnerAlways == PortsSpec => []NeverToAnotherOwner
<1>1. PortsInv => NeverToAnotherOwner
  BY DEF PortsInv, ConnsOK
<1> QED
  BY <1>1, PortsInvAlways, PTL

-----------------------------------------------------------------------------
(* What a step may do to a binding.                                         *)

\* What release does to one binding.
LEMMA ReleasedOne ==
  ASSUME PortTables, NEW ks, SetTables(Released(Tables, ks)), NEW k \in Keys
  PROVE  /\ byKey'[k] = IF k \in ks /\ Active(k) THEN Held(byKey[k]) ELSE byKey[k]
         /\ byKey[k] # NoBinding => byKey'[k] # NoBinding /\ byKey'[k].public = byKey[k].public
<1>1. byKey' = [j \in Keys |-> IF j \in ks /\ Active(j) THEN Held(byKey[j]) ELSE byKey[j]]
  BY ReleasedFields DEF SetTables
<1>2. Active(k) => byKey[k] \in Binding
  BY DEF PortTables, Active
<1> QED
  BY <1>1, <1>2, HeldFields

\* What the sweep does to one binding.
LEMMA SweptOne ==
  ASSUME PortTables, Sweep, NEW k \in Keys
  PROVE  byKey'[k] = IF GraceOver(k) THEN NoBinding
                     ELSE IF Gone(k) THEN Held(byKey[k]) ELSE byKey[k]
<1> DEFINE t == Released(Tables, {j \in Keys : Gone(j)})
<1>1. byKey' = [j \in Keys |-> IF GraceOver(j) THEN NoBinding ELSE t.byKey[j]]
  BY DEF Sweep, SetTables, Released, Tables
<1>2. t.byKey = [j \in Keys |->
                   IF j \in {i \in Keys : Gone(i)} /\ Active(j) THEN Held(byKey[j]) ELSE byKey[j]]
  BY ReleasedFields
<1> HIDE DEF t
<1> QED
  BY <1>1, <1>2 DEF Gone

\* What a turn of Sync's loop does to the other bindings.
LEMMA AssignedOthers ==
  ASSUME PortsInv, NEW r \in Reqs, NEW n \in Names, SyncAssign(r, n),
         NEW k \in Keys, k # <<reqs[r].id, n>>
  PROVE  byKey'[k] = byKey[k]
<1>1. reqs[r] \in Req /\ <<reqs[r].id, n>> \in Keys /\ reqs[r].owner \in Owners
  BY DEF PortsInv, SyncAssign, Locked, TypeOK, Req, Keys
<1>2. PICK pref, bad : SetTables(Assigned(<<reqs[r].id, n>>, reqs[r].owner, pref, bad))
  BY DEF SyncAssign
<1>3. Assigned(<<reqs[r].id, n>>, reqs[r].owner, pref, bad).byKey[k] = byKey[k]
  BY <1>1, TablesSound, AssignedSound DEF PortsInv
<1> QED
  BY <1>2, <1>3 DEF SetTables

LEMMA GraceStep ==
  ASSUME PortsInv, PortsNext, NEW k \in Keys,
         byKey[k] # NoBinding, ~byKey[k].active, byKey[k].held >= 0
  PROVE  \/ byKey'[k] # NoBinding /\ byKey'[k].public = byKey[k].public
         \/ \E r \in Reqs, n \in todo \ todo' : mu = r /\ k = <<reqs[r].id, n>>
         \/ Stop
<1> DEFINE Stays == byKey'[k] # NoBinding /\ byKey'[k].public = byKey[k].public
           Synced == \E r \in Reqs, n \in todo \ todo' : mu = r /\ k = <<reqs[r].id, n>>
<1>0. PortTables /\ byKey[k] \in Binding
  BY DEF PortsInv, PortTables
<1>1. CASE UNCHANGED byKey
  BY <1>1
<1>2. ASSUME NEW r \in Reqs, NEW n \in Names, SyncAssign(r, n) PROVE Stays \/ Synced
  <2>1. CASE k = <<reqs[r].id, n>>
    BY <1>2, <2>1 DEF SyncAssign
  <2>2. CASE k # <<reqs[r].id, n>>
    BY <1>2, <2>2, AssignedOthers
  <2> QED
    BY <2>1, <2>2
<1>3. ASSUME NEW ks, SetTables(Released(Tables, ks)) PROVE Stays
  BY <1>0, <1>3, ReleasedOne
<1>4. CASE Sweep
  <2>1. ~GraceOver(k) /\ ~Gone(k)
    BY <1>0, BindingFields, SidePortAssumption DEF GraceOver, Gone, Active
  <2> QED
    BY <1>0, <1>4, <2>1, SweptOne
<1>5. CASE Tick
  <2> DEFINE b == [byKey[k] EXCEPT !.held = byKey[k].held - 1]
  <2>1. byKey'[k] = b
    BY <1>5 DEF Tick
  <2>2. byKey[k].held - 1 \in -1..Grace
    BY <1>0, BindingFields, SidePortAssumption
  <2>3. b \in Binding /\ b.public = byKey[k].public
    BY <1>0, <2>2 DEF Binding
  <2> HIDE DEF b
  <2> QED
    BY <2>1, <2>3, BindingFields
<1>6. ASSUME NEW r \in Reqs, HandlerStep(r) PROVE Stays \/ Synced
  BY <1>1, <1>2, <1>3, <1>6 DEF HandlerStep, SyncBegin, SyncEnd, ReleaseAll
<1>7. ASSUME NEW r \in Reqs, Registration(r) PROVE Stays
  BY <1>1, <1>7 DEF Registration, portvars
<1>8. ASSUME NEW c \in Conns, (\E p \in Ports : Accept(c, p)) \/ Dial(c) \/ Hangup(c)
      PROVE  Stays
  BY <1>1, <1>8 DEF Accept, Dial, Hangup
<1>9. CASE Prune /\ UNCHANGED <<reqs, checks, up, portvars>>
  BY <1>1, <1>9 DEF portvars
<1> QED
  BY <1>4, <1>5, <1>6, <1>7, <1>8, <1>9 DEF PortsNext

\* "ReleaseGrace keeps a released port reserved for its previous owner"
\* (sideport.go:42-44): within the grace period only a Sync of the same side
\* port, or the end of Run, takes it away or gives it to another.
THEOREM GraceKeptAlways == PortsSpec => GraceKept
<1>1. ASSUME PortsInv, PortsNext, NEW k \in Keys,
             byKey[k] # NoBinding, ~byKey[k].active, byKey[k].held >= 0
      PROVE  \/ /\ byKey'[k] # NoBinding /\ byKey'[k].public = byKey[k].public
                /\ byPort'[byKey[k].public] = k
             \/ \E r \in Reqs, n \in todo \ todo' : mu = r /\ k = <<reqs[r].id, n>>
             \/ Stop
  <2>1. PortTables'
    BY <1>1, PortsInvStep DEF PortsInv
  <2>2. byKey'[k] # NoBinding => byPort'[byKey'[k].public] = k
    BY <2>1 DEF PortTables, MapsAgree
  <2> QED
    BY <1>1, <2>2, GraceStep
<1>2. PortsInv /\ [PortsNext]_vars =>
        [\A k \in Keys :
           (byKey[k] # NoBinding /\ ~byKey[k].active /\ byKey[k].held >= 0) =>
             \/ /\ byKey'[k] # NoBinding /\ byKey'[k].public = byKey[k].public
                /\ byPort'[byKey[k].public] = k
             \/ \E r \in Reqs, n \in todo \ todo' : mu = r /\ k = <<reqs[r].id, n>>
             \/ Stop]_vars
  BY <1>1
<1> QED
  BY <1>2, PortsInvAlways, PTL DEF PortsSpec, GraceKept

-----------------------------------------------------------------------------
(* What can end a binding that serves its registration.                     *)

LEMMA ServingStep ==
  ASSUME PortsInv, PortsNext, NEW k \in Keys, Serving(k), ~stopped',
         byKey'[k] # byKey[k]
  PROVE  \E r \in Reqs : reqs[r] # NoReq /\ reqs[r].id = k[1] /\ Overtaken(r)
<1> DEFINE By(r) == reqs[r] # NoReq /\ reqs[r].id = k[1] /\ Overtaken(r)
<1>0. /\ PortTables /\ k[1] \in Ids
      /\ byKey[k] # NoBinding /\ byKey[k].active /\ servers[k[1]] # NoServer
      /\ servers[k[1]].owner = byKey[k].owner /\ k[2] \in servers[k[1]].ports
  BY DEF PortsInv, Serving, Active, StillRegistered, Live, Keys
<1>1. ASSUME NEW r \in Reqs, NEW n \in Names, SyncAssign(r, n) PROVE By(r)
  <2>1. k = <<reqs[r].id, n>>
    BY <1>1, AssignedOthers
  <2>2. reqs[r] # NoReq /\ reqs[r].at = "saved"
    BY <1>1 DEF SyncAssign, PortsInv, Locked
  <2>3. byKey[k].owner # reqs[r].owner
    <3>1. SUFFICES ASSUME byKey[k].owner = reqs[r].owner PROVE FALSE
      OBVIOUS
    <3>2. \A pref, bad : Assigned(k, reqs[r].owner, pref, bad) = Tables
      BY <1>0, <3>1 DEF Assigned
    <3> QED
      BY <1>1, <2>1, <3>2 DEF SyncAssign, SetTables, Tables
  <2> QED
    BY <1>0, <2>1, <2>2, <2>3 DEF Overtaken
<1>2. ASSUME NEW r \in Reqs, SyncEnd(r) PROVE By(r)
  <2>1. reqs[r] # NoReq /\ reqs[r].at = "saved"
    BY <1>2 DEF SyncEnd, PortsInv, Locked
  <2>2. k \in Undeclared(r)
    BY <1>0, <1>2, ReleasedOne DEF SyncEnd
  <2>3. k[1] = reqs[r].id /\ k[2] \notin reqs[r].ports
    BY <2>2 DEF Undeclared
  <2> QED
    BY <1>0, <2>1, <2>3 DEF Overtaken
<1>3. ASSUME NEW r \in Reqs, ReleaseAll(r) PROVE By(r)
  <2>1. k \in {j \in Keys : j[1] = reqs[r].id}
    BY <1>0, <1>3, ReleasedOne DEF ReleaseAll
  <2> QED
    BY <1>0, <1>3, <2>1 DEF ReleaseAll, Overtaken
<1>4. ~Sweep
  <2>1. ~GraceOver(k) /\ ~Gone(k)
    BY <1>0 DEF GraceOver, Gone, Serving
  <2> QED
    BY <1>0, <2>1, SweptOne
<1>5. ~Tick
  BY <1>0 DEF Tick, PortTables
<1>6. ASSUME NEW r \in Reqs, HandlerStep(r) PROVE By(r)
  BY <1>1, <1>2, <1>3, <1>6 DEF HandlerStep, SyncBegin
<1> QED
  BY <1>4, <1>5, <1>6
     DEF PortsNext, Registration, Stop, Accept, Dial, Hangup, portvars

\* A side port in use is never taken from its server by a request for another
\* server, by the sweep (sideport.go:314-356) or by a handler whose view of
\* the registry still holds, however many handlers overlap: only a handler of
\* the same server that another one overtook can (api.go:158-166, 193-196).
THEOREM ReleasedOnlyByOvertakenAlways == PortsSpec => ReleasedOnlyByOvertaken
<1>1. PortsInv /\ [PortsNext]_vars =>
        [\A k \in Keys : Serving(k) /\ ~stopped' /\ byKey'[k] # byKey[k] =>
           \E r \in Reqs : reqs[r] # NoReq /\ reqs[r].id = k[1] /\ Overtaken(r)]_vars
  BY ServingStep
<1> QED
  BY <1>1, PortsInvAlways, PTL DEF PortsSpec, ReleasedOnlyByOvertaken
=============================================================================
