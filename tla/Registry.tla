------------------------------ MODULE Registry ------------------------------
(***************************************************************************)
(* internal/registry/registry.go and health.go with the API handlers that  *)
(* drive them (internal/api/api.go:139-199): registrations with a lease,   *)
(* owned by the token that made them, and the live state that concurrent   *)
(* status pings write into them.                                           *)
(*                                                                         *)
(* A registration's lease is ExpiresAt - now in ticks, so the clock needs  *)
(* no bound: the lease runs down and has expired when it is below zero     *)
(* (now.After(ExpiresAt)).  A handler is a slot of Reqs; it reads the      *)
(* registry, upserts and starts the check of a new address in separate     *)
(* critical sections.  Ping timeouts (5 s) are shorter than the default    *)
(* round interval (10 s), so a round's checks end before the next round.   *)
(***************************************************************************)
EXTENDS Integers

CONSTANTS
  Ids,          \* server ids
  Owners,       \* names of the API's owner tokens
  Static,       \* the reserved owner of servers in the configuration file
  StaticIds,    \* ids of those servers
  StaticAddress,\* their address
  Addresses,
  PortSets,     \* the sets of side port names a registration may declare
  TTL,          \* lease length, in ticks
  Reqs,         \* concurrent handlers
  NoServer, NoAddress, NoCheck, NoReq

Server == [owner : Owners \cup {Static}, address : Addresses, ports : PortSets,
           static : BOOLEAN, lease : -1..TTL, online : BOOLEAN,
           seen : Addresses \cup {NoAddress}]

Checks == Ids \cup Reqs   \* a round's check of an id; a handler's OnRegister check

Check == [id : Ids, address : Addresses, result : {"pending", "up", "down"}]

Req == [at : {"upsert", "saved", "removed"}, owner : Owners, id : Ids,
        address : Addresses, ports : PortSets, online : BOOLEAN,
        prev : Addresses \cup {NoAddress}]

ASSUME RegistryAssumption ==
  /\ TTL \in Nat \ {0}
  /\ Static \notin Owners
  /\ StaticIds \subseteq Ids /\ StaticAddress \in Addresses
  /\ {} \in PortSets
  /\ Ids \cap Reqs = {}
  /\ NoServer \notin Server /\ NoAddress \notin Addresses
  /\ NoCheck \notin Check /\ NoReq \notin Req

VARIABLES
  servers,   \* Registry.servers
  reqs,      \* the handler in each slot
  checks,    \* CheckOne goroutines
  up         \* which addresses answer a status ping

regvars == <<servers, reqs, checks, up>>

Configured(i) ==
  [owner |-> Static, address |-> StaticAddress, ports |-> {}, static |-> TRUE,
   lease |-> 0, online |-> FALSE, seen |-> NoAddress]

Init ==
  /\ servers = [i \in Ids |-> IF i \in StaticIds THEN Configured(i) ELSE NoServer]
  /\ reqs = [r \in Reqs |-> NoReq]
  /\ checks = [c \in Checks |-> NoCheck]
  /\ up \in [Addresses -> BOOLEAN]

Expired(s) == ~s.static /\ s.lease < 0

\* What Registry.Get finds.
Live(i) == servers[i] # NoServer /\ ~Expired(servers[i])

-----------------------------------------------------------------------------
(* The API handlers.                                                        *)

\* register: authenticated, decoded, address allowed; Registry.Get.
Register(r, o, i, a, ports, online) ==
  /\ reqs[r] = NoReq
  /\ reqs' = [reqs EXCEPT ![r] =
       [at |-> "upsert", owner |-> o, id |-> i, address |-> a, ports |-> ports,
        online |-> online, prev |-> IF Live(i) THEN servers[i].address ELSE NoAddress]]
  /\ UNCHANGED <<servers, checks, up>>

OwnershipIgnored(o, i) == FALSE

OwnedByAnother(o, i) == servers[i] # NoServer /\ servers[i].owner # o

\* Upsert refuses with ErrConflict.
Conflict(o, i) == OwnedByAnother(o, i) /\ ~Expired(servers[i])

UpsertedReset(q) ==
  LET old == servers[q.id] IN
  [owner |-> q.owner, address |-> q.address, ports |-> q.ports,
   static |-> FALSE, lease |-> TTL, online |-> q.online,
   seen |-> IF old # NoServer /\ old.address = q.address THEN old.seen ELSE NoAddress]

\* The server Upsert stores: live state is kept for an unchanged address,
\* otherwise it is what the body said.
Upserted(q) ==
  LET old == servers[q.id]
      same == old # NoServer /\ old.address = q.address
  IN [owner |-> q.owner, address |-> q.address, ports |-> q.ports,
      static |-> FALSE, lease |-> TTL,
      online |-> IF same THEN old.online ELSE q.online,
      seen |-> IF same THEN old.seen ELSE NoAddress]

\* The address read before is needed by OnRegister, in the same step, only.
Upsert(r) ==
  /\ reqs[r] # NoReq /\ reqs[r].at = "upsert"
  /\ ~Conflict(reqs[r].owner, reqs[r].id)
  /\ servers' = [servers EXCEPT ![reqs[r].id] = Upserted(reqs[r])]
  /\ reqs' = [reqs EXCEPT ![r].at = "saved", ![r].prev = NoAddress]
  /\ UNCHANGED up

UpsertRefused(r) ==
  /\ reqs[r] # NoReq /\ reqs[r].at = "upsert"
  /\ Conflict(reqs[r].owner, reqs[r].id)
  /\ reqs' = [reqs EXCEPT ![r] = NoReq]
  /\ UNCHANGED <<servers, checks, up>>

\* OnRegister: a new or moved server is checked at once.
OnRegister(r) ==
  LET q == reqs[r] IN
  /\ checks[r] = NoCheck
  /\ checks' = IF q.prev = q.address THEN checks
               ELSE [checks EXCEPT ![r] =
                       [id |-> q.id, address |-> q.address, result |-> "pending"]]

\* The handler answers.
Answer(r) ==
  /\ reqs[r] # NoReq /\ reqs[r].at \in {"saved", "removed"}
  /\ reqs' = [reqs EXCEPT ![r] = NoReq]
  /\ UNCHANGED <<servers, checks, up>>

\* unregister: Remove; an unknown or foreign id changes nothing.
Unregister(r, o, i) ==
  /\ reqs[r] = NoReq
  /\ servers[i] # NoServer /\ ~OwnedByAnother(o, i)
  /\ servers' = [servers EXCEPT ![i] = NoServer]
  /\ reqs' = [reqs EXCEPT ![r] =
       [at |-> "removed", owner |-> o, id |-> i, address |-> servers[i].address,
        ports |-> {}, online |-> FALSE, prev |-> NoAddress]]
  /\ UNCHANGED <<checks, up>>

-----------------------------------------------------------------------------
(* Health checks.                                                           *)

\* Expired registrations are forgotten.
Prune ==
  servers' = [i \in Ids |-> IF Live(i) THEN servers[i] ELSE NoServer]

\* One round of RunHealthChecks: Prune, then a CheckOne for every listed id.
Round ==
  /\ \A i \in Ids : checks[i] = NoCheck
  /\ \E i \in Ids : servers[i] # NoServer
  /\ Prune
  /\ checks' = [c \in Checks |->
       IF c \in Ids /\ Live(c)
       THEN [id |-> c, address |-> servers[c].address, result |-> "pending"]
       ELSE checks[c]]
  /\ UNCHANGED <<reqs, up>>

\* The ping's outcome is decided.
Ping(c) ==
  /\ checks[c] # NoCheck /\ checks[c].result = "pending"
  /\ checks' = [checks EXCEPT ![c].result = IF up[checks[c].address] THEN "up" ELSE "down"]
  /\ UNCHANGED <<servers, reqs, up>>

Measured(s, k) ==
  [s EXCEPT !.online = (k.result = "up"),
            !.seen = IF k.result = "up" THEN k.address ELSE @]

StillThereAnyAddress(k) == servers[k.id] # NoServer

StillThere(k) == servers[k.id] # NoServer /\ servers[k.id].address = k.address

\* SetHealth; a failed ping keeps the version data of the last good one.
SetHealth(c) ==
  /\ checks[c] # NoCheck /\ checks[c].result # "pending"
  /\ checks' = [checks EXCEPT ![c] = NoCheck]
  /\ servers' = IF StillThere(checks[c])
                THEN [servers EXCEPT ![checks[c].id] = Measured(@, checks[c])]
                ELSE servers
  /\ UNCHANGED <<reqs, up>>

-----------------------------------------------------------------------------
(* The environment.                                                         *)

Clock ==
  /\ \E i \in Ids : servers[i] # NoServer /\ ~Expired(servers[i]) /\ ~servers[i].static
  /\ servers' = [i \in Ids |->
       IF Live(i) /\ ~servers[i].static THEN [servers[i] EXCEPT !.lease = @ - 1] ELSE servers[i]]
  /\ UNCHANGED <<reqs, checks, up>>

\* A backend starts or stops answering.
Toggle(a) ==
  /\ up' = [up EXCEPT ![a] = ~@]
  /\ UNCHANGED <<servers, reqs, checks>>

Handler(r) ==
  \/ \E o \in Owners, i \in Ids :
       \/ \E a \in Addresses, ports \in PortSets, online \in BOOLEAN :
            Register(r, o, i, a, ports, online)
       \/ Unregister(r, o, i)
  \/ Upsert(r) /\ OnRegister(r)
  \/ UpsertRefused(r)
  \/ Answer(r)

Next ==
  \/ \E r \in Reqs : Handler(r)
  \/ Round
  \/ \E c \in Checks : Ping(c) \/ SetHealth(c)
  \/ Clock
  \/ \E a \in Addresses : Toggle(a)

Spec == Init /\ [][Next]_regvars

\* The rounds go on and every check ends; callers, the clock and the backends
\* owe nothing.
Fairness ==
  /\ WF_regvars(Round)
  /\ \A c \in Checks : WF_regvars(Ping(c)) /\ WF_regvars(SetHealth(c))

FairSpec == Spec /\ Fairness

-----------------------------------------------------------------------------
\* Every variable has its type.
TypeOK ==
  /\ servers \in [Ids -> Server \cup {NoServer}]
  /\ reqs \in [Reqs -> Req \cup {NoReq}]
  /\ checks \in [Checks -> Check \cup {NoCheck}]
  /\ up \in [Addresses -> BOOLEAN]

\* Version data and mod lists come from the address they are shown for
\* (registry.go:218-222, 299-301), although pings overlap registrations that
\* move the server.
SeenAtItsAddress ==
  \A i \in Ids : servers[i] # NoServer => servers[i].seen \in {NoAddress, servers[i].address}

\* A registration whose lease runs, or that is static, leaves its owner's
\* hands only by the owner's own unregister (registry.go:209, 234): no
\* overlap of handlers, rounds and expiry lets another owner take the id.
LeaseProtectsOwner ==
  [][\A i \in Ids : Live(i) =>
       \/ servers'[i] # NoServer /\ servers'[i].owner = servers[i].owner
       \/ \E r \in Reqs : Unregister(r, servers[i].owner, i)]_regvars

\* RunHealthChecks (health.go:56-70) converges for every server, configured
\* or registered: while it stays registered at an address that stays up, it is
\* shown online for good, and offline if that stays down, although heartbeats
\* upsert it all the time, say what they like of its state, and results of a
\* round and of OnRegister (api.go:168-173) are applied in either order.
HealthConverges ==
  \A i \in Ids, a \in Addresses, b \in BOOLEAN :
    <>[](Live(i) /\ servers[i].address = a /\ up[a] = b) =>
      <>[](Live(i) /\ servers[i].online = b)

\* "Online returns non-expired servers whose last health check succeeded"
\* (registry.go:270): a server is online only after a ping of its present
\* address succeeded.  The body of a registration can say otherwise.
OnlineMeansChecked ==
  \A i \in Ids : Live(i) /\ servers[i].online => servers[i].seen = servers[i].address
=============================================================================
