----------------------------- MODULE SidePorts -----------------------------
(***************************************************************************)
(* internal/sideport/sideport.go on top of the registry: the handlers of   *)
(* internal/api register a server and then Sync its side ports, or remove  *)
(* it and then Release them, in separate critical sections; a sweep        *)
(* reconciles bindings with the registry; accepted connections look the    *)
(* server up again before they are forwarded.                              *)
(*                                                                         *)
(* One protocol is modelled: the tables of tcp and udp are separate and    *)
(* alike.  Health checks do not touch side ports and are left out here.    *)
(* Sync holds Manager.mu over several assignments, one step each, so the   *)
(* registry can change under it.  A held binding counts down its grace     *)
(* period and a broken port its minute, as leases do in Registry.          *)
(***************************************************************************)
EXTENDS Registry

CONSTANTS
  Names,          \* side port names
  MinPort, MaxPort,
  Grace,          \* ReleaseGrace, in ticks
  BrokenTime,     \* how long a port that failed to open is avoided
  Conns,          \* connections being forwarded
  NoBinding, NoKey, NoConn, Unlocked

Ports == MinPort..MaxPort
Keys == Ids \X Names
Tenants == Owners \cup {Static}

\* held is -1 for a released binding whose grace period is over.
Binding == [owner : Owners, public : Ports, active : BOOLEAN, held : -1..Grace]

Conn == [key : Keys, owner : Owners, to : Tenants \cup {NoConn}]

ASSUME SidePortAssumption ==
  /\ MinPort \in Nat /\ MaxPort \in Nat
  /\ Grace \in Nat /\ BrokenTime \in Nat \ {0}
  /\ PortSets \subseteq SUBSET Names
  /\ NoBinding \notin Binding /\ NoKey \notin Keys
  /\ NoConn \notin Conn /\ NoConn \notin Tenants /\ Unlocked \notin Reqs

VARIABLES
  byKey,     \* Manager.byKey
  byPort,    \* Manager.byPort
  socket,    \* the listening sockets of the process
  broken,    \* Manager.broken: ticks a port is still avoided
  mu,        \* the handler that holds Manager.mu during Sync
  todo,      \* side ports Sync has yet to assign
  conns,     \* accepted connections, between accept and the dial's answer
  stopped    \* Run has returned

portvars == <<byKey, byPort, socket, broken, mu, todo, conns, stopped>>
vars == <<servers, reqs, checks, up, byKey, byPort, socket, broken, mu, todo, conns, stopped>>

\* No health checks, so it does not matter which backends are up.
PortsInit ==
  /\ Init /\ up = [a \in Addresses |-> TRUE]
  /\ byKey = [k \in Keys |-> NoBinding]
  /\ byPort = [p \in Ports |-> NoKey]
  /\ socket = [p \in Ports |-> NoKey]
  /\ broken = [p \in Ports |-> 0]
  /\ mu = Unlocked /\ todo = {}
  /\ conns = [c \in Conns |-> NoConn]
  /\ stopped = FALSE

-----------------------------------------------------------------------------
(* The tables as a value, threaded through assign.                          *)

Tables == [byKey |-> byKey, byPort |-> byPort, socket |-> socket, broken |-> broken]

SetTables(t) ==
  byKey' = t.byKey /\ byPort' = t.byPort /\ socket' = t.socket /\ broken' = t.broken

DroppedSocketLeft(t, k) ==
  LET p == t.byKey[k].public IN
  [t EXCEPT !.byKey[k] = NoBinding,
            !.byPort[p] = IF @ = k THEN NoKey ELSE @]

DroppedPortLeft(t, k) ==
  LET p == t.byKey[k].public IN
  [t EXCEPT !.byKey[k] = NoBinding,
            !.socket[p] = IF t.byKey[k].active THEN NoKey ELSE @]

\* drop closes the listener and frees the port at once.
Dropped(t, k) ==
  LET p == t.byKey[k].public IN
  [t EXCEPT !.byKey[k] = NoBinding,
            !.byPort[p] = IF @ = k THEN NoKey ELSE @,
            !.socket[p] = IF t.byKey[k].active THEN NoKey ELSE @]

\* The ports open fails on: another program has those in bad.
InUse(t, bad) == bad \cup {p \in Ports : t.socket[p] # NoKey}

\* The ports assign would try to open: in the pool, unassigned, not broken.
Tryable(t) == {p \in Ports : t.byPort[p] = NoKey /\ t.broken[p] = 0}

Earlier(p, q, pref) == p # q /\ (p = pref \/ (q # pref /\ p < q))

\* Allocation on preferred, then MinPort..MaxPort: the ports tried in vain are
\* broken, the first that opens is bound to k.
Allocated(t, k, o, pref, bad) ==
  LET good == Tryable(t) \ InUse(t, bad)
      first == {p \in good : \A q \in good : ~Earlier(q, p, pref)}
      failed == {p \in Tryable(t) \ good : \A q \in first : Earlier(p, q, pref)}
      avoided == [t EXCEPT !.broken =
                    [p \in Ports |-> IF p \in failed THEN BrokenTime ELSE t.broken[p]]]
  IN IF first = {} THEN avoided
     ELSE LET p == CHOOSE q \in first : TRUE IN
          [avoided EXCEPT
             !.byKey[k] = [owner |-> o, public |-> p, active |-> TRUE, held |-> 0],
             !.byPort[p] = k,
             !.socket[p] = k]

AssignedReclaiming(k, o, pref, bad) ==
  LET held == {j \in Keys : byKey[j] # NoBinding /\ ~byKey[j].active}
      reclaimed == [Tables EXCEPT
        !.byKey = [j \in Keys |-> IF j \in held THEN NoBinding ELSE byKey[j]],
        !.byPort = [p \in Ports |-> IF byPort[p] \in held THEN NoKey ELSE byPort[p]]]
  IN IF byKey[k] # NoBinding THEN Tables
     ELSE Allocated(IF Tryable(Tables) = {} THEN reclaimed ELSE Tables, k, o, pref, bad)

\* assign: keep, reactivate, or drop and allocate anew.
Assigned(k, o, pref, bad) ==
  LET b == byKey[k] IN
  IF b # NoBinding /\ b.owner = o /\ b.active THEN Tables
  ELSE IF b # NoBinding /\ b.owner = o /\ b.public \notin InUse(Tables, bad)
  THEN [Tables EXCEPT !.byKey[k].active = TRUE, !.byKey[k].held = 0, !.socket[b.public] = k]
  ELSE Allocated(IF b = NoBinding THEN Tables ELSE Dropped(Tables, k), k, o, pref, bad)

\* release on a set of keys: close the listener, keep the port for Grace.
Active(k) == byKey[k] # NoBinding /\ byKey[k].active

Released(t, ks) ==
  [t EXCEPT
     !.byKey = [k \in Keys |-> IF k \in ks /\ Active(k)
                               THEN [t.byKey[k] EXCEPT !.active = FALSE, !.held = Grace]
                               ELSE t.byKey[k]],
     !.socket = [p \in Ports |-> IF t.socket[p] \in ks THEN NoKey ELSE t.socket[p]]]

-----------------------------------------------------------------------------
(* The handlers.                                                            *)

\* api.register up to Upsert, and api.unregister's Remove (module Registry).
Registration(r) ==
  /\ \/ \E o \in Owners, i \in Ids :
          \/ \E a \in Addresses, ports \in PortSets :
               Register(r, o, i, a, ports, FALSE)
          \/ Unregister(r, o, i)
     \/ Upsert(r) /\ UNCHANGED checks
     \/ UpsertRefused(r)
  /\ UNCHANGED portvars

\* Sync takes mu.
SyncBegin(r) ==
  /\ reqs[r] # NoReq /\ reqs[r].at = "saved"
  /\ mu = Unlocked
  /\ mu' = r /\ todo' = reqs[r].ports
  /\ UNCHANGED <<regvars, byKey, byPort, socket, broken, conns, stopped>>

\* One turn of Sync's loop; without a preferredPort in the pool, pref is below it.
SyncAssign(r, n) ==
  /\ mu = r /\ n \in todo
  /\ \E pref \in MinPort - 1 .. MaxPort, bad \in SUBSET Ports :
       SetTables(Assigned(<<reqs[r].id, n>>, reqs[r].owner, pref, bad))
  /\ todo' = todo \ {n}
  /\ UNCHANGED <<regvars, mu, conns, stopped>>

UndeclaredByAnyone(r) ==
  {k \in Keys : k \notin {reqs[r].id} \X reqs[r].ports}

\* The side ports of the server that the registration no longer declares.
Undeclared(r) == {k \in Keys : k[1] = reqs[r].id /\ k[2] \notin reqs[r].ports}

\* Sync releases what is no longer declared, and the handler answers.
\* SetSidePorts writes the public ports into the registration only if that
\* still declares the same names, so the set of names stays as it is.
SyncEnd(r) ==
  /\ mu = r /\ todo = {}
  /\ SetTables(Released(Tables, Undeclared(r)))
  /\ mu' = Unlocked
  /\ Answer(r)
  /\ UNCHANGED <<todo, conns, stopped>>

\* unregister's Release, after Remove.
ReleaseAll(r) ==
  /\ reqs[r] # NoReq /\ reqs[r].at = "removed"
  /\ mu = Unlocked
  /\ SetTables(Released(Tables, {k \in Keys : k[1] = reqs[r].id}))
  /\ Answer(r)
  /\ UNCHANGED <<mu, todo, conns, stopped>>

-----------------------------------------------------------------------------
(* Run.                                                                     *)

StillRegistered(k) ==
  LET i == k[1] IN
  Live(i) /\ servers[i].owner = byKey[k].owner /\ k[2] \in servers[i].ports

GraceOver(k) == byKey[k] # NoBinding /\ ~byKey[k].active /\ byKey[k].held < 0

Gone(k) == Active(k) /\ ~StillRegistered(k)

\* sweep: drop what was held long enough, release what left the registry.
\* (A port stops being broken as its ticks run out.)
SweepHeldOnly ==
  /\ ~stopped /\ mu = Unlocked
  /\ \E k \in Keys : GraceOver(k)
  /\ byKey' = [k \in Keys |-> IF GraceOver(k) THEN NoBinding ELSE byKey[k]]
  /\ byPort' = [p \in Ports |->
                  IF \E k \in Keys : GraceOver(k) /\ byPort[p] = k THEN NoKey ELSE byPort[p]]
  /\ UNCHANGED <<regvars, socket, broken, mu, todo, conns, stopped>>

Sweep ==
  /\ ~stopped /\ mu = Unlocked
  /\ \E k \in Keys : GraceOver(k) \/ Gone(k)
  /\ LET t == Released(Tables, {k \in Keys : Gone(k)}) IN
     SetTables([t EXCEPT
       !.byKey = [k \in Keys |-> IF GraceOver(k) THEN NoBinding ELSE t.byKey[k]],
       !.byPort = [p \in Ports |->
                     IF \E k \in Keys : GraceOver(k) /\ byKey[k].public = p /\ byPort[p] = k
                     THEN NoKey ELSE t.byPort[p]]])
  /\ UNCHANGED <<regvars, mu, todo, conns, stopped>>

\* ctx ends: every binding is dropped and Run returns.
Stop ==
  /\ ~stopped /\ mu = Unlocked
  /\ stopped' = TRUE
  /\ byKey' = [k \in Keys |-> NoBinding]
  /\ byPort' = [p \in Ports |-> NoKey]
  /\ socket' = [p \in Ports |-> NoKey]
  /\ UNCHANGED <<regvars, broken, mu, todo, conns>>

-----------------------------------------------------------------------------
(* Forwarding.                                                              *)

\* A listener accepts a connection or a first datagram; its goroutine keeps
\* the binding, which may be released or dropped before it dials.
Accept(c, p) ==
  /\ conns[c] = NoConn /\ socket[p] # NoKey
  /\ conns' = [conns EXCEPT ![c] =
       [key |-> socket[p], owner |-> byKey[socket[p]].owner, to |-> NoConn]]
  /\ UNCHANGED <<regvars, byKey, byPort, socket, broken, mu, todo, stopped>>

ReachableAnyOwner(d) == Live(d.key[1])

Reachable(d) == Live(d.key[1]) /\ servers[d.key[1]].owner = d.owner

\* Manager.dial: look the server up again, or give up.
Dial(c) ==
  /\ conns[c] # NoConn /\ conns[c].to = NoConn
  /\ LET d == conns[c] IN
     conns' = [conns EXCEPT ![c] =
       IF Reachable(d) THEN [d EXCEPT !.to = servers[d.key[1]].owner] ELSE NoConn]
  /\ UNCHANGED <<regvars, byKey, byPort, socket, broken, mu, todo, stopped>>

Hangup(c) ==
  /\ conns[c] # NoConn /\ conns[c].to # NoConn
  /\ conns' = [conns EXCEPT ![c] = NoConn]
  /\ UNCHANGED <<regvars, byKey, byPort, socket, broken, mu, todo, stopped>>

-----------------------------------------------------------------------------
Down(n) == IF n > 0 THEN n - 1 ELSE n

Tick ==
  /\ servers' = [i \in Ids |->
       IF Live(i) /\ ~servers[i].static THEN [servers[i] EXCEPT !.lease = @ - 1] ELSE servers[i]]
  /\ byKey' = [k \in Keys |->
       IF byKey[k] # NoBinding /\ ~byKey[k].active /\ byKey[k].held >= 0
       THEN [byKey[k] EXCEPT !.held = @ - 1] ELSE byKey[k]]
  /\ broken' = [p \in Ports |-> Down(broken[p])]
  /\ UNCHANGED <<reqs, checks, up, byPort, socket, mu, todo, conns, stopped>>

HandlerStep(r) ==
  \/ SyncBegin(r) \/ SyncEnd(r) \/ ReleaseAll(r)
  \/ \E n \in Names : SyncAssign(r, n)

PortsNext ==
  \/ \E r \in Reqs : Registration(r) \/ HandlerStep(r)
  \/ Prune /\ UNCHANGED <<reqs, checks, up, portvars>>
  \/ Sweep \/ Stop \/ Tick
  \/ \E c \in Conns : (\E p \in Ports : Accept(c, p)) \/ Dial(c) \/ Hangup(c)

PortsSpec == PortsInit /\ [][PortsNext]_vars

\* Handlers that have the lock go on, time passes and Run sweeps between the
\* handlers (its ticker waits for mu); nothing is asked of the callers.
PortsFairness ==
  /\ \A r \in Reqs : WF_vars(HandlerStep(r))
  /\ WF_vars(Tick) /\ SF_vars(Sweep)

FairPortsSpec == PortsSpec /\ PortsFairness

-----------------------------------------------------------------------------
\* Every variable has its type.
PortsTypeOK ==
  /\ TypeOK
  /\ byKey \in [Keys -> Binding \cup {NoBinding}]
  /\ byPort \in [Ports -> Keys \cup {NoKey}]
  /\ socket \in [Ports -> Keys \cup {NoKey}]
  /\ broken \in [Ports -> 0..BrokenTime]
  /\ mu \in Reqs \cup {Unlocked} /\ todo \in SUBSET Names
  /\ conns \in [Conns -> Conn \cup {NoConn}]
  /\ stopped \in BOOLEAN

\* A public port belongs to one binding (sideport.go:79-81): the two maps
\* agree, so no two side ports are ever told the same port, whatever was
\* released, reactivated, taken over or dropped before.
MapsAgree ==
  /\ \A k \in Keys : byKey[k] # NoBinding => byPort[byKey[k].public] = k
  /\ \A p \in Ports : byPort[p] # NoKey =>
       byKey[byPort[p]] # NoBinding /\ byKey[byPort[p]].public = p

\* The process listens on exactly the ports of its active bindings
\* (sideport.go:244-291): no listener is leaked by a release, a takeover or
\* the sweep, and no announced port is dead.
ListenersMatch ==
  \A p \in Ports : socket[p] =
    IF byPort[p] # NoKey /\ byKey[byPort[p]].active THEN byPort[p] ELSE NoKey

\* Traffic that arrived on a port given to one owner is never forwarded to a
\* server of another (sideport.go:359-366), even when the id changes hands
\* while the connection waits.
NeverToAnotherOwner ==
  \A c \in Conns : conns[c] # NoConn => conns[c].to \in {NoConn, conns[c].owner}

\* "ReleaseGrace keeps a released port reserved for its previous owner"
\* (sideport.go:42-44), whatever the servers of the pool ask for: before the
\* grace period is over only a Sync of the same side port, or the end of Run,
\* takes a held port away or gives it to another.
GraceKept ==
  [][\A k \in Keys :
       (byKey[k] # NoBinding /\ ~byKey[k].active /\ byKey[k].held >= 0) =>
         \/ /\ byKey'[k] # NoBinding /\ byKey'[k].public = byKey[k].public
            /\ byPort'[byKey[k].public] = k
         \/ \E r \in Reqs, n \in todo \ todo' : mu = r /\ k = <<reqs[r].id, n>>
         \/ Stop]_vars

\* Serving(k): the binding of k works and its owner's registration wants it.
Serving(k) == Active(k) /\ StillRegistered(k)

\* "A port is released when the server stops declaring it, the server
\* unregisters, or the registration expires" (docs/side-ports.md:59-62): a
\* step that ends a binding finds its server gone, expired or not declaring
\* it.  Handlers of one server that overlap break it, because registry and
\* side ports change in separate critical sections (api.go:158-166, 193-196).
ReleasedOnlyWhenGone ==
  [][\A k \in Keys : Serving(k) /\ ~stopped' => byKey'[k] = byKey[k]]_vars

\* The registry changed since handler r left it: a server it removed is back,
\* or what it registered is gone, another owner's or declares other ports.
Overtaken(r) ==
  LET s == servers[reqs[r].id] IN
  \/ reqs[r].at = "removed" /\ s # NoServer
  \/ /\ reqs[r].at = "saved"
     /\ s = NoServer \/ s.owner # reqs[r].owner \/ s.ports # reqs[r].ports

\* The overlap is the only way: a binding whose registration still wants it is
\* ended by nothing but a handler of the same server that was overtaken
\* between the registry and Sync or Release.  No request for another server,
\* no handler that was not overtaken, and no sweep (sideport.go:162-184,
\* 314-356) takes a port in use from its server.
ReleasedOnlyByOvertaken ==
  [][\A k \in Keys : Serving(k) /\ ~stopped' /\ byKey'[k] # byKey[k] =>
       \E r \in Reqs : reqs[r] # NoReq /\ reqs[r].id = k[1] /\ Overtaken(r)]_vars

\* Run's sweep (sideport.go:314-356): a binding whose server left the
\* registry does not stay active for ever, even if a slow Sync brought it
\* back after Release.
OrphansReleased ==
  \A k \in Keys : Gone(k) ~> (~Gone(k) \/ stopped)
=============================================================================
