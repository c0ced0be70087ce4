# A TLA+ verification of vecta

vecta is a gateway for Minecraft servers: one public address in front of many
backends, which register themselves over HTTP (a Go agent or a Java jar inside
the server sends the heartbeats). The gateway pings backends, routes players to
them, forwards extra TCP/UDP "side ports", relays a cross-server chat and keeps
a small state file. These modules model the parts where goroutines, handlers,
timers, crashes and late answers meet; TLC checks them on small instances and
TLAPS proves nearly all of their safety properties for every instance.

## 1. Inventory

| Component | State | Operations | Interacts with |
|---|---|---|---|
| persistent store (`internal/store`) | map with expiry, `dirty`, file and temp file | Set, Get, Delete, Prune, Flush, Open, Run | routing writes remembered routes; `main` flushes at shutdown |
| per-IP limiter (`router/limits.go`) | token bucket and active count per address | acquire, release, sweep | every accepted player connection |
| registry and health (`internal/registry`) | servers with owner, lease, live state | Upsert, Remove, Get, List, Prune, SetHealth, RunHealthChecks, CheckOne | API handlers, routing, side ports |
| HTTP API (`internal/api`) | none of its own besides the broker | register, unregister, ticket, global post/poll | registry, side ports, router |
| side port manager (`sideport/sideport.go`) | `byKey`, `byPort`, `broken`, listeners | Sync, Release, sweep, Run, dial | registry (looked up again at sweep and dial) |
| forwarding (`sideport/forward.go`) | flows and connections per port, shared flow counter | serve, start, remove, expire, Close | closed by the manager's release and drop |
| global chat (`api/global.go`, `Commands.java`) | ring, seq, notify channel; the jar's position | publish, since, wait; pollLoop | long polls over HTTP |
| routing and lobby (`router/`) | pending tickets, sticky routes, lobby semaphore | handle, handleLogin, connect, dialogLoop, transfer, IssueTicket | registry, store, limiter, match |
| mod matching (`internal/match`) | none | Rank, Pick | routing |
| guard (`internal/guard`, `Guard.java`) | nonce cache of the jar | sign, Verify, nonceSeen | routing, health pings |
| agent and hooks (`internal/agent`) | applied assignments, state file | Run, call, apply, run, save | the API, the owner's callback |
| jar heartbeat (`Heartbeat.java`, `SidePorts.java`) | registered flag, saved ports, running hooks | beat, unregister, apply | the API |
| limbo (`internal/limbo`) | one session: frame channel, timers | Serve, login, loop, handleCommand | the lobby |
| protocol codec, metrics, address policy, jar internals | session or none | | |

What is hard in this code: handlers that take a lock, let it go and take it
again (register, unregister, `wait`, `expire`); results that arrive after the
state they were computed for is gone (pings, dials, release closures, polls);
crashes around the rename of the state file; shared caps checked under
different locks; restarts that reset numbering the other side remembers; a
login that looks at the registry and the store several times while both change;
sessions that wait for a client, a full channel and several timers at once.
`PROJECT.json` lists these hazards with their lines and the properties aimed at
them.

## 2. Modules

Each module has its state as variables named after the code's fields, one
action per critical section, `Next`, and at the end its properties. Operators
that come just before a definition and are named for a mistake
(`FailDropped`, `OwnershipIgnored`, `DroppedPortLeft`, ...) are mutants: used in
place of that definition they make a property fail; no specification uses them.

* **Store**: the map, the two callers of Flush (`Run` and `main`), the temp
  file and the file. A flush is six steps: lock `flushMu`, marshal under `mu`,
  truncate the temp file, write it, rename it, or fail at any of them. `Crash`
  and `Exit` lose memory and keep files; `Open` reads them back. `ver` numbers
  the changes (history), so "newer" can be said of a snapshot. Times are in
  ticks, several to the second, because Set truncates to seconds.
* **TokenBucket**: what the limiter promises, with nothing lazy and nothing
  forgotten. **Limiter**: the code, with lazy refill, `sweep`, and release
  closures that point to an `ipState` which may have left the table (`held`
  and `orphans`). `ImplementsBucket` is the refinement.
* **Registry**: registrations, the register handler in its separate steps (read
  the old registration, upsert, start a check), health rounds and the pings in
  flight. A lease counts down instead of comparing clocks, so time needs no
  bound. What a request body says of `online` is an input: the handler decodes the
  whole `Server`.
* **SidePorts**: extends Registry. `Sync` holds `Manager.mu` over one step per
  side port; `Released`, `Dropped`, `Allocated`, `Assigned` are the code's
  release, drop, try loop and assign on the tables. Opening fails on an
  arbitrary set of ports held by other programs. Connections are accepted by a
  listener and dialed later, after a second look at the registry. Health checks
  do not touch side ports and take no part.
* **UdpFlows**: the flow table of each open port, the shared counter, a goroutine
  per flow, `expire` in its two phases and `Close`. **TcpPort**: the connections of
  one port, its semaphore, `track` and the three phases of `Close`.
* **Broker**: the ring, the notify channel (closed only after the lock is
  released), `wait` in its separate critical sections, and the jar's poll loop
  with failing polls and gateway restarts.
* **Match**: version rules, loader families, required mods, score and the
  automatic pick, as operators on registrations and on what is known of a
  client. The code's sorted list is a set with an order (`Better`, `IsBest`).
* **Router** (extends Match): sessions from the login to the piped connection.
  Each look at the registry and each operation on the store is a step, so
  servers leave, entries expire, tickets are issued and another session of the
  player runs in between. What the probe learned is any part of what the client
  is (`Probes`). A session that transfers its client keeps its lobby slot until the
  client has left. `wish`, `undone` and `chosen` are history: the choice the
  gateway promised to remember, the players one of whose choices a `Clear` for an
  older one deleted, and the servers a player asked for or was given.
* **LobbySession**: what happens inside one such session in time: the session
  goroutine, the pump that fills the bounded channel, sends that block on a
  client that does not read, the timers and the deadline of the connection, for
  the lobby of 1.20.5+ clients and both kinds of limbo. Router's `LeaveLobby` is
  this module's `ended`.
* **Agent**: heartbeats, the hook per changed assignment, the state file,
  shutdown and crash, with requests that are served after they were given up.
  The gateway is reduced to what Registry and SidePorts promise: an assignment
  is kept while it lives, else the preferred port is given if it is free; `Forget`
  stands for a restart of the gateway, for the end of a grace period, and for a
  held port that cannot be opened again. `lost` and `clean` are history: side
  ports whose last callback was never saved, and a DELETE that was answered.
* **StoreProofs**, **LimiterProofs**, **RegistryProofs** (Registry and SidePorts),
  **UdpFlowsProofs**, **TcpPortProofs**, **BrokerProofs**, **RouterProofs**,
  **LobbyProofs**: the theorems.
* **MCSidePorts**, **MCUdpFlows** only add symmetry sets; **MCRouter** has the
  servers and clients of the routing instance. The other specifications are run directly with a `.cfg`.

## 3. Runs

| Run | Checks | Bounds |
|---|---|---|
| store | the file is always a complete snapshot (`TypeOK`), `CleanMeansSaved`, `FlushedIsDurable`, `NeverOlder`, `ExpiryWithinASecond`, `EventuallySaved` | one key, two changes, one failing operation, two starts, two seconds of two ticks: a change before, during and after a flush, a failure and a crash of each flusher all occur; keys do not influence each other |
| limiter | `CapHolds`, `WindowBound`, `RefusedOnlyAtCap`, `ImplementsBucket` | one address (addresses share nothing), bucket of two connections, cap two, six ticks: empty, refill, sweep and return occur |
| registry | `SeenAtItsAddress`, `HealthConverges` | one configured and one registered server, two addresses, a lease of one tick, a handler and its check besides the rounds, bodies that say online or offline |
| side_ports | `ListenersMatch`, `NeverToAnotherOwner`, `LeaseProtectsOwner`, `OrphansReleased` | one id wanted by two owners, two handlers, one port, one connection: takeover, reactivation, failed reopening occur, and the `Sync` of a registration that ends after the `Release` of the unregistration that followed it |
| side_ports_pool | `MapsAgree`, `GraceKept`, `ReleasedOnlyByOvertaken` | two servers and two ports, two handlers, of one server or of both: the pool is full while a port is held, and each server asks for the other's |
| udp_flows | `CountMatches`, `NoOrphanSocket`, `OvershootBounded` | two ports, two clients, three goroutines, flow objects that are replaced while old ones linger |
| tcp_port | `NoneSurvives`, `TokensMatch`, `HandlersEnd` | three connections, cap two |
| broker | `ShownInOrder`, `SkippedOnlyDropped`, `Delivered` | one jar (jars only read the broker), ring of two, three messages per run of the gateway, one restart, one failing poll |
| router | `AutoRouteFits`, `SlotsMatch`, `RouteWasChosen`, `ChoiceLostOnlyByClear` | a plugin server, a Forge pack, a Fabric pack and a hidden server; a Forge client with a limbo, a Quilt client that can be transferred, a Fabric client that lacks a required mod and can show a dialog; two sessions and logins, one change of the registry, one ticket, one lobby slot. Two logins are what a remembered choice, a cookie or a sticky route needs; the second session races the first |
| lobby | `PhaseAgreed`, `NeverCutOff`, `SessionEnds`, `ReaderEnds` | channel of one, three frames, waits of one or two ticks under a deadline of seven: every timer goes off before, with and after a frame, and the pump blocks on a full channel |
| agent | `NoNeedlessRun`, `HooksConverge`, `BackOnlyByGivenUpPut` | one side port (names share only the save), two public ports, two starts, one restart of the gateway |

Each module also states its type invariant. Store's, which says that the file is
never torn, is a property of its run; the others describe the state and are left
out of the runs. All of them but Agent's are proved.

One run is expected to fail and shows a disagreement between the code and what
the repository says of it:

* **broker_restart** (`NewAreShown`): a restarted gateway numbers from 1 again
  while jars keep the maximum of what they saw, so the first messages of the new
  run are never shown by them. `docs/owner-api.md:187` says that a jar shows new
  messages to its players.

Six more statements of the repository do not hold as they are written. Each is a
definition of its module, quoting its source, and TLC gives a counterexample in
seconds with the configuration named here; the passing runs check what the code
does guarantee in its place:

* `OnlineMeansChecked` (`MCRegistryBody.cfg`, module Registry;
  `registry.go:270`): the register handler decodes the whole
  `Server`, so a body with `"online": true` makes a new address online before any
  ping. The next round corrects it, which is what `HealthConverges` says.
* `ReleasedOnlyWhenGone` (`MCSidePortsOverlap.cfg`, MCSidePorts;
  `docs/side-ports.md:59-62`): with two overlapping requests for
  one id, the `Sync` or `Release` of the older runs last and releases a port the
  newer registration declares, until the next heartbeat.
  `ReleasedOnlyByOvertaken` says that this is the only way.
* `ChoiceSurvives` (`MCRouterChoice.cfg`, MCRouter; `docs/owner-api.md:132-133`): a login gets one remembered choice, a ticket
  stores another, the login clears it. `ChoiceLostOnlyByClear` says that nothing
  else loses a choice.
* `RejectedSkipped` (`MCRouterRejected.cfg`, MCRouter; `README.md:79-80`): `stickyServer` and the lobby look at a
  refused mod list, `onlyServerFor` does not; once every other server has left, the
  player is sent to the server the client refused.
* `GoneAfterStop` (`MCAgentStop.cfg`, Agent; `README.md:276-277`): a PUT given up
  at shutdown may follow the DELETE; the server stays registered until its lease
  ends. `BackOnlyByGivenUpPut` says that nothing else brings it back.
* `EveryChangeTold` (`MCAgentUnsaved.cfg`, Agent; `hooks.go:71-72`,
  `docs/side-ports.md:125`): an agent that ends between a callback and
  the save of the state file (or whose save failed) believes the older state; if
  the gateway then gives the older port again, which the agent asks for, the
  callback is not run and the mod keeps the other one. `HooksConverge` shows
  that all other side ports converge.

Two passing properties allow for something a reader may not expect:

* `wait` looks for messages and reads the channel in two critical sections; a
  publish in between leaves the poll asleep until the next message or the 25 s
  deadline (`Delivered` shows that nothing is lost by it);
* a pump whose channel is full when its session ends stays for ever
  (`ReaderEnds` says that this is the only way).

The cap on UDP flows across all ports is likewise not exact: `admit` holds only
its own port's lock. `OvershootBounded` states the bound that does hold.

**Deadlock** is checked where the program runs for ever (registry, side ports,
broker). It is off for the store and the limiter, whose clocks and change
counts are bounded, for the ports, which stay closed once closed, and for
router, lobby and agent, whose logins, sessions and starts are bounded.

**Fairness.** Store: the ticker fires, goroutines inside Flush run on, a Go mutex
is handed over (strong fairness on `LockFlush`); nothing is asked of callers,
failures or crashes. Registry: rounds go on and a ping ends (it has a 5 s
timeout). SidePorts: a handler that holds the lock goes on, time passes, the
sweep's goroutine gets the mutex (strong fairness, because handlers may take it
between). TcpPort: goroutines run, dials end (5 s), a copy that uses a closed
socket ends; peers owe nothing. Broker: handlers and the poll loop run on and
the deadline comes; failing polls are bounded. LobbySession: goroutines run and
time passes, and a timer that is due goes off before more time passes; a client
owes nothing, a blocked send need never resume. Agent: the loop runs on (calls
and hooks have timeouts); a heartbeat repeated for ever is answered and a hook
retried for ever succeeds some time (strong fairness; without them nothing can
converge); a request under way arrives or is lost.

## 4. Proofs

Proved with TLAPS for every value of the constants that satisfies the named
assumptions of the modules:

* **StoreProofs.** `TypeCorrect`, `Durability` (`FlushedIsDurable`), `CleanIsSaved`,
  `FileMonotone` (`NeverOlder`). None of these is inductive: the invariant adds
  that a flusher past the lock owns `flushMu`, that the version of the snapshot
  it holds lies between the file's and memory's, that the temp file is that
  snapshot when it is about to be renamed, and that whenever `dirty` is clear
  memory is equal to the file or to the snapshot in flight. From it each
  property is one step. `ExpiryCorrect` (`ExpiryWithinASecond`) needs a second
  invariant: an entry with a deadline holds the second that deadline falls in,
  never second 0, which means "keep for ever"; entries return from the file
  after a restart, so this is kept for the snapshots in flight, the temp file
  and the file too.
* **LimiterProofs.** `TypeCorrect`, `CapCorrect`, `WindowCorrect`,
  `RefusalsCorrect`, and `LimiterImplementsBucket`: every step of the limiter is
  a step of the token bucket or a stutter. The invariant says that no
  connection is ever orphaned by a sweep, that `active` equals the open
  connections, and that tokens spent in a window plus the level of the bucket
  are bounded by burst plus elapsed time.
* **RegistryProofs.** `TypeCorrect`, `SeenCorrect`, `LeaseCorrect`. The invariant
  ties the live state of each server to its present address and each handler to
  its body.
  For SidePorts it proves `PortsTypes`, `MapsAgreeAlways`,
  `ListenersMatchAlways`, `NeverToAnotherOwnerAlways`, `GraceKeptAlways` and
  `ReleasedOnlyByOvertakenAlways`, for any servers, owners and overlapping
  handlers. The tables are reasoned about as one value: `Sound` (the maps are
  inverse and listeners match) is kept by `Dropped`, `Allocated`, `Assigned`,
  `Released`, the sweep and the clock, each a lemma, and every action changes the
  tables by one of these. For the last theorem each of these is shown to leave
  the bindings of other side ports alone, so that a binding in use can only be
  ended by a handler of its own server, and by that only if the registry no
  longer is as the handler left it.
* **UdpFlowsProofs.** `UdpTypes`, `CountMatchesAlways`, `NoOrphanSocketAlways`,
  `OvershootBoundedAlways`, for any ports, clients, flows and cap. The counter
  is inductive only with the fact that the entry `serve` is about to fill stays
  empty while it holds the lock; the overshoot with a reservation argument: the
  flows counted and the ports past the check of the cap are together at most
  the cap and one flow for each further port.
* **TcpPortProofs.** `TcpTypes`, `TokensMatchAlways`, `NoneSurvivesAlways`, for
  any connections and cap. `NoneSurvives` needs that a tracked socket that is
  still open is known to the port or to the `Close` under way.
* **BrokerProofs.** `BrokerTypes`, `ShownInOrderAlways`,
  `SkippedOnlyDroppedAlways`, for any jars, ring size, messages, restarts and
  failing polls. The invariant relates a jar's position to what it has shown in
  this and in earlier runs, and each answer under way to the ring of the run
  that sent it.
* **LobbyProofs.** `LobbyTypes`, `PhaseAgreedAlways`, `NeverCutOffAlways`, for any
  channel, frames and waits. Every frame in the channel was received, and each
  place tells which acknowledgements came before. `NeverCutOff` needs time: for
  each place the latest moment a session can be there (`Late`), a sum of the
  waits before it, so that every wait ends before the deadline. The
  assumption on the waits (`WaitsAssumption`) is what the constants in the code
  satisfy.
* **RouterProofs.** `TypeCorrect`, `UnaskedCorrect` (`AutoRouteFits`),
  `SlotsCorrect` (`SlotsMatch`), `ChosenCorrect` (`RouteWasChosen`) and
  `ChoiceCorrect` (`ChoiceLostOnlyByClear`), for any servers, clients, sessions and
  tickets. First matching is shown sound: a sure and compatible candidate for
  anything the gateway may have learned of a client (`Knowledge`) suits the client
  itself, which rests on the assumption that a client names its own loader.
  The invariant then says for each place of a session how it came by its route
  (`Owed`) and that whatever is kept for a player was chosen by that player
  (`Kept`); `SlotsMatch` and `ChoiceLostOnlyByClear` are inductive beside the types.

Only model-checked: liveness (`EventuallySaved`, `HealthConverges`,
`OrphansReleased`, `HandlersEnd`, `Delivered`, `SessionEnds`, `ReaderEnds`,
`HooksConverge`), which the prover does not treat, and
`NoNeedlessRun` and `BackOnlyByGivenUpPut` of Agent, which has no proof module.

## 5. Not modelled

A machine crash (the store never calls fsync); rounding of float64 tokens;
request validation and message text; side ports of servers in the configuration
file (synced once, before the API starts); health rounds shorter than the ping
timeout; TCP peers that vanish without closing. In routing: status answers and
the personalised MOTD, texts, the MAC of a cookie (clients present only cookies
the gateway signed), a gateway without a public address (IssueTicket then
refuses), and a registration whose mods, versions or
hidden flag change between a choice and the connection (a server's presence and
state do change). A side port that keeps its name and changes its protocol. In the lobby: packet contents. In the agent: the scan of mods, an
unreadable state file (the agent starts fresh and runs the hooks again), and a
failing hook that had an effect all the same. The guard's header check is
arithmetic and cryptography on one connection with one bounded cache; the jar's
heartbeat is the agent's counterpart in Java. The codec, packet tables, metrics,
PROXY parsing, address policy and the jar's reflection code have no shared state
to model and are covered by unit tests.

## 6. Plan

1. **Proofs**: `NoNeedlessRun` and `BackOnlyByGivenUpPut` of Agent, the safety
   properties without a theorem.
2. **Composition**: a lobby session of LobbySession inside Router's sessions, and
   the agent against Registry and SidePorts instead of the reduced gateway.
3. **Jar**: the heartbeat's threads and shutdown hook.
