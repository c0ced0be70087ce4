------------------------------- MODULE Router -------------------------------
(***************************************************************************)
(* internal/router: how a player's connection finds its server.  A login   *)
(* tries the route cookie, the host name, the remembered choice, the last  *)
(* server and the only candidate, in this order, and else opens the lobby, *)
(* which matches the client or lets the player choose; tickets of the      *)
(* owner API add cookies and remembered choices.                           *)
(*                                                                         *)
(* One action per critical section: every look at the registry and every   *)
(* operation on the store is a step of its own, so registrations, health,  *)
(* expiry, tickets and other connections of the same player come between.  *)
(* Frames inside a lobby session are in module LobbySession, connection    *)
(* limits in Limiter, the store in Store: here its entries may expire at   *)
(* any moment.                                                             *)
(***************************************************************************)
EXTENDS Match

CONSTANTS
  Clients,          \* player -> what the client really is
  Conns,
  Hosts,            \* the hosts players type, of the base domain, "lobby" and servers
  Proto1_20_5,      \* clients that can be transferred
  Proto1_21_6,      \* clients that can show a dialog
  LimboProtocols,   \* limbo.Supported
  AutoMinScore, AutoMargin,
  ForgeModQuery,    \* cfg.ForgeModQuery
  StickyEnabled,    \* cfg.StickyTTL > 0
  MaxLobbySessions,
  NoCookie,         \* the client has no cookie, or no readable answer came
  MaxLogins,        \* bound on connections
  MaxChanges,       \* bound on changes of the registry
  MaxTickets        \* bound on tickets

LobbyRoute == -1    \* "lobby", as a host and as a route
Plain == NoServer   \* the base domain as a host
Players == DOMAIN Clients
Routes == Ids \cup {LobbyRoute}

ASSUME RouterAssumption ==
  /\ Players # {} /\ IsFiniteSet(Conns)
  /\ Hosts \subseteq Routes \cup {Plain}
  /\ MaxLobbySessions \in Nat \ {0}
  /\ MaxLogins \in Nat /\ MaxChanges \in Nat /\ MaxTickets \in Nat
  /\ AutoMinScore \in Nat /\ AutoMargin \in Nat
  /\ StickyEnabled \in BOOLEAN /\ ForgeModQuery \in BOOLEAN

\* A client names its own loader in its brand and in its handshake marker.
ASSUME ClientsAssumption ==
  \A p \in Players :
    /\ Clients[p].brand # "other" => Clients[p].brand = Clients[p].loader
    /\ Clients[p].marker # "none" => Family(Clients[p].loader, Clients[p].protocol) = "forge"

VARIABLES
  reg,       \* the registry: "gone", "offline" or "online"
  pending,   \* bucket pending: player -> server chosen
  sticky,    \* bucket sticky: player -> server last routed to
  rejected,  \* bucket forge-rejected: player -> servers whose mod list it refused
  cookies,   \* signed route cookies that have not expired
  conn,      \* the sessions
  slots,     \* length of lobbySlots
  ticket,    \* IssueTicket between its look at the registry and pending.Set
  logins, changes, tickets,
  wish,      \* history: the choice the gateway last promised to remember
  undone,    \* history: players whose wish a Clear for an older choice deleted
  chosen     \* history: the servers each player asked for or was given

vars == <<reg, pending, sticky, rejected, cookies, conn, slots, ticket,
          logins, changes, tickets, wish, undone, chosen>>
history == <<wish, undone, chosen>>
store == <<pending, sticky, rejected>>
bounds == <<logins, changes, tickets>>

Cookie == [route : Routes, player : Players]

Closed(p) == [pc |-> "idle", player |-> p, host |-> Plain, route |-> NoServer,
              via |-> "none", force |-> FALSE]
AnyPlayer == CHOOSE p \in Players : TRUE
Idle == Closed(AnyPlayer)

NoTicket == [player |-> AnyPlayer, route |-> NoServer]

Init ==
  /\ reg \in [Ids -> {"online"}]
  /\ pending = [p \in Players |-> NoServer]
  /\ sticky = [p \in Players |-> NoServer]
  /\ rejected = [p \in Players |-> {}]
  /\ cookies = {}
  /\ conn = [c \in Conns |-> Idle]
  /\ slots = 0
  /\ ticket = NoTicket
  /\ logins = 0 /\ changes = 0 /\ tickets = 0
  /\ wish = [p \in Players |-> NoServer] /\ undone = {}
  /\ chosen = [p \in Players |-> {}]

-----------------------------------------------------------------------------
(* What the gateway knows of a client, and of the servers.                  *)

Protocol(p) == Clients[p].protocol

HandshakeClient(p) ==
  [protocol |-> Protocol(p),
   loader |-> IF Clients[p].marker = "none" THEN "unknown" ELSE "forge",
   mods |-> NoMods]

BrandLoader(brand) ==
  IF brand \in {"quilt", "fabric", "neoforge", "forge", "vanilla"} THEN brand ELSE "unknown"

\* What probeClient may collect in its window: the brand or not, the answer to
\* the NeoForge query or not, some of the channels.
Probes(p) ==
  [brand : BOOLEAN, neoforge : {n \in BOOLEAN : n => Clients[p].loader = "neoforge"},
   channels : SUBSET Clients[p].mods]

Probed(p, probe) ==
  LET named == IF probe.brand THEN BrandLoader(Clients[p].brand) ELSE "unknown"
      loader == IF probe.neoforge THEN "neoforge"
                ELSE IF named # "unknown" THEN named ELSE HandshakeClient(p).loader
  IN [protocol |-> Protocol(p),
      loader |-> loader,
      mods |-> IF loader = "vanilla" THEN {}
               ELSE IF probe.channels # {} THEN probe.channels ELSE NoMods]

VisibleOnline == {id \in Ids : reg[id] = "online" /\ ~Servers[id].hidden}

\* reg.Get succeeds, the server is online and accepts the client's version.
Available(p, id) == reg[id] = "online" /\ Accepts(Servers[id], Protocol(p))

StickyServer(p, id) ==
  /\ Available(p, id)
  /\ id \notin rejected[p]
  /\ Rank(HandshakeClient(p), {id}) # {}

OnlyServerFor(p) ==
  LET accepting == {id \in VisibleOnline : Accepts(Servers[id], Protocol(p))} IN
  {id \in accepting : accepting = {id} /\ Compatible(HandshakeClient(p), Servers[id])
                                       /\ Certain(HandshakeClient(p), Servers[id])}

VerifyRouteUnbound(ck, p) == IF ck = NoCookie THEN NoServer ELSE ck.route

\* verifyRoute: the route of a cookie signed for this player, else NoServer.
VerifyRoute(ck, p) ==
  IF ck = NoCookie THEN NoServer ELSE IF ck.player = p THEN ck.route ELSE NoServer

-----------------------------------------------------------------------------
(* Steps of a session.                                                      *)

At(c, place) == conn[c].pc = place

Goto(c, place) == conn' = [conn EXCEPT ![c].pc = place]

GotoWith(c, place, id, via) ==
  conn' = [conn EXCEPT ![c].pc = place, ![c].route = id, ![c].via = via]

\* handle returns: its deferred functions close the connection.
Close(c) == conn' = [conn EXCEPT ![c] = Idle]

ByHost(s) ==
  CASE s.host = LobbyRoute -> [s EXCEPT !.pc = "lobby", !.force = TRUE]
    [] s.host \in Ids -> [s EXCEPT !.pc = "connect", !.route = s.host, !.via = "subdomain"]
    [] OTHER -> [s EXCEPT !.pc = "pending"]

\* handle and handleLogin up to the first look at shared state.
Login(c, p, host, transfer) ==
  /\ At(c, "idle") /\ logins < MaxLogins
  /\ transfer => Protocol(p) >= Proto1_20_5
  /\ LET s == [Closed(p) EXCEPT !.host = host] IN
     conn' = [conn EXCEPT ![c] = IF transfer THEN [s EXCEPT !.pc = "cookie"] ELSE ByHost(s)]
  /\ logins' = logins + 1
  /\ UNCHANGED <<reg, store, cookies, slots, ticket, changes, tickets, history>>

\* The client answers the cookie request, with any cookie it was given.
ReadRouteCookie(c) ==
  /\ At(c, "cookie")
  /\ \E ck \in cookies \cup {NoCookie} :
       LET s == conn[c]  route == VerifyRoute(ck, s.player) IN
       conn' = [conn EXCEPT ![c] =
         CASE route = LobbyRoute -> [s EXCEPT !.pc = "lobby", !.force = TRUE]
           [] route \in Ids -> [s EXCEPT !.pc = "connect", !.route = route, !.via = "cookie"]
           [] OTHER -> ByHost(s)]
  /\ UNCHANGED <<reg, store, cookies, slots, ticket, bounds, history>>

GetPending(c) ==
  LET id == pending[conn[c].player] IN
  /\ At(c, "pending")
  /\ IF id = NoServer THEN Goto(c, "sticky") ELSE GotoWith(c, "check", id, "pending")
  /\ UNCHANGED <<reg, store, cookies, slots, ticket, bounds, history>>

CheckPending(c) ==
  /\ At(c, "check")
  /\ IF Available(conn[c].player, conn[c].route)
     THEN Goto(c, "clear") ELSE GotoWith(c, "sticky", NoServer, "none")
  /\ UNCHANGED <<reg, store, cookies, slots, ticket, bounds, history>>

\* Clear deletes whatever is remembered now, also a choice made since Get.
ClearPending(c) ==
  LET p == conn[c].player IN
  /\ At(c, "clear")
  /\ pending' = [pending EXCEPT ![p] = NoServer]
  /\ undone' = IF pending[p] \in {conn[c].route, NoServer} THEN undone ELSE undone \cup {p}
  /\ Goto(c, "connect")
  /\ UNCHANGED <<reg, sticky, rejected, cookies, slots, ticket, bounds, wish, chosen>>

\* stickyServer: read the route, then look at the registry and the rejections.
GetSticky(c) ==
  LET id == sticky[conn[c].player] IN
  /\ At(c, "sticky")
  /\ IF ~StickyEnabled \/ id = NoServer
     THEN Goto(c, "only") ELSE GotoWith(c, "checkSticky", id, "sticky")
  /\ UNCHANGED <<reg, store, cookies, slots, ticket, bounds, history>>

CheckSticky(c) ==
  /\ At(c, "checkSticky")
  /\ IF StickyServer(conn[c].player, conn[c].route)
     THEN Goto(c, "connect") ELSE GotoWith(c, "only", NoServer, "none")
  /\ UNCHANGED <<reg, store, cookies, slots, ticket, bounds, history>>

OnlyCandidate(c) ==
  LET only == OnlyServerFor(conn[c].player) IN
  /\ At(c, "only")
  /\ \/ only = {} /\ Goto(c, "lobby")
     \/ \E id \in only : GotoWith(c, "connect", id, "only-candidate")
  /\ UNCHANGED <<reg, store, cookies, slots, ticket, bounds, history>>

-----------------------------------------------------------------------------
(* connect and pipe.                                                        *)

\* A player who is told that the server is gone has had the remembered choice.
Connect(c) ==
  LET p == conn[c].player  id == conn[c].route IN
  /\ At(c, "connect")
  /\ \/ /\ Available(p, id)
        /\ Goto(c, IF StickyEnabled THEN "stick" ELSE "dial")
        /\ chosen' = [chosen EXCEPT ![p] =
             IF conn[c].via \in {"subdomain", "only-candidate"} THEN @ \cup {id} ELSE @]
        /\ UNCHANGED wish
     \/ /\ ~Available(p, id)
        /\ Close(c)
        /\ wish' = [wish EXCEPT ![p] =
             IF @ = id /\ conn[c].via = "pending" /\ pending[p] # id THEN NoServer ELSE @]
        /\ UNCHANGED chosen
  /\ UNCHANGED <<reg, store, cookies, slots, ticket, bounds, undone>>

StickForgotten(c) ==
  /\ At(c, "stick")
  /\ Goto(c, "dial")
  /\ UNCHANGED <<reg, store, cookies, slots, ticket, bounds, history>>

\* SetSticky comes before the dial.  A player who now goes elsewhere gives up
\* a choice that is no longer pending.
Stick(c) ==
  LET p == conn[c].player  id == conn[c].route IN
  /\ At(c, "stick")
  /\ sticky' = [sticky EXCEPT ![p] = id]
  /\ wish' = [wish EXCEPT ![p] = IF @ = id \/ pending[p] = @ THEN @ ELSE NoServer]
  /\ Goto(c, "dial")
  /\ UNCHANGED <<reg, pending, rejected, cookies, slots, ticket, bounds, undone, chosen>>

\* pipe: no guard key, no connection, or a write that fails; or bytes flow.
Dial(c) ==
  LET p == conn[c].player  id == conn[c].route IN
  /\ At(c, "dial")
  /\ \/ Close(c) /\ UNCHANGED wish
     \/ Goto(c, "piped") /\ wish' = [wish EXCEPT ![p] = IF @ = id THEN NoServer ELSE @]
  /\ UNCHANGED <<reg, store, cookies, slots, ticket, bounds, undone, chosen>>

\* One side closes and the copies end.
PipeEnds(c) ==
  /\ At(c, "piped") /\ Close(c)
  /\ UNCHANGED <<reg, store, cookies, slots, ticket, bounds, history>>

-----------------------------------------------------------------------------
(* The lobby.  Every way out releases the slot.                             *)

SlotsFull == slots = MaxLobbySessions

EnterLobby(c) ==
  LET p == conn[c].player IN
  /\ At(c, "lobby")
  /\ \/ SlotsFull /\ Close(c) /\ UNCHANGED slots
     \/ /\ ~SlotsFull
        /\ slots' = slots + 1
        /\ Goto(c, CASE Protocol(p) >= Proto1_20_5 -> "config"
                     [] Protocol(p) < Proto1_20_5 /\ Clients[p].marker \in {"FML2", "FML3"} -> "probe"
                     [] OTHER -> "rank")
  /\ UNCHANGED <<reg, store, cookies, ticket, bounds, history>>

LeaveLobbyHolding(c) == Close(c) /\ slots' = IF At(c, "query") THEN slots ELSE slots - 1

LeaveLobby(c) == Close(c) /\ slots' = slots - 1

\* pending.Set, then the disconnect screen asks the player to reconnect.
Remember(c) ==
  LET p == conn[c].player  id == conn[c].route IN
  /\ At(c, "remember")
  /\ pending' = [pending EXCEPT ![p] = id]
  /\ wish' = [wish EXCEPT ![p] = id] /\ undone' = undone \ {p}
  /\ chosen' = [chosen EXCEPT ![p] = @ \cup {id}]
  /\ LeaveLobby(c)
  /\ UNCHANGED <<reg, sticky, rejected, cookies, ticket, bounds>>

\* forgeModQuery picks the backend whose channel list is presented.
ForgeModQueryStart(c) ==
  LET p == conn[c].player
      probes == {x \in Rank(HandshakeClient(p), VisibleOnline) :
                   Servers[x.id].forgeChannels /\ x.id \notin rejected[p]}
  IN
  /\ At(c, "probe")
  /\ \/ \E x \in probes : IsBest(x, probes) /\ GotoWith(c, "query", x.id, "probe")
     \/ probes = {} /\ IF ForgeModQuery THEN GotoWith(c, "query", NoServer, "probe")
                                            ELSE Goto(c, "rank")
  /\ UNCHANGED <<reg, store, cookies, slots, ticket, bounds, history>>

\* The client refuses the list, or no answer can be read.
ForgeModQueryFails(c) ==
  LET p == conn[c].player  id == conn[c].route IN
  /\ At(c, "query")
  /\ rejected' = [rejected EXCEPT ![p] = IF id = NoServer THEN @ ELSE @ \cup {id}]
  /\ LeaveLobby(c)
  /\ UNCHANGED <<reg, pending, sticky, cookies, ticket, bounds, history>>

\* The rest of lobbyLogin, with what is known of the client.
RankLogin(c, client) ==
  LET p == conn[c].player
      cands == {x \in Rank(client, VisibleOnline) : x.id \notin rejected[p]}
      limbo == Protocol(p) \in LimboProtocols
      pick == IF conn[c].force /\ limbo THEN NoServer ELSE Pick(cands, AutoMinScore, AutoMargin)
  IN
  /\ \/ /\ pick # NoServer
        /\ GotoWith(c, "remember", pick, "match") /\ UNCHANGED slots
     \/ /\ pick = NoServer /\ (cands = {} \/ ~limbo)
        /\ LeaveLobby(c)
     \/ /\ pick = NoServer /\ cands # {} /\ limbo
        /\ GotoWith(c, "limbo", NoServer, "none") /\ UNCHANGED slots
  /\ UNCHANGED <<reg, store, cookies, ticket, bounds, history>>

RankUnprobed(c) == At(c, "rank") /\ RankLogin(c, HandshakeClient(conn[c].player))

ForgeModQueryAnswered(c) ==
  LET p == conn[c].player IN
  At(c, "query") /\ RankLogin(c, [HandshakeClient(p) EXCEPT !.mods = Clients[p].mods])

\* /join in the limbo: any identifier can be typed; a refusal keeps the menu.
LimboChoose(c) ==
  /\ At(c, "limbo")
  /\ \E id \in Ids : Available(conn[c].player, id) /\ GotoWith(c, "remember", id, "choice")
  /\ UNCHANGED <<reg, store, cookies, slots, ticket, bounds, history>>

\* The player leaves, or a wait of the session runs out.
LobbyEnds(c) ==
  /\ conn[c].pc \in {"limbo", "config", "dialog", "leaving"}
  /\ LeaveLobby(c)
  /\ UNCHANGED <<reg, store, cookies, ticket, bounds, history>>

\* lobbyConfig: the probe is over; match, guess, or show the dialog.
LobbyConfig(c) ==
  LET p == conn[c].player  dialog == Protocol(p) >= Proto1_21_6 IN
  /\ At(c, "config")
  /\ \E probe \in Probes(p) :
       LET cands == Rank(Probed(p, probe), VisibleOnline)
           pick == IF conn[c].force /\ dialog THEN NoServer ELSE Pick(cands, AutoMinScore, AutoMargin)
       IN \/ /\ pick # NoServer
             /\ GotoWith(c, "transfer", pick, "match") /\ UNCHANGED slots
          \/ /\ pick = NoServer /\ cands = {}
             /\ LeaveLobby(c)
          \/ /\ pick = NoServer /\ ~dialog
             /\ \E x \in cands : IsBest(x, cands) /\ GotoWith(c, "remember", x.id, "guess")
             /\ UNCHANGED slots
          \/ /\ pick = NoServer /\ cands # {} /\ dialog
             /\ Goto(c, "dialog") /\ UNCHANGED slots
  /\ UNCHANGED <<reg, store, cookies, ticket, bounds, history>>

\* A click in the dialog names a server; an unavailable one ends the session.
DialogChoose(c) ==
  /\ At(c, "dialog")
  /\ \E id \in Ids :
       \/ Available(conn[c].player, id) /\ GotoWith(c, "transfer", id, "choice") /\ UNCHANGED slots
       \/ ~Available(conn[c].player, id) /\ LeaveLobby(c)
  /\ UNCHANGED <<reg, store, cookies, ticket, bounds, history>>

SignRoute(p, route) ==
  /\ cookies' = cookies \cup {[route |-> route, player |-> p]}
  /\ chosen' = [chosen EXCEPT ![p] = @ \cup ({route} \cap Ids)]

\* transfer: the cookie is signed and sent; the session waits for the client
\* to leave, and keeps its slot meanwhile.
Transfer(c) ==
  /\ At(c, "transfer")
  /\ SignRoute(conn[c].player, conn[c].route)
  /\ Goto(c, "leaving")
  /\ UNCHANGED <<reg, store, slots, ticket, bounds, wish, undone>>

-----------------------------------------------------------------------------
(* IssueTicket, and the environment.                                        *)

IssueTicket(p, target) ==
  /\ tickets < MaxTickets /\ tickets' = tickets + 1
  /\ ticket = NoTicket
  /\ target \in Ids => Available(p, target)
  /\ \/ /\ Protocol(p) >= Proto1_20_5
        /\ SignRoute(p, target)
        /\ UNCHANGED <<pending, ticket, wish, undone>>
     \/ /\ Protocol(p) < Proto1_20_5 /\ target = LobbyRoute
        /\ pending' = [pending EXCEPT ![p] = NoServer]
        /\ wish' = [wish EXCEPT ![p] = NoServer]
        /\ UNCHANGED <<cookies, ticket, undone, chosen>>
     \/ /\ Protocol(p) < Proto1_20_5 /\ target \in Ids
        /\ ticket' = [player |-> p, route |-> target]
        /\ UNCHANGED <<pending, cookies, history>>
  /\ UNCHANGED <<reg, sticky, rejected, conn, slots, logins, changes>>

TicketRemember ==
  LET p == ticket.player IN
  /\ ticket # NoTicket
  /\ pending' = [pending EXCEPT ![p] = ticket.route]
  /\ wish' = [wish EXCEPT ![p] = ticket.route] /\ undone' = undone \ {p}
  /\ chosen' = [chosen EXCEPT ![p] = @ \cup {ticket.route}]
  /\ ticket' = NoTicket
  /\ UNCHANGED <<reg, sticky, rejected, cookies, conn, slots, bounds>>

\* A registration, an unregistration, or the result of a health check.
RegistryChange(id) ==
  /\ changes < MaxChanges /\ changes' = changes + 1
  /\ \E st \in {"gone", "offline", "online"} \ {reg[id]} : reg' = [reg EXCEPT ![id] = st]
  /\ UNCHANGED <<store, cookies, conn, slots, ticket, logins, tickets, history>>

\* An entry of the store or a cookie reaches its time.  A choice that is no
\* longer kept anywhere is no longer promised.
Expire(p) ==
  /\ \/ /\ pending[p] # NoServer /\ pending' = [pending EXCEPT ![p] = NoServer]
        /\ UNCHANGED <<sticky, rejected, cookies>>
     \/ /\ sticky[p] # NoServer /\ sticky' = [sticky EXCEPT ![p] = NoServer]
        /\ UNCHANGED <<pending, rejected, cookies>>
     \/ /\ rejected[p] # {} /\ \E id \in rejected[p] : rejected' = [rejected EXCEPT ![p] = @ \ {id}]
        /\ UNCHANGED <<pending, sticky, cookies>>
     \/ /\ \E ck \in cookies : ck.player = p /\ cookies' = cookies \ {ck}
        /\ UNCHANGED store
  /\ wish' = [wish EXCEPT ![p] = IF @ \in {pending'[p], sticky'[p]} THEN @ ELSE NoServer]
  /\ UNCHANGED <<reg, conn, slots, ticket, bounds, undone, chosen>>

LobbyStep(c) ==
  \/ EnterLobby(c) \/ Remember(c) \/ ForgeModQueryStart(c) \/ ForgeModQueryFails(c)
  \/ ForgeModQueryAnswered(c) \/ RankUnprobed(c) \/ LimboChoose(c) \/ LobbyConfig(c)
  \/ DialogChoose(c) \/ Transfer(c) \/ LobbyEnds(c)

RouteStep(c) ==
  \/ ReadRouteCookie(c) \/ GetPending(c) \/ CheckPending(c) \/ ClearPending(c)
  \/ GetSticky(c) \/ CheckSticky(c) \/ OnlyCandidate(c)
  \/ Connect(c) \/ Stick(c) \/ Dial(c) \/ PipeEnds(c)

Next ==
  \/ \E c \in Conns :
       \/ \E p \in Players, h \in Hosts, t \in BOOLEAN : Login(c, p, h, t)
       \/ RouteStep(c) \/ LobbyStep(c)
  \/ \E p \in Players : (\E t \in Routes : IssueTicket(p, t)) \/ Expire(p)
  \/ TicketRemember
  \/ \E id \in Ids : RegistryChange(id)

Spec == Init /\ [][Next]_vars

-----------------------------------------------------------------------------
LobbyPlaces == {"probe", "query", "rank", "remember", "limbo", "config", "dialog",
                "transfer", "leaving"}
Places == LobbyPlaces \cup {"idle", "cookie", "pending", "check", "clear", "sticky",
            "checkSticky", "only", "connect", "stick", "dial", "piped", "lobby"}

Session == [pc : Places, player : Players, host : Routes \cup {Plain},
            route : Ids \cup {NoServer}, force : BOOLEAN,
            via : {"none", "cookie", "subdomain", "pending", "sticky", "only-candidate",
                   "match", "guess", "choice", "probe"}]

\* Every variable has its type.
TypeOK ==
  /\ reg \in [Ids -> {"gone", "offline", "online"}]
  /\ pending \in [Players -> Ids \cup {NoServer}]
  /\ sticky \in [Players -> Ids \cup {NoServer}]
  /\ rejected \in [Players -> SUBSET Ids]
  /\ cookies \subseteq Cookie
  /\ conn \in [Conns -> Session]
  /\ slots \in 0..MaxLobbySessions
  /\ ticket \in [player : Players, route : Ids \cup {NoServer}]
  /\ logins \in Nat /\ changes \in Nat /\ tickets \in Nat
  /\ wish \in [Players -> Ids \cup {NoServer}] /\ undone \subseteq Players
  /\ chosen \in [Players -> SUBSET Ids]

\* What the README's Matching section says of joining: the version is
\* accepted, the loader is the server's family where the server needs one,
\* and every required mod is there.  About the client as it is, not as it is known.
CanPlay(c, s) ==
  /\ Accepts(s, c.protocol)
  /\ NeedsLoader(s, c.protocol) => Family(c.loader, c.protocol) = Family(s.loader, c.protocol)
  /\ Required(s) \subseteq ModSet(c.mods)

\* A player sent somewhere without being asked (lobby.go:56 and 256,
\* router.go:451) can play there and the server is not hidden, however little
\* the handshake, the mod query and the probe told the gateway.
AutoRouteFits ==
  \A c \in Conns : conn[c].via \in {"match", "only-candidate"} =>
    CanPlay(Clients[conn[c].player], Servers[conn[c].route]) /\ ~Servers[conn[c].route].hidden

\* The lobby semaphore (lobby.go:18-25) counts exactly the sessions in the
\* lobby: no way out keeps a slot and none gives back another's.
SlotsMatch == slots = Cardinality({c \in Conns : conn[c].pc \in LobbyPlaces})

\* A player is routed by cookie, remembered choice or last server only to a
\* server that this player asked for or was given (cookie.go:17-18, keys of
\* pending.go:31-62), whatever other players do meanwhile.
RouteWasChosen ==
  \A c \in Conns :
    /\ conn[c].pc \in {"connect", "stick", "dial", "piped"}
    /\ conn[c].via \in {"cookie", "pending", "sticky"}
    => conn[c].route \in chosen[conn[c].player]

\* A join on this player's remembered choice is under way.
Rejoining(p) ==
  \E c \in Conns : /\ conn[c].player = p /\ conn[c].route = wish[p]
                   /\ conn[c].via = "pending" /\ conn[c].pc \in {"connect", "stick"}

\* The wish of p, if any, is pending, or the sticky route leads there, or a
\* join is under way on it.
WishKept(p) ==
  wish[p] # NoServer => pending[p] = wish[p] \/ sticky[p] = wish[p] \/ Rejoining(p)

\* "the gateway remembers the choice for this player, and their next plain
\* join goes there" (docs/owner-api.md:132-133): until the player has got
\* there, unless the choice expired, was withdrawn, given up by going
\* elsewhere, or the player was told that the server is gone.  router.go:434-437
\* can delete a choice made between its Get and its Clear.
ChoiceSurvives == StickyEnabled => \A p \in Players : WishKept(p)

\* That lost update is the only way: a choice is not forgotten by clearing it
\* before the dial (router.go:434-437, 547-573), by failing dials, by tickets
\* or by other joins of the same player, unless such a Clear deleted it.
ChoiceLostOnlyByClear ==
  StickyEnabled => \A p \in Players \ undone : WishKept(p)

\* "That backend is then skipped for this player for 10 minutes" (README.md:79-80,
\* the mod query): nobody is sent unasked to a server whose mod list the client
\* refused.  onlyServerFor (router.go:475-491) does not look at the refusals.
RejectedSkipped ==
  [][\A c \in Conns :
       /\ conn'[c].via \in {"match", "only-candidate"} /\ conn'[c].via # conn[c].via
       => conn'[c].route \notin rejected[conn[c].player]]_vars
=============================================================================
