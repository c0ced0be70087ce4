---------------------------- MODULE RouterProofs ----------------------------
(***************************************************************************)
(* Safety of Router for every set of servers, clients and connections.     *)
(* Matching is sound for every client and everything a session may have    *)
(* learned of it; the invariant says how each place of a session came by   *)
(* its route.                                                              *)
(***************************************************************************)
EXTENDS Router, FiniteSetTheorems, TLAPS

(* Matching.                                                                *)

\* k is something the gateway may know of player p: nothing in it is wrong.
Knowledge(k, p) ==
  /\ k.protocol = Protocol(p)
  /\ k.loader # "unknown" => Family(k.loader, Protocol(p)) = Family(Clients[p].loader, Protocol(p))
  /\ k.mods # NoMods => k.mods \subseteq Clients[p].mods

LEMMA FamilyKnown == ASSUME NEW l, NEW v PROVE Family(l, v) # "unknown"
BY DEF Family

\* A sure candidate suits the client as it really is.
LEMMA SureSuits ==
  ASSUME NEW k, NEW p \in Players, NEW s, Knowledge(k, p), Compatible(k, s), Certain(k, s)
  PROVE  CanPlay(Clients[p], s)
<1>1. Accepts(s, Clients[p].protocol)
  BY DEF Knowledge, Compatible, Protocol
<1>2. NeedsLoader(s, Clients[p].protocol) =>
        Family(Clients[p].loader, Clients[p].protocol) = Family(s.loader, Clients[p].protocol)
  BY FamilyKnown DEF Knowledge, Certain, ClientFamily, Protocol
<1>3. Required(s) \subseteq ModSet(Clients[p].mods)
  BY DEF Knowledge, Compatible, Certain, ModSet
<1> QED
  BY <1>1, <1>2, <1>3 DEF CanPlay

LEMMA HandshakeKnowledge == ASSUME NEW p \in Players PROVE Knowledge(HandshakeClient(p), p)
<1>1. Family("forge", Protocol(p)) = "forge"
  BY DEF Family
<1> QED
  BY <1>1, ClientsAssumption DEF Knowledge, HandshakeClient, Protocol

LEMMA QueryKnowledge ==
  ASSUME NEW p \in Players
  PROVE  Knowledge([HandshakeClient(p) EXCEPT !.mods = Clients[p].mods], p)
BY HandshakeKnowledge DEF Knowledge, HandshakeClient

LEMMA ProbeKnowledge ==
  ASSUME NEW p \in Players, NEW a \in Probes(p) PROVE Knowledge(Probed(p, a), p)
<1> DEFINE k == Probed(p, a)
<1>1. a.brand \in BOOLEAN /\ a.channels \subseteq Clients[p].mods
  BY DEF Probes
<1>2. a.neoforge \in BOOLEAN /\ (a.neoforge => Clients[p].loader = "neoforge")
  BY DEF Probes
<1>3. BrandLoader(Clients[p].brand) # "unknown" => BrandLoader(Clients[p].brand) = Clients[p].loader
  BY ClientsAssumption DEF BrandLoader
<1>4. k.loader # "unknown" => Family(k.loader, Protocol(p)) = Family(Clients[p].loader, Protocol(p))
  BY <1>1, <1>2, <1>3, HandshakeKnowledge DEF Probed, Knowledge
<1>5. k.protocol = Protocol(p) /\ (k.mods # NoMods => k.mods \subseteq Clients[p].mods)
  BY <1>1 DEF Probed
<1> QED
  BY <1>4, <1>5 DEF Knowledge

LEMMA RankMember ==
  ASSUME NEW k, NEW ids, NEW x \in Rank(k, ids)
  PROVE  /\ x.id \in ids /\ Compatible(k, Servers[x.id])
         /\ x.certain => Certain(k, Servers[x.id])
BY DEF Rank, Candidate

\* Whatever Pick names was a sure candidate.
LEMMA PickSure ==
  ASSUME NEW cands, NEW m, NEW g, Pick(cands, m, g) # NoServer
  PROVE  \E x \in cands : x.certain /\ x.id = Pick(cands, m, g)
<1> DEFINE clear == {x \in cands :
                  /\ IsBest(x, cands) /\ x.certain
                  /\ \A y \in cands \ {x} : x.score >= m /\ x.score - y.score >= g}
<1>1. clear # {} /\ Pick(cands, m, g) = (CHOOSE x \in clear : TRUE).id
  BY DEF Pick
<1>2. (CHOOSE x \in clear : TRUE) \in clear
  BY <1>1
<1> QED
  BY <1>1, <1>2

\* A player picked for, from the visible servers, can play there.
LEMMA PickSuits ==
  ASSUME NEW k, NEW p \in Players, Knowledge(k, p), NEW cands \in SUBSET Rank(k, VisibleOnline),
         NEW m, NEW g, Pick(cands, m, g) # NoServer
  PROVE  LET id == Pick(cands, m, g) IN
         id \in Ids /\ CanPlay(Clients[p], Servers[id]) /\ ~Servers[id].hidden
<1>1. PICK x \in cands : x.certain /\ x.id = Pick(cands, m, g)
  BY PickSure
<1>2. x \in Rank(k, VisibleOnline)
  BY <1>1
<1>3. x.id \in VisibleOnline /\ Compatible(k, Servers[x.id]) /\ Certain(k, Servers[x.id])
  BY <1>1, <1>2, RankMember
<1>4. CanPlay(Clients[p], Servers[x.id])
  BY <1>3, SureSuits
<1> QED
  BY <1>1, <1>3, <1>4 DEF VisibleOnline

-----------------------------------------------------------------------------
(* The invariant.                                                           *)

Remembered == {"cookie", "pending", "sticky"}
Unasked == {"match", "only-candidate"}

\* The types, but for the range of slots.
Typed ==
  /\ reg \in [Ids -> {"gone", "offline", "online"}]
  /\ pending \in [Players -> Ids \cup {NoServer}]
  /\ sticky \in [Players -> Ids \cup {NoServer}]
  /\ rejected \in [Players -> SUBSET Ids]
  /\ cookies \subseteq Cookie
  /\ conn \in [Conns -> Session]
  /\ ticket \in [player : Players, route : Ids \cup {NoServer}]
  /\ ticket # NoTicket => ticket.route \in Ids
  /\ logins \in Nat /\ changes \in Nat /\ tickets \in Nat
  /\ wish \in [Players -> Ids \cup {NoServer}] /\ undone \subseteq Players
  /\ chosen \in [Players -> SUBSET Ids]

\* A session on its way unasked goes to a server that fits.
Fits(s) ==
  s.via \in Unasked =>
    CanPlay(Clients[s.player], Servers[s.route]) /\ ~Servers[s.route].hidden

\* How session s came by its route, if ch is what its player asked for or was given.
Owed(s, ch) ==
  /\ s.pc = "cookie" => s.via = "none"
  /\ s.pc \in {"check", "clear"} => s.via = "pending" /\ s.route \in ch
  /\ s.pc = "checkSticky" => s.via = "sticky" /\ s.route \in ch
  /\ s.pc = "connect" =>
       /\ s.via \in Remembered \cup {"subdomain", "only-candidate"}
       /\ s.route \in Ids
       /\ s.via \in Remembered => s.route \in ch
  /\ s.pc \in {"stick", "dial", "piped"} => s.route \in ch
  /\ s.pc \in {"remember", "transfer"} => s.route \in Ids

Sessions == \A c \in Conns : Fits(conn[c]) /\ Owed(conn[c], chosen[conn[c].player])

\* What the gateway keeps for a player is the player's own choice.
Kept ==
  /\ \A p \in Players : {pending[p], sticky[p]} \subseteq chosen[p] \cup {NoServer}
  /\ \A ck \in cookies : ck.route \in chosen[ck.player] \cup {LobbyRoute}

Slots == slots \in 0..MaxLobbySessions /\ SlotsMatch

Inv == Typed /\ Sessions /\ Kept /\ Slots /\ ChoiceLostOnlyByClear

LEMMA Names == NoServer \notin Ids /\ LobbyRoute \notin Ids /\ LobbyRoute # NoServer
BY IdsAssumption DEF NoServer, LobbyRoute

LEMMA ClosedSession ==
  ASSUME NEW p \in Players
  PROVE  /\ Closed(p) \in Session /\ Closed(p).pc = "idle" /\ Closed(p).via = "none"
         /\ Closed(p).player = p
BY DEF Closed, Session, Plain, Places

LEMMA AnyPlayerIsOne == AnyPlayer \in Players
BY RouterAssumption DEF AnyPlayer

LEMMA InitInv == Init => Inv
<1> SUFFICES ASSUME Init PROVE Inv
  OBVIOUS
<1>1. Idle \in Session /\ Idle.pc = "idle" /\ Idle.via = "none"
  BY AnyPlayerIsOne, ClosedSession DEF Idle
<1>2. Typed
  BY <1>1, AnyPlayerIsOne DEF Init, Typed, NoTicket
<1>3. Sessions
  BY <1>1 DEF Init, Sessions, Fits, Owed, Unasked
<1>4. Kept
  BY DEF Init, Kept
<1>5. {c \in Conns : conn[c].pc \in LobbyPlaces} = {}
  BY <1>1 DEF Init, LobbyPlaces
<1>6. Slots
  BY <1>5, FS_EmptySet, RouterAssumption DEF Init, Slots, SlotsMatch
<1>7. ChoiceLostOnlyByClear
  BY DEF Init, ChoiceLostOnlyByClear, WishKept
<1> QED
  BY <1>2, <1>3, <1>4, <1>6, <1>7 DEF Inv

(* One session moves on: what each part of the invariant asks of the step.  *)

LEMMA MoveSessions ==
  ASSUME Typed, Sessions, NEW c \in Conns, NEW s \in Session, conn' = [conn EXCEPT ![c] = s],
         \A p \in Players : chosen[p] \subseteq chosen'[p],
         Fits(s), Owed(s, chosen'[s.player])
  PROVE  conn' \in [Conns -> Session] /\ Sessions'
<1>1. conn' \in [Conns -> Session]
  BY DEF Typed
<1>2. ASSUME NEW d \in Conns PROVE Fits(conn'[d]) /\ Owed(conn'[d], chosen'[conn'[d].player])
  <2>1. CASE d = c
    BY <2>1 DEF Typed
  <2>2. CASE d # c
    <3>1. conn'[d] = conn[d] /\ conn[d].player \in Players
      BY <2>2 DEF Typed, Session
    <3> QED
      BY <3>1 DEF Sessions, Owed
  <2> QED
    BY <2>1, <2>2
<1>3. Sessions'
  BY <1>2 DEF Sessions, Fits
<1> QED
  BY <1>1, <1>3

InLobby == {c \in Conns : conn[c].pc \in LobbyPlaces}

LEMMA LobbyFinite == IsFiniteSet(InLobby) /\ Cardinality(InLobby) \in Nat
<1>1. IsFiniteSet(InLobby)
  BY RouterAssumption, FS_Subset DEF InLobby
<1> QED
  BY <1>1, FS_CardinalityType

LEMMA MoveSlots ==
  ASSUME Typed, Slots, NEW c \in Conns, NEW s \in Session, conn' = [conn EXCEPT ![c] = s],
         \/ slots' = slots /\ (s.pc \in LobbyPlaces <=> conn[c].pc \in LobbyPlaces)
         \/ slots' = slots + 1 /\ ~SlotsFull /\ s.pc \in LobbyPlaces /\ conn[c].pc \notin LobbyPlaces
         \/ slots' = slots - 1 /\ s.pc \notin LobbyPlaces /\ conn[c].pc \in LobbyPlaces
  PROVE  Slots'
<1>1. \A d \in Conns : conn'[d] = IF d = c THEN s ELSE conn[d]
  BY DEF Typed
<1>2. slots = Cardinality(InLobby) /\ slots \in 0..MaxLobbySessions
  BY DEF Slots, SlotsMatch, InLobby
<1>3. SUFFICES slots' = Cardinality(InLobby') /\ slots' \in 0..MaxLobbySessions
  BY DEF Slots, SlotsMatch, InLobby
<1>4. CASE slots' = slots /\ (s.pc \in LobbyPlaces <=> conn[c].pc \in LobbyPlaces)
  <2>1. InLobby' = InLobby
    BY <1>1, <1>4 DEF InLobby
  <2> QED
    BY <1>2, <1>4, <2>1
<1>5. CASE slots' = slots + 1 /\ ~SlotsFull /\ s.pc \in LobbyPlaces /\ conn[c].pc \notin LobbyPlaces
  <2>1. InLobby' = InLobby \cup {c} /\ c \notin InLobby
    BY <1>1, <1>5 DEF InLobby
  <2>2. Cardinality(InLobby') = Cardinality(InLobby) + 1
    BY <2>1, LobbyFinite, FS_AddElement
  <2> QED
    BY <1>2, <1>5, <2>2, RouterAssumption DEF SlotsFull
<1>6. CASE slots' = slots - 1 /\ s.pc \notin LobbyPlaces /\ conn[c].pc \in LobbyPlaces
  <2>1. InLobby' = InLobby \ {c} /\ c \in InLobby
    BY <1>1, <1>6 DEF InLobby
  <2>2. Cardinality(InLobby') = Cardinality(InLobby) - 1
    BY <2>1, LobbyFinite, FS_RemoveElement
  <2>3. Cardinality(InLobby') \in Nat
    BY <2>1, LobbyFinite, FS_Subset, FS_CardinalityType
  <2> QED
    BY <1>2, <1>6, <2>2, <2>3, LobbyFinite, RouterAssumption
<1> QED
  BY <1>4, <1>5, <1>6

Joining(s) == s.via = "pending" /\ s.pc \in {"connect", "stick"}

\* A step of a session that forgets nothing and gives up no join.
LEMMA MoveChoice ==
  ASSUME Typed, ChoiceLostOnlyByClear, NEW c \in Conns, NEW s \in Session,
         conn' = [conn EXCEPT ![c] = s],
         UNCHANGED <<pending, sticky, wish, undone>>,
         Joining(conn[c]) => Joining(s) /\ s.player = conn[c].player /\ s.route = conn[c].route
  PROVE  ChoiceLostOnlyByClear'
<1>1. \A d \in Conns : conn'[d] = IF d = c THEN s ELSE conn[d]
  BY DEF Typed
<1>2. \A p \in Players : Rejoining(p) => Rejoining(p)'
  BY <1>1 DEF Rejoining, Joining
<1> QED
  BY <1>2 DEF ChoiceLostOnlyByClear, WishKept

Vias == Remembered \cup Unasked \cup {"none", "subdomain", "guess", "choice", "probe"}

\* Session c becomes s.
Becomes(c, s) == s \in Session /\ conn' = [conn EXCEPT ![c] = s]

LEMMA GotoMoves ==
  ASSUME Typed, NEW c \in Conns, NEW place \in Places, Goto(c, place)
  PROVE  \E s : /\ Becomes(c, s) /\ s.pc = place /\ s.player = conn[c].player
                /\ s.route = conn[c].route /\ s.via = conn[c].via
<1> DEFINE s == [conn[c] EXCEPT !.pc = place]
<1>1. conn[c] \in Session
  BY DEF Typed
<1>2. s \in Session /\ s.pc = place /\ s.player = conn[c].player
      /\ s.route = conn[c].route /\ s.via = conn[c].via
  BY <1>1 DEF Session
<1>3. conn' = [conn EXCEPT ![c] = s]
  BY DEF Goto
<1> QED
  BY <1>2, <1>3 DEF Becomes

LEMMA GotoWithMoves ==
  ASSUME Typed, NEW c \in Conns, NEW place \in Places, NEW id \in Ids \cup {NoServer},
         NEW via \in Vias, GotoWith(c, place, id, via)
  PROVE  \E s : /\ Becomes(c, s) /\ s.pc = place /\ s.player = conn[c].player
                /\ s.route = id /\ s.via = via
<1> DEFINE s == [conn[c] EXCEPT !.pc = place, !.route = id, !.via = via]
<1>1. conn[c] \in Session
  BY DEF Typed
<1>2. s \in Session /\ s.pc = place /\ s.player = conn[c].player /\ s.route = id /\ s.via = via
  BY <1>1 DEF Session, Vias, Remembered, Unasked
<1>3. conn' = [conn EXCEPT ![c] = s]
  BY DEF GotoWith
<1> QED
  BY <1>2, <1>3 DEF Becomes

LEMMA CloseMoves ==
  ASSUME Typed, NEW c \in Conns, Close(c)
  PROVE  \E s : Becomes(c, s) /\ s.pc = "idle" /\ s.via = "none"
BY AnyPlayerIsOne, ClosedSession DEF Close, Idle, Becomes

\* A step that changes one session, and of the rest only bounds and rejections.
LEMMA MoveInv ==
  ASSUME Inv, NEW c \in Conns, NEW s, Becomes(c, s),
         UNCHANGED <<reg, pending, sticky, cookies, ticket, changes, tickets, wish, undone, chosen>>,
         logins' \in Nat, rejected' \in [Players -> SUBSET Ids],
         Fits(s), Owed(s, chosen[s.player]),
         \/ slots' = slots /\ (s.pc \in LobbyPlaces <=> conn[c].pc \in LobbyPlaces)
         \/ slots' = slots + 1 /\ ~SlotsFull /\ s.pc \in LobbyPlaces /\ conn[c].pc \notin LobbyPlaces
         \/ slots' = slots - 1 /\ s.pc \notin LobbyPlaces /\ conn[c].pc \in LobbyPlaces,
         Joining(conn[c]) => Joining(s) /\ s.player = conn[c].player /\ s.route = conn[c].route
  PROVE  Inv'
<1>0. Typed /\ Sessions /\ Kept /\ Slots /\ ChoiceLostOnlyByClear
  BY DEF Inv
<1>1. s \in Session /\ conn' = [conn EXCEPT ![c] = s]
  BY DEF Becomes
<1>2. conn' \in [Conns -> Session] /\ Sessions'
  BY <1>0, <1>1, MoveSessions
<1>3. Slots'
  BY <1>0, <1>1, MoveSlots
<1>4. ChoiceLostOnlyByClear'
  BY <1>0, <1>1, MoveChoice
<1>5. Typed'
  BY <1>0, <1>2 DEF Typed
<1>6. Kept'
  BY <1>0 DEF Kept
<1> QED
  BY <1>2, <1>3, <1>4, <1>5, <1>6 DEF Inv

\* A step that changes sessions and slots only.
Quiet == UNCHANGED <<reg, store, cookies, ticket, bounds, history>>

LEMMA QuietInv ==
  ASSUME Inv, NEW c \in Conns, NEW s, Becomes(c, s),
         Quiet, Fits(s), Owed(s, chosen[s.player]),
         \/ slots' = slots /\ (s.pc \in LobbyPlaces <=> conn[c].pc \in LobbyPlaces)
         \/ slots' = slots + 1 /\ ~SlotsFull /\ s.pc \in LobbyPlaces /\ conn[c].pc \notin LobbyPlaces
         \/ slots' = slots - 1 /\ s.pc \notin LobbyPlaces /\ conn[c].pc \in LobbyPlaces,
         Joining(conn[c]) => Joining(s) /\ s.player = conn[c].player /\ s.route = conn[c].route
  PROVE  Inv'
<1>1. UNCHANGED <<reg, pending, sticky, cookies, ticket, changes, tickets, wish, undone, chosen>>
  BY DEF Quiet, store, bounds, history
<1>2. logins' \in Nat /\ rejected' \in [Players -> SUBSET Ids]
  BY DEF Inv, Typed, Quiet, store, bounds
<1> QED
  BY <1>1, <1>2, MoveInv

\* Places of a session without a route that has to be accounted for.
FreePlaces == {"idle", "pending", "sticky", "only", "lobby", "probe", "query", "rank", "limbo",
               "config", "dialog"}

LEMMA GotoInv ==
  ASSUME Inv, NEW c \in Conns, NEW place \in FreePlaces, Goto(c, place), Quiet,
         conn[c].pc \notin {"connect", "stick"},
         \/ slots' = slots /\ (place \in LobbyPlaces <=> conn[c].pc \in LobbyPlaces)
         \/ slots' = slots + 1 /\ ~SlotsFull /\ place \in LobbyPlaces /\ conn[c].pc \notin LobbyPlaces
  PROVE  Inv'
<1>1. Typed /\ place \in Places
  BY DEF Inv, FreePlaces, Places, LobbyPlaces
<1>2. PICK s : /\ Becomes(c, s) /\ s.pc = place /\ s.player = conn[c].player
               /\ s.route = conn[c].route /\ s.via = conn[c].via
  BY <1>1, GotoMoves
<1>3. Fits(s) /\ Owed(s, chosen[s.player])
  BY <1>2 DEF Inv, Sessions, Fits, Owed, FreePlaces
<1> QED
  BY <1>2, <1>3, QuietInv DEF Joining, Quiet

LEMMA GotoWithInv ==
  ASSUME Inv, NEW c \in Conns, NEW place \in Places, NEW id \in Ids \cup {NoServer},
         NEW via \in Vias, GotoWith(c, place, id, via), Quiet,
         conn[c].pc \notin {"connect", "stick"},
         via \in Unasked => CanPlay(Clients[conn[c].player], Servers[id]) /\ ~Servers[id].hidden,
         Owed([pc |-> place, route |-> id, via |-> via], chosen[conn[c].player]),
         slots' = slots, place \in LobbyPlaces <=> conn[c].pc \in LobbyPlaces
  PROVE  Inv'
<1>1. PICK s : /\ Becomes(c, s) /\ s.pc = place /\ s.player = conn[c].player
               /\ s.route = id /\ s.via = via
  BY GotoWithMoves DEF Inv
<1>2. Fits(s) /\ Owed(s, chosen[s.player])
  BY <1>1 DEF Fits, Owed
<1> QED
  BY <1>1, <1>2, QuietInv DEF Joining, Quiet

LEMMA CloseInv ==
  ASSUME Inv, NEW c \in Conns, Close(c), Quiet, conn[c].pc \notin {"connect", "stick"},
         \/ slots' = slots /\ conn[c].pc \notin LobbyPlaces
         \/ slots' = slots - 1 /\ conn[c].pc \in LobbyPlaces
  PROVE  Inv'
<1>1. PICK s : Becomes(c, s) /\ s.pc = "idle" /\ s.via = "none"
  BY CloseMoves DEF Inv
<1>2. Fits(s) /\ Owed(s, chosen[s.player])
  BY <1>1 DEF Fits, Owed, Unasked
<1> QED
  BY <1>1, <1>2, QuietInv DEF Joining, Quiet, LobbyPlaces

(* Steps of a login.                                                        *)

LEMMA ByHostMoves ==
  ASSUME NEW s \in Session, s.via = "none"
  PROVE  /\ ByHost(s) \in Session /\ ByHost(s).player = s.player
         /\ ByHost(s).pc \in {"lobby", "connect", "pending"}
         /\ ByHost(s).pc = "connect" => ByHost(s).via = "subdomain" /\ ByHost(s).route \in Ids
         /\ ByHost(s).via \in {"none", "subdomain"}
<1>1. CASE s.host = LobbyRoute
  BY <1>1, Names DEF ByHost, Session, Places
<1>2. CASE s.host # LobbyRoute /\ s.host \in Ids
  BY <1>2 DEF ByHost, Session, Places
<1>3. CASE s.host # LobbyRoute /\ s.host \notin Ids
  BY <1>3 DEF ByHost, Session, Places
<1> QED
  BY <1>1, <1>2, <1>3

LEMMA LoginInv ==
  ASSUME Inv, NEW c \in Conns, NEW p \in Players, NEW h \in Hosts, NEW t \in BOOLEAN,
         Login(c, p, h, t)
  PROVE  Inv'
<1> DEFINE n == [Closed(p) EXCEPT !.host = h]
           s == IF t THEN [n EXCEPT !.pc = "cookie"] ELSE ByHost(n)
<1>1. n \in Session /\ n.via = "none" /\ n.player = p
  BY RouterAssumption, ClosedSession DEF Session
<1>2. s \in Session /\ s.player = p /\ s.pc \in {"cookie", "lobby", "connect", "pending"}
      /\ (s.pc = "connect" => s.via = "subdomain" /\ s.route \in Ids)
      /\ (s.pc = "cookie" => s.via = "none") /\ s.via \in {"none", "subdomain"}
  <2>1. CASE t
    BY <1>1, <2>1 DEF Session, Places
  <2>2. CASE ~t
    BY <1>1, <2>2, ByHostMoves
  <2> QED
    BY <2>1, <2>2
<1>3. conn' = [conn EXCEPT ![c] = s] /\ conn[c].pc = "idle"
  BY DEF Login, At
<1> HIDE DEF n, s
<1>4. Becomes(c, s)
  BY <1>2, <1>3 DEF Becomes
<1>5. Fits(s) /\ Owed(s, chosen[s.player])
  BY <1>2 DEF Fits, Owed, Unasked, Remembered
<1>6. logins' \in Nat /\ rejected' \in [Players -> SUBSET Ids]
  BY DEF Inv, Typed, Login, store
<1> QED
  BY <1>2, <1>3, <1>4, <1>5, <1>6, MoveInv DEF Login, store, history, Joining, LobbyPlaces

LEMMA ReadRouteCookieInv ==
  ASSUME Inv, NEW c \in Conns, ReadRouteCookie(c) PROVE Inv'
<1>0. conn[c] \in Session /\ conn[c].player \in Players /\ conn[c].pc = "cookie" /\ conn[c].via = "none"
  BY DEF Inv, Typed, Session, ReadRouteCookie, At, Sessions, Owed
<1>1. PICK ck \in cookies \cup {NoCookie} :
        conn' = [conn EXCEPT ![c] =
          CASE VerifyRoute(ck, conn[c].player) = LobbyRoute ->
                 [conn[c] EXCEPT !.pc = "lobby", !.force = TRUE]
            [] VerifyRoute(ck, conn[c].player) \in Ids ->
                 [conn[c] EXCEPT !.pc = "connect", !.route = VerifyRoute(ck, conn[c].player),
                                 !.via = "cookie"]
            [] OTHER -> ByHost(conn[c])]
  BY DEF ReadRouteCookie
<1> DEFINE route == VerifyRoute(ck, conn[c].player)
<1>2. route \in Ids => route \in chosen[conn[c].player]
  BY Names DEF VerifyRoute, Inv, Kept
<1>3. \E s : /\ Becomes(c, s) /\ s.player = conn[c].player
             /\ s.pc \in {"lobby", "connect", "pending"}
             /\ s.pc = "connect" => s.via \in {"subdomain", "cookie"} /\ s.route \in Ids
             /\ s.via = "cookie" => s.route \in chosen[s.player]
             /\ s.via \in {"none", "subdomain", "cookie"}
  <2>1. CASE route = LobbyRoute
    <3> DEFINE s == [conn[c] EXCEPT !.pc = "lobby", !.force = TRUE]
    <3>1. conn' = [conn EXCEPT ![c] = s]
      BY <1>1, <2>1, Names
    <3>2. s \in Session /\ s.player = conn[c].player /\ s.pc = "lobby" /\ s.via = "none"
      BY <1>0 DEF Session, Places
    <3> QED
      BY <3>1, <3>2 DEF Becomes
  <2>2. CASE route # LobbyRoute /\ route \in Ids
    <3> DEFINE s == [conn[c] EXCEPT !.pc = "connect", !.route = route, !.via = "cookie"]
    <3>1. conn' = [conn EXCEPT ![c] = s]
      BY <1>1, <2>2
    <3>2. s \in Session /\ s.player = conn[c].player /\ s.pc = "connect" /\ s.via = "cookie"
          /\ s.route = route
      BY <1>0, <2>2 DEF Session, Places
    <3> QED
      BY <1>2, <2>2, <3>1, <3>2 DEF Becomes
  <2>3. CASE route # LobbyRoute /\ route \notin Ids
    BY <1>0, <1>1, <2>3, ByHostMoves DEF Becomes
  <2> QED
    BY <2>1, <2>2, <2>3
<1>4. PICK s : /\ Becomes(c, s) /\ s.player = conn[c].player
               /\ s.pc \in {"lobby", "connect", "pending"}
               /\ s.pc = "connect" => s.via \in {"subdomain", "cookie"} /\ s.route \in Ids
               /\ s.via = "cookie" => s.route \in chosen[s.player]
               /\ s.via \in {"none", "subdomain", "cookie"}
  BY <1>3
<1>5. Fits(s) /\ Owed(s, chosen[s.player])
  BY <1>4 DEF Fits, Owed, Unasked, Remembered
<1> QED
  BY <1>0, <1>4, <1>5, QuietInv DEF ReadRouteCookie, Quiet, Joining, LobbyPlaces

LEMMA GetPendingInv == ASSUME Inv, NEW c \in Conns, GetPending(c) PROVE Inv'
<1> DEFINE p == conn[c].player
           id == pending[p]
<1>0. id \in Ids \cup {NoServer} /\ conn[c].pc = "pending" /\ (id # NoServer => id \in chosen[p])
  BY DEF Inv, Typed, Kept, Session, GetPending, At
<1>1. Quiet /\ slots' = slots
  BY DEF GetPending, Quiet
<1>2. CASE id = NoServer
  <2>1. Goto(c, "sticky")
    BY <1>2 DEF GetPending
  <2> QED
    BY <1>0, <1>1, <2>1, GotoInv DEF FreePlaces, LobbyPlaces
<1>3. CASE id # NoServer
  <2>1. GotoWith(c, "check", id, "pending") /\ "check" \in Places /\ "pending" \in Vias
    BY <1>3 DEF GetPending, Places, Vias, Remembered
  <2>2. Owed([pc |-> "check", route |-> id, via |-> "pending"], chosen[p])
    BY <1>0, <1>3 DEF Owed
  <2> QED
    BY <1>0, <1>1, <2>1, <2>2, GotoWithInv DEF LobbyPlaces, Unasked
<1> QED
  BY <1>2, <1>3

LEMMA CheckPendingInv == ASSUME Inv, NEW c \in Conns, CheckPending(c) PROVE Inv'
<1>0. conn[c] \in Session /\ conn[c].pc = "check" /\ conn[c].via = "pending"
      /\ conn[c].route \in chosen[conn[c].player]
  BY DEF Inv, Typed, Sessions, Owed, CheckPending, At
<1>1. Quiet /\ slots' = slots
  BY DEF CheckPending, Quiet
<1>2. CASE Goto(c, "clear")
  <2>1. PICK s : /\ Becomes(c, s) /\ s.pc = "clear" /\ s.player = conn[c].player
                 /\ s.route = conn[c].route /\ s.via = conn[c].via
    BY <1>2, GotoMoves DEF Inv, Places
  <2>2. Fits(s) /\ Owed(s, chosen[s.player])
    BY <1>0, <2>1 DEF Fits, Owed, Unasked
  <2> QED
    BY <1>0, <1>1, <2>1, <2>2, QuietInv DEF Joining, LobbyPlaces
<1>3. CASE GotoWith(c, "sticky", NoServer, "none")
  <2>1. Owed([pc |-> "sticky", route |-> NoServer, via |-> "none"], chosen[conn[c].player])
        /\ "sticky" \in Places /\ "none" \in Vias
    BY DEF Owed, Places, Vias
  <2> QED
    BY <1>0, <1>1, <1>3, <2>1, GotoWithInv DEF LobbyPlaces, Unasked
<1> QED
  BY <1>2, <1>3 DEF CheckPending

LEMMA GetStickyInv == ASSUME Inv, NEW c \in Conns, GetSticky(c) PROVE Inv'
<1> DEFINE p == conn[c].player
           id == sticky[p]
<1>0. id \in Ids \cup {NoServer} /\ conn[c].pc = "sticky" /\ (id # NoServer => id \in chosen[p])
  BY DEF Inv, Typed, Kept, Session, GetSticky, At
<1>1. Quiet /\ slots' = slots
  BY DEF GetSticky, Quiet
<1>2. CASE Goto(c, "only")
  BY <1>0, <1>1, <1>2, GotoInv DEF FreePlaces, LobbyPlaces
<1>3. CASE id # NoServer /\ GotoWith(c, "checkSticky", id, "sticky")
  <2>1. Owed([pc |-> "checkSticky", route |-> id, via |-> "sticky"], chosen[p])
        /\ "checkSticky" \in Places /\ "sticky" \in Vias
    BY <1>0, <1>3 DEF Owed, Places, Vias, Remembered
  <2> QED
    BY <1>0, <1>1, <1>3, <2>1, GotoWithInv DEF LobbyPlaces, Unasked
<1> QED
  BY <1>2, <1>3 DEF GetSticky

LEMMA CheckStickyInv == ASSUME Inv, NEW c \in Conns, CheckSticky(c) PROVE Inv'
<1>0. conn[c] \in Session /\ conn[c].pc = "checkSticky" /\ conn[c].via = "sticky"
      /\ conn[c].player \in Players /\ conn[c].route \in chosen[conn[c].player]
  BY DEF Inv, Typed, Sessions, Owed, CheckSticky, At, Session
<1>1. Quiet /\ slots' = slots
  BY DEF CheckSticky, Quiet
<1>2. CASE Goto(c, "connect")
  <2>1. PICK s : /\ Becomes(c, s) /\ s.pc = "connect" /\ s.player = conn[c].player
                 /\ s.route = conn[c].route /\ s.via = conn[c].via
    BY <1>2, GotoMoves DEF Inv, Places
  <2>2. chosen[conn[c].player] \subseteq Ids
    BY <1>0 DEF Inv, Typed
  <2>3. Fits(s) /\ Owed(s, chosen[s.player])
    BY <1>0, <2>1, <2>2 DEF Fits, Owed, Unasked, Remembered
  <2> QED
    BY <1>0, <1>1, <2>1, <2>3, QuietInv DEF Joining, LobbyPlaces
<1>3. CASE GotoWith(c, "only", NoServer, "none")
  <2>1. Owed([pc |-> "only", route |-> NoServer, via |-> "none"], chosen[conn[c].player])
        /\ "only" \in Places /\ "none" \in Vias
    BY DEF Owed, Places, Vias
  <2> QED
    BY <1>0, <1>1, <1>3, <2>1, GotoWithInv DEF LobbyPlaces, Unasked
<1> QED
  BY <1>2, <1>3 DEF CheckSticky

LEMMA OnlyCandidateInv == ASSUME Inv, NEW c \in Conns, OnlyCandidate(c) PROVE Inv'
<1> DEFINE p == conn[c].player
<1>0. p \in Players /\ conn[c].pc = "only"
  BY DEF Inv, Typed, OnlyCandidate, At, Session
<1>1. Quiet /\ slots' = slots
  BY DEF OnlyCandidate, Quiet
<1>2. CASE Goto(c, "lobby")
  BY <1>0, <1>1, <1>2, GotoInv DEF FreePlaces, LobbyPlaces
<1>3. ASSUME NEW id \in OnlyServerFor(p), GotoWith(c, "connect", id, "only-candidate") PROVE Inv'
  <2>1. /\ id \in Ids /\ ~Servers[id].hidden
        /\ Compatible(HandshakeClient(p), Servers[id]) /\ Certain(HandshakeClient(p), Servers[id])
    BY DEF OnlyServerFor, VisibleOnline
  <2>2. CanPlay(Clients[p], Servers[id])
    BY <1>0, <2>1, HandshakeKnowledge, SureSuits
  <2>3. Owed([pc |-> "connect", route |-> id, via |-> "only-candidate"], chosen[p])
        /\ "connect" \in Places /\ "only-candidate" \in Vias
    BY <2>1 DEF Owed, Places, Vias, Remembered, Unasked
  <2> QED
    BY <1>0, <1>1, <1>3, <2>1, <2>2, <2>3, GotoWithInv DEF LobbyPlaces
<1> QED
  BY <1>2, <1>3 DEF OnlyCandidate

LEMMA PipeEndsInv == ASSUME Inv, NEW c \in Conns, PipeEnds(c) PROVE Inv'
BY CloseInv DEF PipeEnds, At, Quiet, LobbyPlaces

(* Steps that change what is kept for the player.                           *)

LEMMA KeepInv ==
  ASSUME Inv, NEW c \in Conns, NEW s, Becomes(c, s), UNCHANGED <<reg, rejected, ticket, bounds>>,
         pending' \in [Players -> Ids \cup {NoServer}],
         sticky' \in [Players -> Ids \cup {NoServer}],
         wish' \in [Players -> Ids \cup {NoServer}], undone' \subseteq Players,
         chosen' \in [Players -> SUBSET Ids], \A p \in Players : chosen[p] \subseteq chosen'[p],
         cookies' \subseteq Cookie,
         Fits(s), Owed(s, chosen'[s.player]),
         \/ slots' = slots /\ (s.pc \in LobbyPlaces <=> conn[c].pc \in LobbyPlaces)
         \/ slots' = slots - 1 /\ s.pc \notin LobbyPlaces /\ conn[c].pc \in LobbyPlaces,
         Kept', ChoiceLostOnlyByClear'
  PROVE  Inv'
<1>0. Typed /\ Sessions /\ Slots
  BY DEF Inv
<1>1. s \in Session /\ conn' = [conn EXCEPT ![c] = s]
  BY DEF Becomes
<1>2. conn' \in [Conns -> Session] /\ Sessions'
  BY <1>0, <1>1, MoveSessions
<1>3. Slots'
  BY <1>0, <1>1, MoveSlots
<1>4. Typed'
  BY <1>0, <1>2 DEF Typed, bounds
<1> QED
  BY <1>2, <1>3, <1>4 DEF Inv

LEMMA Others ==
  ASSUME Typed, NEW c \in Conns, NEW s, Becomes(c, s)
  PROVE  \A d \in Conns : conn'[d] = IF d = c THEN s ELSE conn[d]
BY DEF Typed, Becomes

LEMMA ClearPendingInv == ASSUME Inv, NEW c \in Conns, ClearPending(c) PROVE Inv'
<1> DEFINE p == conn[c].player
           id == conn[c].route
<1>0. Typed /\ p \in Players /\ conn[c].pc = "clear" /\ conn[c].via = "pending" /\ id \in chosen[p]
      /\ id \in Ids
  BY DEF Inv, Typed, Sessions, Owed, ClearPending, At, Session
<1>1. PICK s : /\ Becomes(c, s) /\ s.pc = "connect" /\ s.player = p
               /\ s.route = id /\ s.via = conn[c].via
  BY <1>0, GotoMoves DEF ClearPending, Places
<1>2. pending' = [pending EXCEPT ![p] = NoServer] /\ UNCHANGED <<sticky, cookies, chosen, slots>>
      /\ wish' = wish
      /\ undone' = IF pending[p] \in {id, NoServer} THEN undone ELSE undone \cup {p}
  BY DEF ClearPending
<1>3. Fits(s) /\ Owed(s, chosen'[s.player])
  BY <1>0, <1>1, <1>2 DEF Fits, Owed, Unasked, Remembered
<1>4. Kept'
  BY <1>0, <1>2 DEF Inv, Kept, Typed
<1>5. ChoiceLostOnlyByClear'
  <2> SUFFICES ASSUME StickyEnabled, NEW q \in Players \ undone', wish'[q] # NoServer
               PROVE  pending'[q] = wish'[q] \/ sticky'[q] = wish'[q] \/ Rejoining(q)'
    BY DEF ChoiceLostOnlyByClear, WishKept
  <2>0. /\ wish'[q] = wish[q] /\ q \in Players \ undone
        /\ q = p => pending[p] \in {id, NoServer}
    BY <1>2
  <2>1. pending[q] = wish[q] \/ sticky[q] = wish[q] \/ Rejoining(q)
    BY <2>0 DEF Inv, ChoiceLostOnlyByClear, WishKept
  <2>2. CASE Rejoining(q)
    <3>1. Rejoining(q)'
      BY <1>0, <1>1, <2>0, <2>2, Others DEF Rejoining
    <3> QED
      BY <3>1
  <2>3. CASE sticky[q] = wish[q]
    BY <1>2, <2>0, <2>3
  <2>4. CASE pending[q] = wish[q] /\ q # p
    BY <1>0, <1>2, <2>0, <2>4 DEF Typed
  <2>5. CASE pending[q] = wish[q] /\ q = p
    <3>1. pending[p] = id
      BY <1>0, <1>2, <2>0, <2>5 DEF Typed
    <3>2. Rejoining(q)'
      BY <1>0, <1>1, <2>0, <2>5, <3>1, Others DEF Rejoining
    <3> QED
      BY <3>2
  <2> QED
    BY <2>1, <2>2, <2>3, <2>4, <2>5
<1>6. /\ pending' \in [Players -> Ids \cup {NoServer}] /\ wish' \in [Players -> Ids \cup {NoServer}]
      /\ undone' \subseteq Players
  BY <1>0, <1>2 DEF Typed
<1> QED
  BY <1>0, <1>1, <1>2, <1>3, <1>4, <1>5, <1>6, KeepInv DEF ClearPending, Typed, LobbyPlaces

LEMMA ConnectInv == ASSUME Inv, NEW c \in Conns, Connect(c) PROVE Inv'
<1> DEFINE p == conn[c].player
           id == conn[c].route
<1>0. /\ Typed /\ p \in Players /\ conn[c].pc = "connect" /\ id \in Ids
      /\ conn[c].via \in Remembered \cup {"subdomain", "only-candidate"}
      /\ conn[c].via \in Remembered => id \in chosen[p]
  BY DEF Inv, Typed, Sessions, Owed, Connect, At, Session
<1>1. UNCHANGED <<reg, pending, sticky, rejected, cookies, slots, ticket, bounds, undone>>
  BY DEF Connect, store
<1>2. CASE /\ Goto(c, IF StickyEnabled THEN "stick" ELSE "dial")
           /\ chosen' = [chosen EXCEPT ![p] =
                IF conn[c].via \in {"subdomain", "only-candidate"} THEN @ \cup {id} ELSE @]
           /\ UNCHANGED wish
  <2>1. PICK s : /\ Becomes(c, s) /\ s.pc = (IF StickyEnabled THEN "stick" ELSE "dial")
                 /\ s.player = p /\ s.route = id /\ s.via = conn[c].via
    BY <1>0, <1>2, GotoMoves DEF Places
  <2>2. chosen' \in [Players -> SUBSET Ids] /\ id \in chosen'[p]
        /\ \A q \in Players : chosen[q] \subseteq chosen'[q]
    BY <1>0, <1>2 DEF Typed, Remembered
  <2>3. Fits(s) /\ Owed(s, chosen'[s.player])
    <3>1. Fits(s)
      BY <2>1 DEF Inv, Sessions, Fits
    <3> QED
      BY <2>1, <2>2, <3>1 DEF Owed
  <2>4. Kept'
    BY <1>1, <2>2 DEF Inv, Kept, Typed, Cookie
  <2>5. ChoiceLostOnlyByClear'
    <3>1. StickyEnabled => \A q \in Players : Rejoining(q) => Rejoining(q)'
      BY <1>0, <1>2, <2>1, Others DEF Rejoining
    <3> QED
      BY <1>1, <1>2, <3>1 DEF Inv, ChoiceLostOnlyByClear, WishKept
  <2>6. s.pc \notin LobbyPlaces /\ conn[c].pc \notin LobbyPlaces
    BY <1>0, <2>1 DEF LobbyPlaces
  <2> QED
    BY <1>0, <1>1, <1>2, <2>1, <2>2, <2>3, <2>4, <2>5, <2>6, KeepInv DEF Typed
<1>3. CASE /\ Close(c) /\ UNCHANGED chosen
           /\ wish' = [wish EXCEPT ![p] =
                IF @ = id /\ conn[c].via = "pending" /\ pending[p] # id THEN NoServer ELSE @]
  <2>1. PICK s : Becomes(c, s) /\ s.pc = "idle" /\ s.via = "none"
    BY <1>0, <1>3, CloseMoves
  <2>2. Fits(s) /\ Owed(s, chosen'[s.player])
    BY <2>1 DEF Fits, Owed, Unasked
  <2>3. Kept'
    BY <1>1, <1>3 DEF Inv, Kept
  <2>4. ChoiceLostOnlyByClear'
    <3> SUFFICES ASSUME StickyEnabled, NEW q \in Players \ undone', wish'[q] # NoServer
                 PROVE  pending'[q] = wish'[q] \/ sticky'[q] = wish'[q] \/ Rejoining(q)'
      BY DEF ChoiceLostOnlyByClear, WishKept
    <3>1. /\ wish'[q] = wish[q]
          /\ q = p /\ wish[q] = id /\ conn[c].via = "pending" => pending[q] = wish[q]
      BY <1>0, <1>3 DEF Typed
    <3>2. Rejoining(q) => Rejoining(q)' \/ pending[q] = wish[q]
      BY <1>0, <2>1, <3>1, Others DEF Rejoining
    <3> QED
      BY <1>1, <3>1, <3>2 DEF Inv, ChoiceLostOnlyByClear, WishKept
  <2>5. wish' \in [Players -> Ids \cup {NoServer}]
    BY <1>0, <1>3 DEF Typed
  <2>6. s.pc \notin LobbyPlaces /\ conn[c].pc \notin LobbyPlaces
    BY <1>0, <2>1 DEF LobbyPlaces
  <2> QED
    BY <1>0, <1>1, <1>3, <2>1, <2>2, <2>3, <2>4, <2>5, <2>6, KeepInv DEF Typed
<1> QED
  BY <1>2, <1>3 DEF Connect

LEMMA StickInv == ASSUME Inv, NEW c \in Conns, Stick(c) PROVE Inv'
<1> DEFINE p == conn[c].player
           id == conn[c].route
<1>0. /\ Typed /\ p \in Players /\ conn[c].pc = "stick" /\ id \in chosen[p] /\ id \in Ids
  BY DEF Inv, Typed, Sessions, Owed, Stick, At, Session
<1>1. PICK s : /\ Becomes(c, s) /\ s.pc = "dial" /\ s.player = p
               /\ s.route = id /\ s.via = conn[c].via
  BY <1>0, GotoMoves DEF Stick, Places
<1>2. /\ sticky' = [sticky EXCEPT ![p] = id] /\ UNCHANGED <<pending, cookies, chosen, slots, undone>>
      /\ wish' = [wish EXCEPT ![p] = IF @ = id \/ pending[p] = @ THEN @ ELSE NoServer]
  BY DEF Stick
<1>3. Fits(s) /\ Owed(s, chosen'[s.player])
  BY <1>0, <1>1, <1>2 DEF Inv, Sessions, Fits, Owed
<1>4. Kept'
  BY <1>0, <1>2 DEF Inv, Kept, Typed
<1>5. ChoiceLostOnlyByClear'
  <2> SUFFICES ASSUME StickyEnabled, NEW q \in Players \ undone', wish'[q] # NoServer
               PROVE  pending'[q] = wish'[q] \/ sticky'[q] = wish'[q] \/ Rejoining(q)'
    BY DEF ChoiceLostOnlyByClear, WishKept
  <2>1. CASE q = p
    <3>1. wish[p] = id \/ pending[p] = wish[p]
      BY <1>0, <1>2, <2>1 DEF Typed
    <3> QED
      BY <1>0, <1>2, <2>1, <3>1 DEF Typed
  <2>2. CASE q # p
    <3>1. wish'[q] = wish[q] /\ sticky'[q] = sticky[q] /\ pending'[q] = pending[q]
      BY <1>0, <1>2, <2>2 DEF Typed
    <3>2. Rejoining(q) => Rejoining(q)'
      BY <1>0, <1>1, <2>2, <3>1, Others DEF Rejoining
    <3> QED
      BY <1>2, <3>1, <3>2 DEF Inv, ChoiceLostOnlyByClear, WishKept
  <2> QED
    BY <2>1, <2>2
<1>6. sticky' \in [Players -> Ids \cup {NoServer}] /\ wish' \in [Players -> Ids \cup {NoServer}]
      /\ undone' \subseteq Players
  BY <1>0, <1>2 DEF Typed
<1> QED
  BY <1>0, <1>1, <1>2, <1>3, <1>4, <1>5, <1>6, KeepInv DEF Stick, Typed, LobbyPlaces

LEMMA DialInv == ASSUME Inv, NEW c \in Conns, Dial(c) PROVE Inv'
<1> DEFINE p == conn[c].player
           id == conn[c].route
<1>0. Typed /\ p \in Players /\ conn[c].pc = "dial" /\ id \in chosen[p]
  BY DEF Inv, Typed, Sessions, Owed, Dial, At, Session
<1>1. UNCHANGED <<reg, pending, sticky, rejected, cookies, slots, ticket, bounds, undone, chosen>>
  BY DEF Dial, store
<1>2. CASE Close(c) /\ UNCHANGED wish
  BY <1>0, <1>1, <1>2, CloseInv DEF Quiet, store, history, LobbyPlaces
<1>3. CASE Goto(c, "piped") /\ wish' = [wish EXCEPT ![p] = IF @ = id THEN NoServer ELSE @]
  <2>1. PICK s : /\ Becomes(c, s) /\ s.pc = "piped" /\ s.player = p
                 /\ s.route = id /\ s.via = conn[c].via
    BY <1>0, <1>3, GotoMoves DEF Places
  <2>2. Fits(s) /\ Owed(s, chosen'[s.player])
    BY <1>0, <1>1, <2>1 DEF Inv, Sessions, Fits, Owed
  <2>3. Kept'
    BY <1>1 DEF Inv, Kept
  <2>4. ChoiceLostOnlyByClear'
    <3> SUFFICES ASSUME StickyEnabled, NEW q \in Players \ undone', wish'[q] # NoServer
                 PROVE  pending'[q] = wish'[q] \/ sticky'[q] = wish'[q] \/ Rejoining(q)'
      BY DEF ChoiceLostOnlyByClear, WishKept
    <3>1. wish'[q] = wish[q]
      BY <1>0, <1>3 DEF Typed
    <3>2. Rejoining(q) => Rejoining(q)'
      BY <1>0, <2>1, <3>1, Others DEF Rejoining
    <3> QED
      BY <1>1, <3>1, <3>2 DEF Inv, ChoiceLostOnlyByClear, WishKept
  <2>5. wish' \in [Players -> Ids \cup {NoServer}]
    BY <1>0, <1>3 DEF Typed
  <2> QED
    BY <1>0, <1>1, <2>1, <2>2, <2>3, <2>4, <2>5, KeepInv DEF Typed, LobbyPlaces
<1> QED
  BY <1>2, <1>3 DEF Dial

(* Steps of the lobby.                                                      *)

LEMMA EnterLobbyInv == ASSUME Inv, NEW c \in Conns, EnterLobby(c) PROVE Inv'
<1>0. conn[c].pc = "lobby" /\ Quiet
  BY DEF EnterLobby, At, Quiet
<1>1. CASE Close(c) /\ slots' = slots
  BY <1>0, <1>1, CloseInv DEF LobbyPlaces
<1>2. CASE /\ ~SlotsFull /\ slots' = slots + 1
           /\ \E place \in {"config", "probe", "rank"} : Goto(c, place)
  BY <1>0, <1>2, GotoInv DEF FreePlaces, LobbyPlaces
<1>3. EnterLobby(c) =>
        \/ Close(c) /\ slots' = slots
        \/ /\ ~SlotsFull /\ slots' = slots + 1
           /\ \E place \in {"config", "probe", "rank"} : Goto(c, place)
  BY DEF EnterLobby
<1> QED
  BY <1>1, <1>2, <1>3

LEMMA LeaveInv ==
  ASSUME Inv, NEW c \in Conns, conn[c].pc \in LobbyPlaces, LeaveLobby(c), Quiet PROVE Inv'
BY CloseInv DEF LeaveLobby, LobbyPlaces

\* A session in the lobby goes on with a server it found or was told.
LEMMA RouteFoundInv ==
  ASSUME Inv, NEW c \in Conns, conn[c].pc \in LobbyPlaces,
         NEW place \in {"remember", "transfer", "query", "limbo"},
         NEW id \in Ids \cup {NoServer}, NEW via \in {"match", "guess", "choice", "probe", "none"},
         GotoWith(c, place, id, via), Quiet, slots' = slots,
         place \in {"remember", "transfer"} => id \in Ids,
         via = "match" => CanPlay(Clients[conn[c].player], Servers[id]) /\ ~Servers[id].hidden
  PROVE  Inv'
<1>1. place \in Places /\ place \in LobbyPlaces /\ via \in Vias
  BY DEF Places, LobbyPlaces, Vias, Unasked
<1>2. Owed([pc |-> place, route |-> id, via |-> via], chosen[conn[c].player])
  BY DEF Owed
<1>3. conn[c].pc \notin {"connect", "stick"}
  BY DEF LobbyPlaces
<1> QED
  BY <1>1, <1>2, <1>3, GotoWithInv DEF Unasked

LEMMA ForgeModQueryStartInv == ASSUME Inv, NEW c \in Conns, ForgeModQueryStart(c) PROVE Inv'
<1>0. conn[c].pc = "probe" /\ conn[c].pc \in LobbyPlaces /\ Quiet /\ slots' = slots
  BY DEF ForgeModQueryStart, At, Quiet, LobbyPlaces
<1>1. ASSUME NEW x \in Rank(HandshakeClient(conn[c].player), VisibleOnline),
             GotoWith(c, "query", x.id, "probe")
      PROVE  Inv'
  <2>1. x.id \in Ids
    BY RankMember DEF VisibleOnline
  <2> QED
    BY <1>0, <1>1, <2>1, RouteFoundInv
<1>2. CASE GotoWith(c, "query", NoServer, "probe")
  BY <1>0, <1>2, RouteFoundInv
<1>3. CASE Goto(c, "rank")
  BY <1>0, <1>3, GotoInv DEF FreePlaces, LobbyPlaces
<1> QED
  BY <1>1, <1>2, <1>3 DEF ForgeModQueryStart

LEMMA ForgeModQueryFailsInv == ASSUME Inv, NEW c \in Conns, ForgeModQueryFails(c) PROVE Inv'
<1>0. Typed /\ conn[c].pc = "query" /\ conn[c].route \in Ids \cup {NoServer}
  BY DEF Inv, Typed, ForgeModQueryFails, At, Session
<1>1. PICK s : Becomes(c, s) /\ s.pc = "idle" /\ s.via = "none"
  BY <1>0, CloseMoves DEF ForgeModQueryFails, LeaveLobby
<1>2. Fits(s) /\ Owed(s, chosen[s.player])
  BY <1>1 DEF Fits, Owed, Unasked
<1>3. rejected' \in [Players -> SUBSET Ids]
  BY <1>0 DEF ForgeModQueryFails, Typed
<1>4. UNCHANGED <<reg, pending, sticky, cookies, ticket, changes, tickets, wish, undone, chosen>>
      /\ logins' \in Nat /\ slots' = slots - 1
  BY <1>0 DEF ForgeModQueryFails, LeaveLobby, bounds, history, Typed
<1> QED
  BY <1>0, <1>1, <1>2, <1>3, <1>4, MoveInv DEF Joining, LobbyPlaces

LEMMA RankLoginInv ==
  ASSUME Inv, NEW c \in Conns, conn[c].pc \in LobbyPlaces,
         NEW k, Knowledge(k, conn[c].player), RankLogin(c, k)
  PROVE  Inv'
<1> DEFINE p == conn[c].player
           cands == {x \in Rank(k, VisibleOnline) : x.id \notin rejected[p]}
           found == Pick(cands, AutoMinScore, AutoMargin)
<1>0. p \in Players /\ Quiet
  BY DEF Inv, Typed, Session, RankLogin, Quiet
<1>1. CASE found # NoServer /\ GotoWith(c, "remember", found, "match") /\ slots' = slots
  <2>1. found \in Ids /\ CanPlay(Clients[p], Servers[found]) /\ ~Servers[found].hidden
    BY <1>0, <1>1, PickSuits
  <2> HIDE DEF found
  <2> QED
    BY <1>0, <1>1, <2>1, RouteFoundInv
<1>2. CASE LeaveLobby(c)
  BY <1>0, <1>2, LeaveInv
<1>3. CASE GotoWith(c, "limbo", NoServer, "none") /\ slots' = slots
  BY <1>0, <1>3, RouteFoundInv
<1> QED
  BY <1>1, <1>2, <1>3 DEF RankLogin

LEMMA RankUnprobedInv == ASSUME Inv, NEW c \in Conns, RankUnprobed(c) PROVE Inv'
<1>1. conn[c].pc \in LobbyPlaces /\ conn[c].player \in Players
  BY DEF RankUnprobed, At, LobbyPlaces, Inv, Typed, Session
<1> QED
  BY <1>1, HandshakeKnowledge, RankLoginInv DEF RankUnprobed

LEMMA ForgeModQueryAnsweredInv == ASSUME Inv, NEW c \in Conns, ForgeModQueryAnswered(c) PROVE Inv'
<1>1. conn[c].pc \in LobbyPlaces /\ conn[c].player \in Players
  BY DEF ForgeModQueryAnswered, At, LobbyPlaces, Inv, Typed, Session
<1> QED
  BY <1>1, QueryKnowledge, RankLoginInv DEF ForgeModQueryAnswered

LEMMA LimboChooseInv == ASSUME Inv, NEW c \in Conns, LimboChoose(c) PROVE Inv'
<1>1. conn[c].pc \in LobbyPlaces /\ Quiet /\ slots' = slots
  BY DEF LimboChoose, At, LobbyPlaces, Quiet
<1>2. PICK id \in Ids : GotoWith(c, "remember", id, "choice")
  BY DEF LimboChoose
<1> QED
  BY <1>1, <1>2, RouteFoundInv

LEMMA LobbyEndsInv == ASSUME Inv, NEW c \in Conns, LobbyEnds(c) PROVE Inv'
<1>1. conn[c].pc \in LobbyPlaces /\ Quiet /\ LeaveLobby(c)
  BY DEF LobbyEnds, LobbyPlaces, Quiet
<1> QED
  BY <1>1, LeaveInv

LEMMA LobbyConfigInv == ASSUME Inv, NEW c \in Conns, LobbyConfig(c) PROVE Inv'
<1> DEFINE p == conn[c].player
           dialog == Protocol(p) >= Proto1_21_6
<1>0. p \in Players /\ conn[c].pc = "config" /\ conn[c].pc \in LobbyPlaces /\ Quiet
  BY DEF Inv, Typed, Session, LobbyConfig, At, LobbyPlaces, Quiet
<1>1. PICK probe \in Probes(p) :
        LET cands == Rank(Probed(p, probe), VisibleOnline)
            pick == IF conn[c].force /\ dialog THEN NoServer ELSE Pick(cands, AutoMinScore, AutoMargin)
        IN \/ pick # NoServer /\ GotoWith(c, "transfer", pick, "match") /\ UNCHANGED slots
           \/ LeaveLobby(c)
           \/ /\ \E x \in cands : GotoWith(c, "remember", x.id, "guess")
              /\ UNCHANGED slots
           \/ Goto(c, "dialog") /\ UNCHANGED slots
  BY DEF LobbyConfig
<1> DEFINE cands == Rank(Probed(p, probe), VisibleOnline)
           found == Pick(cands, AutoMinScore, AutoMargin)
<1>2. CASE found # NoServer /\ GotoWith(c, "transfer", found, "match") /\ slots' = slots
  <2>1. Knowledge(Probed(p, probe), p)
    BY <1>0, ProbeKnowledge
  <2>2. found \in Ids /\ CanPlay(Clients[p], Servers[found]) /\ ~Servers[found].hidden
    BY <1>0, <1>2, <2>1, PickSuits
  <2> HIDE DEF found
  <2> QED
    BY <1>0, <1>2, <2>2, RouteFoundInv
<1>3. CASE LeaveLobby(c)
  BY <1>0, <1>3, LeaveInv
<1>4. ASSUME NEW x \in cands, GotoWith(c, "remember", x.id, "guess"), slots' = slots PROVE Inv'
  <2>1. x.id \in Ids
    BY RankMember DEF VisibleOnline
  <2> QED
    BY <1>0, <1>4, <2>1, RouteFoundInv
<1>5. CASE Goto(c, "dialog") /\ slots' = slots
  BY <1>0, <1>5, GotoInv DEF FreePlaces, LobbyPlaces
<1> QED
  BY <1>1, <1>2, <1>3, <1>4, <1>5

LEMMA DialogChooseInv == ASSUME Inv, NEW c \in Conns, DialogChoose(c) PROVE Inv'
<1>1. conn[c].pc \in LobbyPlaces /\ Quiet
  BY DEF DialogChoose, At, LobbyPlaces, Quiet
<1>2. PICK id \in Ids : \/ GotoWith(c, "transfer", id, "choice") /\ slots' = slots
                        \/ LeaveLobby(c)
  BY DEF DialogChoose
<1>3. CASE GotoWith(c, "transfer", id, "choice") /\ slots' = slots
  BY <1>1, <1>3, RouteFoundInv
<1>4. CASE LeaveLobby(c)
  BY <1>1, <1>4, LeaveInv
<1> QED
  BY <1>2, <1>3, <1>4

LEMMA RememberInv == ASSUME Inv, NEW c \in Conns, Remember(c) PROVE Inv'
<1> DEFINE p == conn[c].player
           id == conn[c].route
<1>0. Typed /\ p \in Players /\ conn[c].pc = "remember" /\ id \in Ids
  BY DEF Inv, Typed, Sessions, Owed, Remember, At, Session
<1>1. PICK s : Becomes(c, s) /\ s.pc = "idle" /\ s.via = "none"
  BY <1>0, CloseMoves DEF Remember, LeaveLobby
<1>2. /\ pending' = [pending EXCEPT ![p] = id] /\ wish' = [wish EXCEPT ![p] = id]
      /\ chosen' = [chosen EXCEPT ![p] = @ \cup {id}] /\ slots' = slots - 1
      /\ undone' = undone \ {p} /\ UNCHANGED <<reg, sticky, rejected, cookies, ticket, bounds>>
  BY DEF Remember, LeaveLobby
<1>3. /\ pending' \in [Players -> Ids \cup {NoServer}] /\ wish' \in [Players -> Ids \cup {NoServer}]
      /\ chosen' \in [Players -> SUBSET Ids] /\ \A q \in Players : chosen[q] \subseteq chosen'[q]
      /\ undone' \subseteq Players
  BY <1>0, <1>2 DEF Typed
<1>4. Fits(s) /\ Owed(s, chosen'[s.player])
  BY <1>1 DEF Fits, Owed, Unasked
<1>5. Kept'
  BY <1>0, <1>2 DEF Inv, Kept, Typed, Cookie
<1>6. ChoiceLostOnlyByClear'
  <2> SUFFICES ASSUME StickyEnabled, NEW q \in Players \ undone', wish'[q] # NoServer
               PROVE  pending'[q] = wish'[q] \/ sticky'[q] = wish'[q] \/ Rejoining(q)'
    BY DEF ChoiceLostOnlyByClear, WishKept
  <2>1. CASE q = p
    BY <1>0, <1>2, <2>1 DEF Typed
  <2>2. CASE q # p
    <3>1. wish'[q] = wish[q] /\ sticky'[q] = sticky[q] /\ pending'[q] = pending[q]
      BY <1>0, <1>2, <2>2 DEF Typed
    <3>2. Rejoining(q) => Rejoining(q)'
      BY <1>0, <1>1, <3>1, Others DEF Rejoining
    <3> QED
      BY <1>2, <2>2, <3>1, <3>2 DEF Inv, ChoiceLostOnlyByClear, WishKept
  <2> QED
    BY <2>1, <2>2
<1> QED
  BY <1>0, <1>1, <1>2, <1>3, <1>4, <1>5, <1>6, KeepInv DEF Typed, LobbyPlaces

LEMMA SignRouteKept ==
  ASSUME Typed, Kept, NEW p \in Players, NEW route \in Routes, SignRoute(p, route),
         UNCHANGED <<pending, sticky>>
  PROVE  /\ cookies' \subseteq Cookie /\ chosen' \in [Players -> SUBSET Ids]
         /\ \A q \in Players : chosen[q] \subseteq chosen'[q]
         /\ Kept'
<1>1. cookies' = cookies \cup {[route |-> route, player |-> p]}
      /\ chosen' = [chosen EXCEPT ![p] = @ \cup ({route} \cap Ids)]
  BY DEF SignRoute
<1>2. cookies' \subseteq Cookie
  BY <1>1 DEF Typed, Cookie
<1>3. chosen' \in [Players -> SUBSET Ids] /\ \A q \in Players : chosen[q] \subseteq chosen'[q]
  BY <1>1 DEF Typed
<1>4. route \in chosen'[p] \cup {LobbyRoute}
  BY <1>1 DEF Typed, Routes
<1>5. \A ck \in cookies' : ck.route \in chosen'[ck.player] \cup {LobbyRoute}
  BY <1>1, <1>3, <1>4 DEF Kept, Typed, Cookie
<1>6. \A q \in Players : {pending'[q], sticky'[q]} \subseteq chosen'[q] \cup {NoServer}
  BY <1>3 DEF Kept
<1> QED
  BY <1>2, <1>3, <1>5, <1>6 DEF Kept

LEMMA TransferInv == ASSUME Inv, NEW c \in Conns, Transfer(c) PROVE Inv'
<1>0. Typed /\ Kept /\ conn[c].player \in Players /\ conn[c].pc = "transfer" /\ conn[c].route \in Routes
  BY DEF Inv, Typed, Sessions, Owed, Transfer, At, Session, Routes
<1>1. PICK s : /\ Becomes(c, s) /\ s.pc = "leaving" /\ s.player = conn[c].player
               /\ s.route = conn[c].route /\ s.via = conn[c].via
  BY <1>0, GotoMoves DEF Transfer, Places, LobbyPlaces
<1>2. UNCHANGED <<reg, pending, sticky, rejected, ticket, bounds, wish, undone, slots>>
  BY DEF Transfer, store
<1>3. /\ cookies' \subseteq Cookie /\ chosen' \in [Players -> SUBSET Ids]
      /\ \A q \in Players : chosen[q] \subseteq chosen'[q]
      /\ Kept'
  BY <1>0, <1>2, SignRouteKept DEF Transfer
<1>4. Fits(s) /\ Owed(s, chosen'[s.player])
  BY <1>1 DEF Inv, Sessions, Fits, Owed
<1>5. ChoiceLostOnlyByClear'
  BY <1>0, <1>1, <1>2, MoveChoice DEF Inv, Becomes, Joining
<1> QED
  BY <1>0, <1>1, <1>2, <1>3, <1>4, <1>5, KeepInv DEF Typed, LobbyPlaces

(* Tickets and the environment: sessions stay where they are.               *)

LEMMA StayInv ==
  ASSUME Inv, UNCHANGED <<conn, slots>>, Typed', Kept', ChoiceLostOnlyByClear',
         \A p \in Players : chosen[p] \subseteq chosen'[p]
  PROVE  Inv'
<1>1. \A c \in Conns : conn[c].player \in Players
  BY DEF Inv, Typed, Session
<1>2. Sessions'
  BY <1>1 DEF Inv, Sessions, Fits, Owed
<1>3. Slots'
  BY DEF Inv, Slots, SlotsMatch
<1> QED
  BY <1>2, <1>3 DEF Inv

\* The choice of player p is settled anew; those of others are left alone.
LEMMA SettleChoice ==
  ASSUME Typed, ChoiceLostOnlyByClear, NEW p \in Players, UNCHANGED conn,
         wish'[p] \in {NoServer, pending'[p], sticky'[p]}, undone' \in {undone, undone \ {p}},
         \A q \in Players \ {p} : /\ wish'[q] = wish[q] /\ pending'[q] = pending[q]
                                  /\ sticky'[q] = sticky[q]
  PROVE  ChoiceLostOnlyByClear'
<1>1. \A q \in Players \ {p} : Rejoining(q) => Rejoining(q)'
  BY DEF Rejoining
<1> QED
  BY <1>1 DEF ChoiceLostOnlyByClear, WishKept

LEMMA SameChoice ==
  ASSUME ChoiceLostOnlyByClear, UNCHANGED <<conn, wish, undone, pending, sticky>>
  PROVE  ChoiceLostOnlyByClear'
BY DEF ChoiceLostOnlyByClear, WishKept, Rejoining

LEMMA IssueTicketInv ==
  ASSUME Inv, NEW p \in Players, NEW target \in Routes, IssueTicket(p, target) PROVE Inv'
<1>0. Typed /\ Kept /\ ChoiceLostOnlyByClear
  BY DEF Inv
<1>1. UNCHANGED <<reg, sticky, rejected, conn, slots, logins, changes>> /\ tickets' \in Nat
  BY <1>0 DEF IssueTicket, Typed
<1>2. CASE SignRoute(p, target) /\ UNCHANGED <<pending, ticket, wish, undone>>
  <2>1. /\ cookies' \subseteq Cookie /\ chosen' \in [Players -> SUBSET Ids]
        /\ \A q \in Players : chosen[q] \subseteq chosen'[q]
        /\ Kept'
    BY <1>0, <1>1, <1>2, SignRouteKept
  <2>2. Typed'
    BY <1>0, <1>1, <1>2, <2>1 DEF Typed
  <2> QED
    BY <1>0, <1>1, <1>2, <2>1, <2>2, SameChoice, StayInv
<1>3. CASE /\ pending' = [pending EXCEPT ![p] = NoServer]
           /\ wish' = [wish EXCEPT ![p] = NoServer] /\ UNCHANGED <<cookies, ticket, undone, chosen>>
  <2>1. Typed'
    BY <1>0, <1>1, <1>3 DEF Typed
  <2>2. Kept'
    BY <1>0, <1>1, <1>3 DEF Kept, Typed
  <2>3. ChoiceLostOnlyByClear'
    BY <1>0, <1>1, <1>3, SettleChoice DEF Typed
  <2> QED
    BY <1>1, <1>3, <2>1, <2>2, <2>3, StayInv
<1>4. CASE /\ target \in Ids /\ ticket' = [player |-> p, route |-> target]
           /\ UNCHANGED <<pending, cookies, history>>
  <2>1. Typed'
    BY <1>0, <1>1, <1>4 DEF Typed, history
  <2>2. Kept'
    BY <1>0, <1>1, <1>4 DEF Kept, history
  <2> QED
    BY <1>0, <1>1, <1>4, <2>1, <2>2, SameChoice, StayInv DEF history
<1> QED
  BY <1>2, <1>3, <1>4 DEF IssueTicket

LEMMA TicketRememberInv == ASSUME Inv, TicketRemember PROVE Inv'
<1> DEFINE p == ticket.player
           id == ticket.route
<1>0. Typed /\ Kept /\ ChoiceLostOnlyByClear /\ p \in Players /\ id \in Ids
  BY DEF Inv, Typed, TicketRemember
<1>1. /\ pending' = [pending EXCEPT ![p] = id] /\ wish' = [wish EXCEPT ![p] = id]
      /\ chosen' = [chosen EXCEPT ![p] = @ \cup {id}] /\ ticket' = NoTicket
      /\ undone' = undone \ {p}
      /\ UNCHANGED <<reg, sticky, rejected, cookies, conn, slots, bounds>>
  BY DEF TicketRemember
<1>2. NoTicket \in [player : Players, route : Ids \cup {NoServer}]
  BY AnyPlayerIsOne DEF NoTicket
<1>3. Typed'
  BY <1>0, <1>1, <1>2 DEF Typed, bounds
<1>4. Kept'
  BY <1>0, <1>1 DEF Kept, Typed, Cookie
<1>5. ChoiceLostOnlyByClear'
  BY <1>0, <1>1, SettleChoice DEF Typed
<1>6. \A q \in Players : chosen[q] \subseteq chosen'[q]
  BY <1>0, <1>1 DEF Typed
<1> QED
  BY <1>1, <1>3, <1>4, <1>5, <1>6, StayInv

LEMMA RegistryChangeInv == ASSUME Inv, NEW id \in Ids, RegistryChange(id) PROVE Inv'
<1>0. Typed /\ Kept /\ ChoiceLostOnlyByClear
  BY DEF Inv
<1>1. UNCHANGED <<pending, sticky, rejected, cookies, conn, slots, ticket, logins, tickets, wish, undone, chosen>>
  BY DEF RegistryChange, store, history
<1>2. reg' \in [Ids -> {"gone", "offline", "online"}] /\ changes' \in Nat
  BY <1>0 DEF RegistryChange, Typed
<1>3. Typed'
  BY <1>0, <1>1, <1>2 DEF Typed
<1>4. Kept'
  BY <1>0, <1>1 DEF Kept
<1> QED
  BY <1>0, <1>1, <1>3, <1>4, SameChoice, StayInv

LEMMA ExpireInv == ASSUME Inv, NEW p \in Players, Expire(p) PROVE Inv'
<1>0. Typed /\ Kept /\ ChoiceLostOnlyByClear
  BY DEF Inv
<1>1. /\ UNCHANGED <<reg, conn, slots, ticket, logins, changes, tickets, undone, chosen>>
      /\ wish' = [wish EXCEPT ![p] = IF @ \in {pending'[p], sticky'[p]} THEN @ ELSE NoServer]
  BY DEF Expire, bounds
<1>2. /\ pending' = pending \/ pending' = [pending EXCEPT ![p] = NoServer]
      /\ sticky' = sticky \/ sticky' = [sticky EXCEPT ![p] = NoServer]
      /\ cookies' \subseteq cookies
  BY DEF Expire, store
<1>3. rejected' \in [Players -> SUBSET Ids]
  <2>1. rejected' = rejected \/ \E id : rejected' = [rejected EXCEPT ![p] = @ \ {id}]
    BY DEF Expire, store
  <2> QED
    BY <1>0, <2>1 DEF Typed
<1>4. pending' \in [Players -> Ids \cup {NoServer}] /\ sticky' \in [Players -> Ids \cup {NoServer}]
      /\ wish' \in [Players -> Ids \cup {NoServer}]
  BY <1>0, <1>1, <1>2 DEF Typed
<1>5. Typed'
  BY <1>0, <1>1, <1>2, <1>3, <1>4 DEF Typed
<1>6. Kept'
  BY <1>0, <1>1, <1>2 DEF Kept, Typed
<1>7. \A q \in Players \ {p} : wish'[q] = wish[q] /\ pending'[q] = pending[q] /\ sticky'[q] = sticky[q]
  BY <1>0, <1>1, <1>2 DEF Typed
<1>8. wish'[p] \in {NoServer, pending'[p], sticky'[p]}
  BY <1>0, <1>1 DEF Typed
<1>9. ChoiceLostOnlyByClear'
  BY <1>0, <1>1, <1>7, <1>8, SettleChoice
<1> QED
  BY <1>1, <1>5, <1>6, <1>9, StayInv

-----------------------------------------------------------------------------
LEMMA NextInv == ASSUME Inv, [Next]_vars PROVE Inv'
<1>1. ASSUME NEW c \in Conns, RouteStep(c) PROVE Inv'
  BY <1>1, ReadRouteCookieInv, GetPendingInv, CheckPendingInv, ClearPendingInv, GetStickyInv,
     CheckStickyInv, OnlyCandidateInv, ConnectInv, StickInv, DialInv, PipeEndsInv DEF RouteStep
<1>2. ASSUME NEW c \in Conns, LobbyStep(c) PROVE Inv'
  BY <1>2, EnterLobbyInv, RememberInv, ForgeModQueryStartInv, ForgeModQueryFailsInv,
     ForgeModQueryAnsweredInv, RankUnprobedInv, LimboChooseInv, LobbyConfigInv, DialogChooseInv,
     TransferInv, LobbyEndsInv DEF LobbyStep
<1>3. CASE UNCHANGED vars
  <2>1. Typed' /\ Kept' /\ ChoiceLostOnlyByClear' /\ UNCHANGED <<conn, slots, chosen>>
    BY <1>3 DEF vars, store, history, bounds, Inv, Typed, Kept, ChoiceLostOnlyByClear, WishKept, Rejoining
  <2> QED
    BY <2>1, StayInv
<1> QED
  BY <1>1, <1>2, <1>3, LoginInv, IssueTicketInv, ExpireInv, TicketRememberInv, RegistryChangeInv
  DEF Next

LEMMA SpecInv == Spec => []Inv
<1> QED
  BY InitInv, NextInv, PTL DEF Spec

\* Every variable has its type in every reachable state; in particular the
\* lobby semaphore (lobby.go:18-25) never holds more than its capacity.
THEOREM TypeCorrect == Spec => []TypeOK
<1>1. Inv => TypeOK
  BY DEF Inv, Typed, Slots, TypeOK
<1> QED
  BY <1>1, SpecInv, PTL

\* Nobody is sent unasked (lobby.go:56 and 256, router.go:451) to a server the
\* client cannot play on, whatever servers are registered and whatever part
\* of the client the gateway has learned.
THEOREM UnaskedCorrect == Spec => []AutoRouteFits
<1>1. Inv => AutoRouteFits
  BY DEF Inv, Sessions, Fits, Unasked, AutoRouteFits
<1> QED
  BY <1>1, SpecInv, PTL

\* The lobby semaphore (lobby.go:18-25) counts the sessions in the lobby.
THEOREM SlotsCorrect == Spec => []SlotsMatch
<1>1. Inv => SlotsMatch
  BY DEF Inv, Slots
<1> QED
  BY <1>1, SpecInv, PTL

\* A cookie, a remembered choice or a sticky route (cookie.go:17-18,
\* pending.go:31-62) leads a player only where that player asked to go or was sent.
THEOREM ChosenCorrect == Spec => []RouteWasChosen
<1>1. Inv => RouteWasChosen
  BY DEF Inv, Sessions, Owed, Remembered, RouteWasChosen
<1> QED
  BY <1>1, SpecInv, PTL

\* A choice the gateway promised to remember leads the player back until it is
\* reached (router.go:434-437 and 570), for any number of sessions and
\* tickets, unless a Clear meant for an older choice of the player deleted it:
\* that lost update is the only one.
THEOREM ChoiceCorrect == Spec => []ChoiceLostOnlyByClear
<1>1. Inv => ChoiceLostOnlyByClear
  BY DEF Inv
<1> QED
  BY <1>1, SpecInv, PTL
=============================================================================
