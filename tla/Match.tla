------------------------------- MODULE Match -------------------------------
(***************************************************************************)
(* internal/match: which servers fit a client, in which order, and whether *)
(* one of them is clear enough to send the player there without asking.    *)
(*                                                                         *)
(* A server is its registration as far as matching reads it, a client is   *)
(* what the gateway learned of the player.  Identifiers are numbers; the   *)
(* registry lists servers in the order of their identifiers.               *)
(***************************************************************************)
EXTENDS Integers, FiniteSets

CONSTANTS
  Servers,      \* identifier -> registration
  Ignored,      \* namespaces that carry no modpack signal
  Proto1_20_1,  \* the last protocol on which NeoForge is Forge on the wire
  NoMods        \* Client.Mods is nil: unknown

NoServer == 0
Ids == DOMAIN Servers

ASSUME IdsAssumption == Ids \subseteq Nat \ {NoServer}

ASSUME ServersAssumption ==
  \A id \in Ids :
    /\ Servers[id].protocols \subseteq Nat \ {0}
    /\ {Servers[id].min, Servers[id].max, Servers[id].pinged, Servers[id].players} \subseteq Nat

(* Server.Accepts: the exact list, else the range, else the protocol of the *)
(* last health ping; 0 stands for not given.                                *)
Accepts(s, protocol) ==
  IF s.protocols # {} THEN protocol \in s.protocols
  ELSE IF s.min = 0 /\ s.max = 0 THEN s.pinged # 0 /\ protocol = s.pinged
  ELSE /\ protocol >= IF s.min = 0 THEN s.max ELSE s.min
       /\ protocol <= IF s.max = 0 THEN s.min ELSE s.max

Family(loader, protocol) ==
  CASE loader \in {"fabric", "quilt"} -> "fabric"
    [] loader = "forge" -> "forge"
    [] loader = "neoforge" /\ protocol # 0 /\ protocol <= Proto1_20_1 -> "forge"
    [] loader = "neoforge" /\ ~(protocol # 0 /\ protocol <= Proto1_20_1) -> "neoforge"
    [] OTHER -> "vanilla"

ClientFamily(c) ==
  IF c.loader = "unknown" THEN "unknown" ELSE Family(c.loader, c.protocol)

ModSet(mods) == mods \ Ignored

Signalling(s) == {ch \in s.channels : ch.ns \notin Ignored}

ServerMods(s) == ModSet(s.mods) \cup {ch.ns : ch \in Signalling(s)}

Required(s) ==
  ModSet(s.requiredClientMods) \cup {ch.ns : ch \in {x \in Signalling(s) : x.required}}

\* Mods that are all server-side make a modded server a plain one.
NeedsLoader(s, protocol) ==
  LET sf == Family(s.loader, protocol) IN
  /\ sf # "vanilla"
  /\ Required(s) # {} \/ (sf # "fabric" /\ ServerMods(s) # {})

NaturalFit(cf, sf) == (sf = "vanilla" /\ cf \in {"vanilla", "unknown"}) \/ cf = sf

\* Only a client of unknown loader on a Fabric server is let through unsure.
Compatible(c, s) ==
  LET cf == ClientFamily(c)  sf == Family(s.loader, c.protocol) IN
  /\ Accepts(s, c.protocol)
  /\ ~NeedsLoader(s, c.protocol) \/ cf = sf \/ (cf = "unknown" /\ sf = "fabric")
  /\ c.mods # NoMods => Required(s) \subseteq ModSet(c.mods)

CertainModsAssumed(c, s) ==
  ~NeedsLoader(s, c.protocol) \/ ClientFamily(c) = Family(s.loader, c.protocol)

Certain(c, s) ==
  /\ ~NeedsLoader(s, c.protocol) \/ ClientFamily(c) = Family(s.loader, c.protocol)
  /\ c.mods = NoMods => Required(s) = {}

Overlap(mods, serverMods) ==
  LET union == mods \cup serverMods IN
  IF union = {} THEN 0
  ELSE (50 * Cardinality(mods \cap serverMods)) \div Cardinality(union)

Score(c, s) ==
  LET cf == ClientFamily(c)  sf == Family(s.loader, c.protocol) IN
  (CASE ~NeedsLoader(s, c.protocol) /\ NaturalFit(cf, sf) -> 60
     [] ~NeedsLoader(s, c.protocol) /\ ~NaturalFit(cf, sf) -> 40
     [] NeedsLoader(s, c.protocol) /\ cf = sf -> 50
     [] OTHER -> 20)
  + IF c.mods = NoMods THEN 0 ELSE Overlap(ModSet(c.mods), ServerMods(s))

Candidate(c, id) ==
  [id |-> id, score |-> Score(c, Servers[id]), certain |-> Certain(c, Servers[id])]

\* The sort is stable and the registry lists by identifier.
Better(a, b) ==
  \/ a.score > b.score
  \/ /\ a.score = b.score
     /\ \/ Servers[a.id].players > Servers[b.id].players
        \/ Servers[a.id].players = Servers[b.id].players /\ a.id < b.id

\* The candidates; the code keeps them sorted, best first.
Rank(c, ids) == {Candidate(c, id) : id \in {i \in ids : Compatible(c, Servers[i])}}

IsBest(x, cands) == x \in cands /\ \A y \in cands \ {x} : Better(x, y)

\* The server to send the player to without asking, or NoServer: a runner-up
\* that is far enough behind leaves every other candidate as far behind.
Pick(cands, minScore, margin) ==
  LET clear == {x \in cands :
                  /\ IsBest(x, cands) /\ x.certain
                  /\ \A y \in cands \ {x} : x.score >= minScore /\ x.score - y.score >= margin}
  IN IF clear = {} THEN NoServer ELSE (CHOOSE x \in clear : TRUE).id
=============================================================================
