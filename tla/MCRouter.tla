------------------------------ MODULE MCRouter ------------------------------
(* Protocols: 1 has no limbo, 2 has one, 3 is 1.20.5, 4 is 1.21.6.          *)
EXTENDS Router, TLC

Plugins ==
  [loader |-> "paper", protocols |-> {}, min |-> 1, max |-> 4, pinged |-> 2, players |-> 0,
   mods |-> {}, requiredClientMods |-> {}, channels |-> {}, hidden |-> FALSE, forgeChannels |-> FALSE]
ForgePack ==
  [loader |-> "forge", protocols |-> {}, min |-> 0, max |-> 0, pinged |-> 2, players |-> 1,
   mods |-> {"create"}, requiredClientMods |-> {}, channels |-> {}, hidden |-> FALSE, forgeChannels |-> TRUE]
FabricPack ==
  [loader |-> "fabric", protocols |-> {3, 4}, min |-> 0, max |-> 0, pinged |-> 4, players |-> 1,
   mods |-> {}, requiredClientMods |-> {"c"}, channels |-> {[ns |-> "voice", required |-> TRUE]},
   hidden |-> FALSE, forgeChannels |-> FALSE]

Staff == [Plugins EXCEPT !.hidden = TRUE, !.players = 5]

ForgePlayer == [protocol |-> 2, marker |-> "FML2", loader |-> "forge", brand |-> "forge", mods |-> {"create"}]
FabricPlayer == [protocol |-> 4, marker |-> "none", loader |-> "fabric", brand |-> "fabric", mods |-> {"maps"}]
VoicePlayer == [protocol |-> 3, marker |-> "none", loader |-> "quilt", brand |-> "quilt", mods |-> {"voice"}]

MCServers == 1 :> Plugins @@ 2 :> ForgePack @@ 3 :> FabricPack @@ 4 :> Staff
MCClients == "steve" :> ForgePlayer @@ "alex" :> FabricPlayer @@ "sunny" :> VoicePlayer
MCIgnored == {"c"}
MCLimbo == {2}
MCHosts == {Plain, LobbyRoute, 2}
ConnSymmetry == Permutations(Conns)
=============================================================================
