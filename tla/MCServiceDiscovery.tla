------------------------ MODULE MCServiceDiscovery ------------------------
(* Instances of ServiceDiscovery for TLC. *)
EXTENDS ServiceDiscovery, TLC

CONSTANTS kself, ka, kb, kjunk, self, a, b, game, room, hidden

(* This server, a peer, a blacklisted peer and a key that does not parse.  *)
WideKeys == {kself, ka, kb, kjunk}
WideType == kself :> room @@ ka :> game @@ kb :> hidden @@ kjunk :> game
WideId == kself :> self @@ ka :> a @@ kb :> b @@ kjunk :> kjunk
WideRank == kself :> 3 @@ ka :> 1 @@ kb :> 2 @@ kjunk :> 4
WideBatches == {{ka}, {ka, kb}, {kself, kjunk}}

(* One peer registered under two types.                                    *)
MovedKeys == {kself, ka, kb}
MovedType == kself :> room @@ ka :> game @@ kb :> room
MovedId == kself :> self @@ ka :> a @@ kb :> a
MovedRank == kself :> 3 @@ ka :> 1 @@ kb :> 2
MovedBatches == {{ka}, {ka, kb}}

DocSymmetry == Permutations(Docs)

=============================================================================
