-------------------------- MODULE MCBackendBinding --------------------------
(* Two servers of one type, one of another; sessions are interchangeable.  *)
EXTENDS BackendBinding, TLC

CONSTANTS g1, g2, c1, game, chat

MCServers == {g1, g2, c1}
MCTypes == {game, chat}
MCType == [x \in MCServers |-> IF x = c1 THEN chat ELSE game]
Symmetry == Permutations(Sessions) \cup Permutations(Callers)
=============================================================================
