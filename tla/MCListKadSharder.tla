------------------------- MODULE MCListKadSharder -------------------------
(* Four peers, two real shards and the unknown one, two distances.        *)
EXTENDS ListKadSharder, TLC

CONSTANTS a1, a2, a3, a4, Unknown

MCPeers == {a1, a2, a3, a4}
MCShardIds == {0, 1, Unknown}
MCSymmetry == Permutations(MCPeers)
=============================================================================
