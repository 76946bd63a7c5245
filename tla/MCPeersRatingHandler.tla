----------------------- MODULE MCPeersRatingHandler -----------------------
(* Instantiates PeersRatingHandler for TLC: three peers, a top cacher that *)
(* holds two of them and a bad cacher that holds one, so that both LRU     *)
(* evictions and tier moves into a full cacher happen.                     *)
EXTENDS PeersRatingHandler, TLC

CONSTANTS p1, p2, p3

MCPeers == {p1, p2, p3}
MCPeersLive == {p1, p2}
MCSymmetry == Permutations(MCPeers)
MCMinRating == -2
=============================================================================
