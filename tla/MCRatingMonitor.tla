-------------------------- MODULE MCRatingMonitor --------------------------
(* Instantiates RatingMonitor for TLC with the bounds of                   *)
(* MCPeersRatingHandler: three peers, a top cacher of two and a bad        *)
(* cacher of one, ratings -2..1.                                           *)
EXTENDS RatingMonitor, TLC

CONSTANTS p1, p2, p3

MCPeers == {p1, p2, p3}
MCSymmetry == Permutations(MCPeers)
MCMinRating == -2
=============================================================================
