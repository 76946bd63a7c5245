\* Two peers and one-entry cachers: a Put into a full cacher evicts, a tier
\* move lands in a full cacher, TRACE-level Gets reorder; no symmetry,
\* because of the liveness properties.
CONSTANTS
    p1 = p1
    p2 = p2
    p3 = p3
    Peers <- MCPeersLive
    TopCap = 1
    BadCap = 1
    MinRating <- MCMinRating
    MaxRating = 1
    Grace = 2
    TraceLogging = TRUE
    NotMarked = NotMarked
    NoRating = NoRating
SPECIFICATION Spec
INVARIANT TypeOK
INVARIANT TierConsistency
INVARIANT TopRatedPeersServedFirst
PROPERTY PurgeOnlyAfterGrace
PROPERTY MarkEventuallyResolved
PROPERTY RefinesAbstractRating
