\* Same bounds as MCPeersRatingHandler.cfg; checks the spec's promise that
\* every rating record stays in one of the two cachers.
CONSTANTS
    p1 = p1
    p2 = p2
    p3 = p3
    Peers <- MCPeers
    TopCap = 2
    BadCap = 1
    MinRating <- MCMinRating
    MaxRating = 1
    Grace = 2
    TraceLogging = FALSE
    NotMarked = NotMarked
    NoRating = NoRating
SYMMETRY MCSymmetry
SPECIFICATION Spec
INVARIANT RecordInACacher
