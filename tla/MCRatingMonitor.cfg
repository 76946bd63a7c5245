CONSTANTS
    p1 = p1
    p2 = p2
    p3 = p3
    Peers <- MCPeers
    TopCap = 2
    BadCap = 1
    MinRating <- MCMinRating
    MaxRating = 1
    Grace = 2
    TraceLogging = TRUE
    NotMarked = NotMarked
    NoRating = NoRating
SYMMETRY MCSymmetry
SPECIFICATION Spec
PROPERTY RefinesLockedHandler
