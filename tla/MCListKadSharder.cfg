CONSTANTS
    a1 = a1
    a2 = a2
    a3 = a3
    a4 = a4
    Unknown = Unknown
    Peers <- MCPeers
    ShardIds <- MCShardIds
    UnknownShardId = Unknown
    Distances = {0, 1}
    MaxPeerCount = 2
    MaxIntraShard = 1
    MaxCrossShard = 2
SYMMETRY MCSymmetry
SPECIFICATION Spec
INVARIANT CategoryCapsRespected
INVARIANT ConnectionsWithinPeerBudget
