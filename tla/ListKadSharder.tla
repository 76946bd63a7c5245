--------------------------- MODULE ListKadSharder ---------------------------
(***************************************************************************)
(* listKadSharder.ComputeEvictList of                                      *)
(* src/p2p/libp2p/networksharding/listKadSharder.go, driven the way the    *)
(* connection monitor drives it: on every new connection the monitor asks  *)
(* for the eviction list of all connected peers and closes the peers on    *)
(* it; a remote peer may drop a connection at any time.                    *)
(*                                                                         *)
(* The resolver's answers (shard of each peer and of self) and the         *)
(* Kademlia distance of each peer to self are fixed per behaviour and      *)
(* chosen in Init.  computeDistance is a popcount of a hash XOR: only the  *)
(* order of the results matters, so they range over a small set.  evict   *)
(* sorts with sort.Sort, whose order among equal distances depends on the  *)
(* order of netw.Peers(): any kept set that respects the distance order is *)
(* a possible outcome.                                                     *)
(***************************************************************************)
EXTENDS Integers, FiniteSets

CONSTANTS
    Peers,              \* remote peer ids
    ShardIds,           \* shard ids the resolver can answer
    UnknownShardId,     \* sharding.UnknownShardId, a member of ShardIds
    Distances,          \* possible results of computeDistance
    MaxPeerCount,
    MaxIntraShard,
    MaxCrossShard

MinAllowedConnectedPeers == 2
MinAllowedPeersOnList == 1

\* NewListKadSharder's argument checks
ArgsValid ==
    /\ UnknownShardId \in ShardIds
    /\ MaxPeerCount >= MinAllowedConnectedPeers
    /\ MaxIntraShard >= MinAllowedPeersOnList
    /\ MaxCrossShard >= MinAllowedPeersOnList

ASSUME ArgsValid

VARIABLES
    connected,      \* peers the host is connected to
    shardOf,        \* peerShardResolver.ByID for each peer
    selfShard,      \* peerShardResolver.ByID(selfPeerId)
    distance        \* computeDistance(p, selfPeerId)

vars == <<connected, shardOf, selfShard, distance>>

-----------------------------------------------------------------------------

\* splitPeerIds: the switch tests UnknownShardId before selfId
splitPeerIds(pids) ==
    [unknown |-> {p \in pids : shardOf[p] = UnknownShardId},
     intra   |-> {p \in pids : shardOf[p] # UnknownShardId /\ shardOf[p] = selfShard},
     cross   |-> {p \in pids : shardOf[p] # UnknownShardId /\ shardOf[p] # selfShard}]

\* mutant: the slice keeps numKeep + 1 entries
EvictKeepOneMore(pds, numKeep) ==
    LET n == IF numKeep < 0 THEN 0 ELSE numKeep
    IN  IF n + 1 >= Cardinality(pds) THEN {pds}
        ELSE {k \in SUBSET pds :
                /\ Cardinality(k) = n + 1
                /\ \A a \in k, b \in pds \ k : distance[a] <= distance[b]}

\* evict: the possible sets of remaining peers, the numKeep nearest to self
evict(pds, numKeep) ==
    LET n == IF numKeep < 0 THEN 0 ELSE numKeep
    IN  IF n >= Cardinality(pds) THEN {pds}
        ELSE {k \in SUBSET pds :
                /\ Cardinality(k) = n
                /\ \A a \in k, b \in pds \ k : distance[a] <= distance[b]}

\* mutant: the unknown budget is maxPeerCount + 2 - kept intra - kept cross
UnknownKeptTwoSlack(u, ki, kc) ==
    IF Cardinality(ki) + Cardinality(kc) + Cardinality(u) <= MaxPeerCount
    THEN {u}
    ELSE evict(u, MaxPeerCount + 2 - Cardinality(ki) - Cardinality(kc))

\* the possible remaining unknown peers, once intra and cross are trimmed
unknownKept(u, ki, kc) ==
    IF Cardinality(ki) + Cardinality(kc) + Cardinality(u) <= MaxPeerCount
    THEN {u}
    ELSE evict(u, MaxPeerCount + 1 - Cardinality(ki) - Cardinality(kc))

\* ComputeEvictList: the possible eviction lists (as sets) for pids
ComputeEvictList(pids) ==
    LET split == splitPeerIds(pids)
    IN  UNION {UNION {{pids \ (ki \cup kc \cup ku) : ku \in unknownKept(split.unknown, ki, kc)} :
                        kc \in evict(split.cross, MaxCrossShard)} :
                 ki \in evict(split.intra, MaxIntraShard)}

-----------------------------------------------------------------------------

Init ==
    /\ connected = {}
    /\ shardOf \in [Peers -> ShardIds]
    /\ selfShard \in ShardIds
    /\ distance \in [Peers -> Distances]

\* connection monitor Connected: evict from all connected peers, close them
Connected(p) ==
    /\ p \notin connected
    /\ \E ev \in ComputeEvictList(connected \cup {p}) :
          connected' = (connected \cup {p}) \ ev
    /\ UNCHANGED <<shardOf, selfShard, distance>>

\* the remote side, or an eviction elsewhere, closes the connection
Disconnected(p) ==
    /\ p \in connected
    /\ connected' = connected \ {p}
    /\ UNCHANGED <<shardOf, selfShard, distance>>

Next == \E p \in Peers : Connected(p) \/ Disconnected(p)

Spec == Init /\ [][Next]_vars

-----------------------------------------------------------------------------

TypeOK ==
    /\ connected \subseteq Peers
    /\ shardOf \in [Peers -> ShardIds]
    /\ selfShard \in ShardIds
    /\ distance \in [Peers -> Distances]

Caps == [intra |-> MaxIntraShard, cross |-> MaxCrossShard]

\* ComputeEvictList keeps the intra shard and the cross shard lists within
\* maxIntraShard and maxCrossShard, over every sequence of connections.
CategoryCapsRespected ==
    LET split == splitPeerIds(connected)
    IN  \A c \in {"intra", "cross"} : Cardinality(split[c]) <= Caps[c]

\* The node's connection count stays bounded over every sequence of
\* connections and disconnections: after each eviction it holds at most
\* maxPeerCount + 1 peers (the "+ 1" of remainingForUnknown, which spec 9
\* says to keep), or maxIntraShard + maxCrossShard when the two caps alone
\* add up to more; the spec's data model calls maxPeerCount the maximum.
ConnectionsWithinPeerBudget ==
    LET capSum == MaxIntraShard + MaxCrossShard
    IN  Cardinality(connected) <=
            IF capSum > MaxPeerCount + 1 THEN capSum ELSE MaxPeerCount + 1

=============================================================================
