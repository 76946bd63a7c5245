------------------------- MODULE MessengerResolver -------------------------
(***************************************************************************)
(* The peer shard resolver of the network messenger                        *)
(* (src/libp2p/netMessenger.go) and the calls that read it.               *)
(*                                                                         *)
(* SetPeerShardResolver gives the new resolver to the sharder first, then  *)
(* takes mutPeerResolver for writing and assigns the messenger's field.    *)
(* GetConnectedPeersInfo holds mutPeerResolver for reading while it looks  *)
(* up itself and every connected peer; ConnectedFullHistoryPeersOnTopic    *)
(* reads the field once per peer without the mutex.                        *)
(*                                                                         *)
(* mutPeerResolver is a sync.RWMutex: a writer blocked in Lock keeps new   *)
(* readers out.  The field is an interface value of two words, so a read   *)
(* racing with the assignment is a data race: it may see the old value,   *)
(* the new one, or a torn mix (Torn).                                      *)
(*                                                                         *)
(* The peer topic notifiers list is the other field read on the admission  *)
(* path: pubsub calls the peer filter newPeerFound, which holds            *)
(* mutPeerTopicNotifiers for reading while it calls every notifier;        *)
(* AddPeerTopicNotifier appends to the list under the write lock.          *)
(***************************************************************************)
EXTENDS Naturals, FiniteSets, Sequences

CONSTANTS
    Resolvers,       \* resolver values (model values)
    InitResolver,    \* the unknownPeerShardResolver set at construction
    Setters,         \* threads calling SetPeerShardResolver
    InfoReaders,     \* threads calling GetConnectedPeersInfo
    NumPeers,        \* connected peers each reader looks up
    Torn,            \* model value: a torn read of the field
    NoSetter,
    Notifiers,       \* non-nil notifiers that can be added (model values)
    Adders,          \* threads calling AddPeerTopicNotifier
    Finders,         \* pubsub goroutines calling the peer filter newPeerFound
    MaxNotifiers,    \* bound on the length of the notifiers list
    NoAdder

ASSUME InitResolver \in Resolvers /\ NumPeers \in Nat \ {0}
ASSUME MaxNotifiers \in Nat

FullHistory == "fullHistory"           \* the ConnectedFullHistoryPeersOnTopic caller
Readers == InfoReaders \cup {FullHistory}

VARIABLES
    resolver,         \* netMes.peerShardResolver
    sharderResolver,  \* the sharder's resolver
    rlocks,           \* readers holding mutPeerResolver
    writer,           \* setter holding mutPeerResolver, or NoSetter
    spc,              \* setter -> "idle", "sharder", "lock" or "locked"
    arg,              \* setter -> the resolver it is setting
    rpc,              \* reader -> "idle" or "reading"
    left,             \* reader -> lookups left in this call
    used,             \* ghost: reader -> resolvers this call looked up with
    peerTopicNotifiers, \* netMes.peerTopicNotifiers
    nrlocks,          \* finders holding mutPeerTopicNotifiers
    nwriter,          \* adder holding mutPeerTopicNotifiers, or NoAdder
    apc,              \* adder -> "idle", "lock" or "locked"
    narg,             \* adder -> the notifier it is adding
    fpc,              \* finder -> "idle" or "notifying"
    fpos,             \* finder -> index of the next notifier of the range loop
    snap              \* finder -> the slice the range loop evaluated at its start

rvars == <<resolver, sharderResolver, rlocks, writer, spc, arg, rpc, left, used>>
nvars == <<peerTopicNotifiers, nrlocks, nwriter, apc, narg, fpc, fpos, snap>>
vars == <<rvars, nvars>>

WriterWaiting == \E s \in Setters : spc[s] = "lock"

-----------------------------------------------------------------------------
(* SetPeerShardResolver                                                    *)

\* the nil check passes; the sharder is handed the resolver first
SetPeerShardResolver(s, r) ==
    /\ spc[s] = "idle"
    /\ spc' = [spc EXCEPT ![s] = "sharder"] /\ arg' = [arg EXCEPT ![s] = r]
    /\ UNCHANGED <<resolver, sharderResolver, rlocks, writer, rpc, left, used>>

\* netMes.sharder.SetPeerShardResolver succeeds (the sharder implementations
\* are not under src/: the call is one step that stores the resolver)
SharderSet(s) ==
    /\ spc[s] = "sharder"
    /\ sharderResolver' = arg[s]
    /\ spc' = [spc EXCEPT ![s] = "lock"]
    /\ UNCHANGED <<resolver, rlocks, writer, arg, rpc, left, used>>

\* netMes.sharder.SetPeerShardResolver returns an error: SetPeerShardResolver
\* returns it before taking the lock, the messenger's field unchanged
SharderSetFails(s) ==
    /\ spc[s] = "sharder"
    /\ spc' = [spc EXCEPT ![s] = "idle"]
    /\ UNCHANGED <<resolver, sharderResolver, rlocks, writer, arg, rpc, left, used>>

\* mutPeerResolver.Lock()
Lock(s) ==
    /\ spc[s] = "lock" /\ rlocks = {} /\ writer = NoSetter
    /\ writer' = s /\ spc' = [spc EXCEPT ![s] = "locked"]
    /\ UNCHANGED <<resolver, sharderResolver, rlocks, arg, rpc, left, used>>

\* netMes.peerShardResolver = peerShardResolver; mutPeerResolver.Unlock()
AssignAndUnlock(s) ==
    /\ spc[s] = "locked"
    /\ resolver' = arg[s] /\ writer' = NoSetter
    /\ spc' = [spc EXCEPT ![s] = "idle"]
    /\ UNCHANGED <<sharderResolver, rlocks, arg, rpc, left, used>>

-----------------------------------------------------------------------------
(* Readers                                                                 *)

\* mutant: RLock does not wait for the writer to unlock
RLockIgnoringWriter(r) ==
    rlocks' = rlocks \cup {r}

\* mutPeerResolver.RLock()
RLock(r) ==
    /\ writer = NoSetter /\ ~WriterWaiting
    /\ rlocks' = rlocks \cup {r}

\* GetConnectedPeersInfo: RLock, then look up self and each peer
GetConnectedPeersInfo(r) ==
    /\ rpc[r] = "idle"
    /\ RLock(r)
    /\ rpc' = [rpc EXCEPT ![r] = "reading"] /\ left' = [left EXCEPT ![r] = NumPeers + 1]
    /\ used' = [used EXCEPT ![r] = {}]
    /\ UNCHANGED <<resolver, sharderResolver, writer, spc, arg>>

\* ConnectedFullHistoryPeersOnTopic: one unlocked read per topic peer
ConnectedFullHistoryPeersOnTopic ==
    /\ rpc[FullHistory] = "idle"
    /\ rpc' = [rpc EXCEPT ![FullHistory] = "reading"]
    /\ left' = [left EXCEPT ![FullHistory] = NumPeers]
    /\ used' = [used EXCEPT ![FullHistory] = {}]
    /\ UNCHANGED <<resolver, sharderResolver, rlocks, writer, spc, arg>>

\* the values a read of the field can return: while a setter is between
\* Lock and Unlock the assignment may be under way, and a read of the two
\* words may mix the old and the new value when the two differ
ReadValues == IF writer = NoSetter \/ arg[writer] = resolver THEN {resolver}
              ELSE {resolver, arg[writer], Torn}

\* netMes.peerShardResolver.GetPeerInfo(pid)
GetPeerInfo(r) ==
    /\ rpc[r] = "reading" /\ left[r] > 0
    /\ \E v \in ReadValues : used' = [used EXCEPT ![r] = @ \cup {v}]
    /\ left' = [left EXCEPT ![r] = @ - 1]
    /\ UNCHANGED <<resolver, sharderResolver, rlocks, writer, spc, arg, rpc>>

\* the call returns (GetConnectedPeersInfo's deferred RUnlock)
Return(r) ==
    /\ rpc[r] = "reading" /\ left[r] = 0
    /\ rpc' = [rpc EXCEPT ![r] = "idle"]
    /\ rlocks' = rlocks \ {r}
    /\ UNCHANGED <<resolver, sharderResolver, writer, spc, arg, left, used>>

-----------------------------------------------------------------------------
(* The peer topic notifiers                                                *)

NotifierWriterWaiting == \E a \in Adders : apc[a] = "lock"

\* AddPeerTopicNotifier: the nil check passes (a nil notifier returns
\* ErrNilPeerTopicNotifier before any change), then mutPeerTopicNotifiers.Lock()
AddPeerTopicNotifier(a, n) ==
    /\ apc[a] = "idle"
    /\ Len(peerTopicNotifiers) + Cardinality({b \in Adders : apc[b] # "idle"}) < MaxNotifiers
    /\ apc' = [apc EXCEPT ![a] = "lock"] /\ narg' = [narg EXCEPT ![a] = n]
    /\ UNCHANGED <<peerTopicNotifiers, nrlocks, nwriter, fpc, fpos, snap>>

\* mutant: Lock does not wait for the readers to unlock
NotifierLockIgnoringReaders(a) ==
    /\ apc[a] = "lock" /\ nwriter = NoAdder
    /\ nwriter' = a /\ apc' = [apc EXCEPT ![a] = "locked"]
    /\ UNCHANGED <<peerTopicNotifiers, nrlocks, narg, fpc, fpos, snap>>

\* the writer gets mutPeerTopicNotifiers once no reader holds it
NotifierLock(a) ==
    /\ apc[a] = "lock" /\ nrlocks = {} /\ nwriter = NoAdder
    /\ nwriter' = a /\ apc' = [apc EXCEPT ![a] = "locked"]
    /\ UNCHANGED <<peerTopicNotifiers, nrlocks, narg, fpc, fpos, snap>>

\* append(netMes.peerTopicNotifiers, notifier); Unlock()
AppendAndUnlock(a) ==
    /\ apc[a] = "locked"
    /\ peerTopicNotifiers' = Append(peerTopicNotifiers, narg[a])
    /\ nwriter' = NoAdder /\ apc' = [apc EXCEPT ![a] = "idle"]
    /\ UNCHANGED <<nrlocks, narg, fpc, fpos, snap>>

\* mutPeerTopicNotifiers.RLock()
NotifierRLock(f) ==
    /\ nwriter = NoAdder /\ ~NotifierWriterWaiting
    /\ nrlocks' = nrlocks \cup {f}

\* newPeerFound: RLock, then range over netMes.peerTopicNotifiers (the range
\* expression is evaluated once, when the loop starts)
newPeerFound(f) ==
    /\ fpc[f] = "idle"
    /\ NotifierRLock(f)
    /\ fpc' = [fpc EXCEPT ![f] = "notifying"] /\ fpos' = [fpos EXCEPT ![f] = 1]
    /\ snap' = [snap EXCEPT ![f] = peerTopicNotifiers]
    /\ UNCHANGED <<peerTopicNotifiers, nwriter, apc, narg>>

\* notifier.NewPeerFound(pid, topic) for the next notifier of the list
NotifyNext(f) ==
    /\ fpc[f] = "notifying" /\ fpos[f] <= Len(snap[f])
    /\ fpos' = [fpos EXCEPT ![f] = @ + 1]
    /\ UNCHANGED <<peerTopicNotifiers, nrlocks, nwriter, apc, narg, fpc, snap>>

\* the loop ends; the deferred RUnlock, return true
newPeerFoundReturn(f) ==
    /\ fpc[f] = "notifying" /\ fpos[f] > Len(snap[f])
    /\ fpc' = [fpc EXCEPT ![f] = "idle"] /\ nrlocks' = nrlocks \ {f}
    /\ UNCHANGED <<peerTopicNotifiers, nwriter, apc, narg, fpos, snap>>

-----------------------------------------------------------------------------

Init ==
    /\ resolver = InitResolver /\ sharderResolver = InitResolver
    /\ rlocks = {} /\ writer = NoSetter
    /\ spc = [s \in Setters |-> "idle"] /\ arg = [s \in Setters |-> InitResolver]
    /\ rpc = [r \in Readers |-> "idle"] /\ left = [r \in Readers |-> 0]
    /\ used = [r \in Readers |-> {}]
    /\ peerTopicNotifiers = <<>> /\ nrlocks = {} /\ nwriter = NoAdder
    /\ apc = [a \in Adders |-> "idle"] /\ narg = [a \in Adders |-> CHOOSE n \in Notifiers : TRUE]
    /\ fpc = [f \in Finders |-> "idle"] /\ fpos = [f \in Finders |-> 1]
    /\ snap = [f \in Finders |-> <<>>]

ResolverNext ==
    \/ \E s \in Setters :
          \/ \E v \in Resolvers : SetPeerShardResolver(s, v)
          \/ SharderSet(s) \/ SharderSetFails(s) \/ Lock(s) \/ AssignAndUnlock(s)
    \/ \E r \in InfoReaders : GetConnectedPeersInfo(r)
    \/ ConnectedFullHistoryPeersOnTopic
    \/ \E r \in Readers : GetPeerInfo(r) \/ Return(r)

NotifierNext ==
    \/ \E a \in Adders :
          \/ \E n \in Notifiers : AddPeerTopicNotifier(a, n)
          \/ NotifierLock(a) \/ AppendAndUnlock(a)
    \/ \E f \in Finders : newPeerFound(f) \/ NotifyNext(f) \/ newPeerFoundReturn(f)

\* the two mutexes guard independent fields: a step is one or the other
Next ==
    \/ ResolverNext /\ UNCHANGED nvars
    \/ NotifierNext /\ UNCHANGED rvars

Spec == Init /\ [][Next]_vars

-----------------------------------------------------------------------------
(* Properties                                                              *)

TypeOK ==
    /\ resolver \in Resolvers /\ sharderResolver \in Resolvers
    /\ rlocks \subseteq InfoReaders /\ writer \in Setters \cup {NoSetter}
    /\ spc \in [Setters -> {"idle", "sharder", "lock", "locked"}]
    /\ arg \in [Setters -> Resolvers]
    /\ rpc \in [Readers -> {"idle", "reading"}]
    /\ left \in [Readers -> 0..(NumPeers + 1)]
    /\ used \in [Readers -> SUBSET (Resolvers \cup {Torn})]
    /\ peerTopicNotifiers \in Seq(Notifiers) /\ Len(peerTopicNotifiers) <= MaxNotifiers
    /\ nrlocks \subseteq Finders /\ nwriter \in Adders \cup {NoAdder}
    /\ apc \in [Adders -> {"idle", "lock", "locked"}] /\ narg \in [Adders -> Notifiers]
    /\ fpc \in [Finders -> {"idle", "notifying"}]
    /\ fpos \in [Finders -> 1..(MaxNotifiers + 1)]
    /\ snap \in [Finders -> Seq(Notifiers)]

\* One call, one resolver: the lookups of a GetConnectedPeersInfo call (self
\* and every peer) are all made with the same, whole resolver, so the self
\* shard and the peers' shards are comparable.
PeersInfoUsesOneResolver ==
    \A r \in InfoReaders : Cardinality(used[r]) <= 1 /\ Torn \notin used[r]

\* Spec 5: the resolver reference is read under the reader-writer lock, so
\* ConnectedFullHistoryPeersOnTopic also classifies all its peers with one
\* whole resolver.
FullHistoryUsesOneResolver ==
    Cardinality(used[FullHistory]) <= 1 /\ Torn \notin used[FullHistory]

\* One admission, one list: while newPeerFound ranges over the notifiers no
\* AddPeerTopicNotifier changes the list under it, so the peer is announced
\* to exactly the notifiers registered when the filter took the lock.
NotifiersStableDuringAdmission ==
    \A f \in Finders : fpc[f] = "notifying" => peerTopicNotifiers = snap[f]

=============================================================================
