------------------------- MODULE PeersRatingHandler -------------------------
(***************************************************************************)
(* The peers rating handler of src/rating/peersRatingHandler.go.           *)
(*                                                                         *)
(* Every exported method and every timer branch of processLoop takes the   *)
(* handler's one mutex for its whole body, so each is one atomic action.   *)
(* The two rating cachers are bounded LRU caches (types.Cacher): Put adds  *)
(* or refreshes an entry as most recent and evicts the least recent one    *)
(* when the capacity is exceeded, Get refreshes recency, Has and Keys do   *)
(* not.  A cache is a sequence of [pid, rating] entries, oldest first.     *)
(*                                                                         *)
(* Time is the handler's getTimeHandler() in whole seconds.  A removal     *)
(* timestamp is kept as the number of seconds left until it is reached, so *)
(* the clock needs no bound: Tick decrements it down to 0, and a timestamp *)
(* `<= now` is one with 0 seconds left.                                    *)
(***************************************************************************)
EXTENDS Integers, Sequences, SequencesExt

CONSTANTS
    Peers,          \* the peer ids callers pass in
    TopCap,         \* capacity of the top rated cacher
    BadCap,         \* capacity of the bad rated cacher
    MinRating,      \* minRating (-100 in the code)
    MaxRating,      \* maxRating (100 in the code)
    Grace,          \* timeWaitingForReconnection, in seconds
    TraceLogging,   \* log level is TRACE (displayPeersRating reads the caches)
    NotMarked,      \* model value: no entry in removalTimestampsMap
    NoRating        \* model value: no entry in ratingsMap

\* checkArgs, plus the bounds the model needs
ArgsValid ==
       /\ TopCap \in Nat \ {0} /\ BadCap \in Nat \ {0}
       /\ MinRating < 0 /\ MaxRating > 0
       /\ Grace \in Nat \ {0}
       /\ TraceLogging \in BOOLEAN

ASSUME ArgsValid

DefaultRating  == 0
IncreaseFactor == 2
DecreaseFactor == -1
MinNumOfPeers  == 1
Ratings == MinRating..MaxRating

VARIABLES
    topRatedCache,         \* LRU sequence of [pid, rating], oldest first
    badRatedCache,         \* idem
    removalTimestampsMap,  \* pid -> seconds left until removal, or NotMarked
    ratingsMap,            \* pid -> rating reported in metrics, or NoRating
    running,               \* processLoop has not been cancelled by Close
    refreshedAgo           \* ghost: seconds since pid was last in AddPeers, capped at Grace

vars == <<topRatedCache, badRatedCache, removalTimestampsMap, ratingsMap,
          running, refreshedAgo>>

-----------------------------------------------------------------------------
(* The LRU cacher, as the handler uses it.                                 *)

Entry == [pid : Peers, rating : Ratings]
CKeys(c) == [i \in 1..Len(c) |-> c[i].pid]
CHas(c, p) == \E i \in 1..Len(c) : c[i].pid = p
CVal(c, p) == c[CHOOSE i \in 1..Len(c) : c[i].pid = p].rating
CRemove(c, p) == SelectSeq(c, LAMBDA e : e.pid # p)
\* Get: a hit becomes the most recently used entry
CTouch(c, p) == IF CHas(c, p)
                THEN Append(CRemove(c, p), [pid |-> p, rating |-> CVal(c, p)])
                ELSE c
\* Put: insert or refresh as most recent, evict the oldest above capacity
CPut(c, p, r, cap) ==
    LET c1 == Append(CRemove(c, p), [pid |-> p, rating |-> r])
    IN  IF Len(c1) > cap THEN Tail(c1) ELSE c1

-----------------------------------------------------------------------------
(* The handler's methods, as functions of the guarded state               *)
(* s = [top, bad, marks, ratings].                                         *)

St == [top |-> topRatedCache, bad |-> badRatedCache,
       marks |-> removalTimestampsMap, ratings |-> ratingsMap]

computeRatingTier(r) == IF r >= DefaultRating THEN "top" ELSE "bad"

\* getOldRating: Get on the top cacher, then on the bad one
getOldRating(s, p) ==
    IF CHas(s.top, p)
    THEN [found |-> TRUE, rating |-> CVal(s.top, p),
          st |-> [s EXCEPT !.top = CTouch(@, p)]]
    ELSE IF CHas(s.bad, p)
    THEN [found |-> TRUE, rating |-> CVal(s.bad, p),
          st |-> [s EXCEPT !.bad = CTouch(@, p)]]
    ELSE [found |-> FALSE, rating |-> DefaultRating, st |-> s]

\* mutant: the peer is put in its new cacher but not removed from the old one
MoveWithoutRemove(s, r, p) ==
    IF r >= DefaultRating
    THEN [s EXCEPT !.top = CPut(@, p, r, TopCap)]
    ELSE [s EXCEPT !.bad = CPut(@, p, r, BadCap)]

movePeerToNewTier(s, r, p) ==
    IF computeRatingTier(r) = "top"
    THEN [s EXCEPT !.bad = CRemove(@, p), !.top = CPut(@, p, r, TopCap)]
    ELSE [s EXCEPT !.top = CRemove(@, p), !.bad = CPut(@, p, r, BadCap)]

updateRating(s, p, old, new) ==
    IF computeRatingTier(new) = computeRatingTier(old)
    THEN IF computeRatingTier(new) = "top"
         THEN [s EXCEPT !.top = CPut(@, p, new, TopCap)]
         ELSE [s EXCEPT !.bad = CPut(@, p, new, BadCap)]
    ELSE movePeerToNewTier(s, new, p)

\* updateRatingsMap keeps only the rating here (timestamps are not modelled)
updateRatingsMap(s, p, r) == [s EXCEPT !.ratings[p] = r]

\* mutant: the result is only floored at minRating
ClampFloorOnly(r) == IF r < MinRating THEN MinRating ELSE r

Clamp(r) == IF r > MaxRating THEN MaxRating
            ELSE IF r < MinRating THEN MinRating ELSE r

updateRatingIfNeeded(s, p, f) ==
    LET g   == getOldRating(s, p)
        old == g.rating
        s1  == IF g.found THEN g.st
               ELSE updateRatingsMap([g.st EXCEPT !.top = CPut(@, p, DefaultRating, TopCap)],
                                     p, DefaultRating)
        skip == \/ old = MinRating /\ f = DecreaseFactor
                \/ old = MaxRating /\ f = IncreaseFactor
        new == Clamp(old + f)
    IN  IF skip THEN updateRatingsMap(s1, p, old)
        ELSE updateRatingsMap(updateRating(s1, p, old, new), p, new)

\* mutant: a received peer keeps its removal mark
AddPeerKeepMark(s, p) ==
    LET g == getOldRating(s, p)
    IN  IF g.found THEN g.st
        ELSE updateRatingsMap([g.st EXCEPT !.top = CPut(@, p, DefaultRating, TopCap)],
                              p, DefaultRating)

\* mutant: a received peer is put with the default rating even when cached
AddPeerResetRating(s, p) ==
    updateRatingsMap([[s EXCEPT !.marks[p] = NotMarked] EXCEPT
                        !.bad = CRemove(@, p), !.top = CPut(@, p, DefaultRating, TopCap)],
                     p, DefaultRating)

\* one iteration of the loop of AddPeers
addPeer(s, p) ==
    LET s1 == [s EXCEPT !.marks[p] = NotMarked]
        g  == getOldRating(s1, p)
    IN  IF g.found THEN g.st
        ELSE updateRatingsMap([g.st EXCEPT !.top = CPut(@, p, DefaultRating, TopCap)],
                              p, DefaultRating)

\* markInactivePIDsForRemoval: cache keys not received and not yet marked
markInactivePIDsForRemoval(s, received) ==
    LET cached == ToSet(CKeys(s.top)) \cup ToSet(CKeys(s.bad))
    IN  [s EXCEPT !.marks = [p \in Peers |->
            IF p \in cached \ received /\ @[p] = NotMarked THEN Grace ELSE @[p]]]

\* mutant: the purged peer's removal timestamp is not deleted
RemoveKeepMark(s, p) ==
    [s EXCEPT !.top = CRemove(@, p), !.bad = CRemove(@, p), !.ratings[p] = NoRating]

removePIDFromCachers(s, p) ==
    [s EXCEPT !.marks[p] = NotMarked, !.top = CRemove(@, p),
              !.bad = CRemove(@, p), !.ratings[p] = NoRating]

\* displayPeersRating at TRACE level: Get on top, and on bad after a miss
displayPeersRating(s, peers) ==
    LET look(acc, p) == IF CHas(acc.top, p) THEN [acc EXCEPT !.top = CTouch(@, p)]
                        ELSE [acc EXCEPT !.bad = CTouch(@, p)]
    IN  IF TraceLogging THEN FoldLeft(look, s, peers) ELSE s

splitPeersByTiers(s, peers) ==
    [top |-> SelectSeq(peers, LAMBDA p : CHas(s.top, p)),
     bad |-> SelectSeq(peers, LAMBDA p : CHas(s.bad, p))]

SetSt(s) == /\ topRatedCache' = s.top
            /\ badRatedCache' = s.bad
            /\ removalTimestampsMap' = s.marks
            /\ ratingsMap' = s.ratings

-----------------------------------------------------------------------------
(* Actions                                                                 *)

\* the lists callers pass: distinct peer ids, in any order
PidLists == UNION {{l \in [1..n -> Peers] : IsInjective(l)} : n \in 1..Cardinality(Peers)}

AddPeers(pids) ==
    /\ SetSt(markInactivePIDsForRemoval(FoldLeft(addPeer, St, pids), ToSet(pids)))
    /\ refreshedAgo' = [p \in Peers |-> IF p \in ToSet(pids) THEN 0 ELSE refreshedAgo[p]]
    /\ UNCHANGED running

IncreaseRating(p) ==
    /\ SetSt(updateRatingIfNeeded(St, p, IncreaseFactor))
    /\ UNCHANGED <<running, refreshedAgo>>

DecreaseRating(p) ==
    /\ SetSt(updateRatingIfNeeded(St, p, DecreaseFactor))
    /\ UNCHANGED <<running, refreshedAgo>>

\* mutant: the bad rated peers are appended even when the top rated ones
\* are just enough
TopRatedFromListAtMost(s, peers, minNumOfPeersExpected) ==
    LET split == splitPeersByTiers(s, peers)
    IN  IF Len(split.top) <= minNumOfPeersExpected
        THEN split.top \o split.bad ELSE split.top

\* the list GetTopRatedPeersFromList returns past its early return: the top
\* rated peers, followed by the bad rated ones when there are too few
topRatedPeersFromList(s, peers, minNumOfPeersExpected) ==
    LET split == splitPeersByTiers(s, peers)
    IN  IF Len(split.top) < minNumOfPeersExpected
        THEN split.top \o split.bad ELSE split.top

\* the early return (minNumOfPeersExpected < minNumOfPeers) changes nothing:
\* the deferred displayPeersRating then sees an empty list
GetTopRatedPeersFromList(peers, minNumOfPeersExpected) ==
    LET result == topRatedPeersFromList(St, peers, minNumOfPeersExpected)
    IN  /\ minNumOfPeersExpected >= MinNumOfPeers
        /\ SetSt(displayPeersRating(St, result))
        /\ UNCHANGED <<running, refreshedAgo>>

\* processLoop, timerCachersSweep branch
SweepCachers ==
    /\ running
    /\ SetSt(FoldLeft(removePIDFromCachers, St,
               SetToSeq({p \in Peers : removalTimestampsMap[p] = 0})))
    /\ UNCHANGED <<running, refreshedAgo>>

Close ==
    /\ running' = FALSE
    /\ UNCHANGED <<topRatedCache, badRatedCache, removalTimestampsMap,
                   ratingsMap, refreshedAgo>>

\* one second of getTimeHandler() passes
Tick ==
    /\ removalTimestampsMap' = [p \in Peers |->
          IF removalTimestampsMap[p] \in Nat /\ removalTimestampsMap[p] > 0
          THEN removalTimestampsMap[p] - 1 ELSE removalTimestampsMap[p]]
    /\ refreshedAgo' = [p \in Peers |->
          IF refreshedAgo[p] \in 0..(Grace - 1) THEN refreshedAgo[p] + 1
          ELSE refreshedAgo[p]]
    /\ UNCHANGED <<topRatedCache, badRatedCache, ratingsMap, running>>

Init ==
    /\ topRatedCache = <<>>
    /\ badRatedCache = <<>>
    /\ removalTimestampsMap = [p \in Peers |-> NotMarked]
    /\ ratingsMap = [p \in Peers |-> NoRating]
    /\ running = TRUE
    /\ refreshedAgo = [p \in Peers |-> NotMarked]

Next ==
    \/ \E l \in PidLists : AddPeers(l)
    \/ \E p \in Peers : IncreaseRating(p) \/ DecreaseRating(p)
    \* below TRACE level the query leaves the state unchanged
    \/ TraceLogging /\ \E l \in PidLists, m \in 1..2 : GetTopRatedPeersFromList(l, m)
    \/ SweepCachers
    \/ Close
    \/ Tick

\* The sweep timer fires every timeBetweenCachersSweep while processLoop runs,
\* and the clock always advances.
Spec == Init /\ [][Next]_vars /\ WF_vars(SweepCachers) /\ WF_vars(Tick)

-----------------------------------------------------------------------------
(* Properties                                                              *)

TypeOK ==
    /\ topRatedCache \in Seq(Entry) /\ Len(topRatedCache) <= TopCap
    /\ badRatedCache \in Seq(Entry) /\ Len(badRatedCache) <= BadCap
    /\ removalTimestampsMap \in [Peers -> (0..Grace) \cup {NotMarked}]
    /\ ratingsMap \in [Peers -> Ratings \cup {NoRating}]
    /\ running \in BOOLEAN
    /\ refreshedAgo \in [Peers -> (0..Grace) \cup {NotMarked}]

\* Tier invariant of updateRatingIfNeeded / movePeerToNewTier: a peer is in
\* at most one cacher, the top cacher holds only ratings >= 0 and the bad
\* one only ratings < 0, each rating within [minRating, maxRating], and the
\* rating reported in ratingsMap is the one held by the cacher.
TierConsistency ==
    \A p \in Peers :
        /\ ~(CHas(topRatedCache, p) /\ CHas(badRatedCache, p))
        /\ CHas(topRatedCache, p) =>
              CVal(topRatedCache, p) >= 0 /\ ratingsMap[p] = CVal(topRatedCache, p)
        /\ CHas(badRatedCache, p) =>
              CVal(badRatedCache, p) < 0 /\ ratingsMap[p] = CVal(badRatedCache, p)

\* GetTopRatedPeersFromList serves the requester the best peers of the list
\* it is given: only rated peers, each once, every top rated (rating >= 0)
\* one before every bad rated one, bad rated ones only when fewer than
\* minNumOfPeersExpected top rated peers are in the list, and at least
\* minNumOfPeersExpected peers whenever the list has that many in a cacher.
TopRatedPeersServedFirst ==
    \A l \in PidLists, m \in 1..2 :
        LET res    == topRatedPeersFromList(St, l, m)
            cached == {i \in DOMAIN l : CHas(topRatedCache, l[i]) \/ CHas(badRatedCache, l[i])}
            nTop   == Cardinality({i \in DOMAIN l : CHas(topRatedCache, l[i])})
        IN  /\ IsInjective(res)
            /\ \A i \in DOMAIN res : ratingsMap[res[i]] # NoRating
            /\ \A i, j \in DOMAIN res : i < j /\ ratingsMap[res[i]] < 0 => ratingsMap[res[j]] < 0
            /\ (\E i \in DOMAIN res : ratingsMap[res[i]] < 0) => nTop < m
            /\ Len(res) >= IF Cardinality(cached) < m THEN Cardinality(cached) ELSE m

\* spec 3: every rating record lives in one of the two cachers.  AddPeers
\* marks only cached keys and sweepCachers purges only marked ones, so a
\* record whose entry the LRU evicted is never purged.
RecordInACacher ==
    \A p \in Peers :
        ratingsMap[p] # NoRating => CHas(topRatedCache, p) \/ CHas(badRatedCache, p)

\* Grace period of AddPeers / sweepCachers: a sweep never purges a peer that
\* appeared in an AddPeers list less than timeWaitingForReconnection ago.
PurgeOnlyAfterGrace ==
    [][SweepCachers =>
         \A p \in Peers :
             ratingsMap[p] # NoRating /\ ratingsMap'[p] = NoRating =>
                 refreshedAgo[p] \in {Grace, NotMarked}]_vars

\* The rating the handler holds for a peer: the one of the cacher it is in.
RatingOf == [p \in Peers |-> IF CHas(topRatedCache, p) THEN CVal(topRatedCache, p)
                             ELSE IF CHas(badRatedCache, p) THEN CVal(badRatedCache, p)
                             ELSE NoRating]

Abstract == INSTANCE AbstractRating WITH rating <- RatingOf, since <- refreshedAgo

\* The handler implements AbstractRating: AddPeers never resets a rating,
\* IncreaseRating and DecreaseRating move the cached rating (the default for
\* an unseen peer) one clamped step, a tier move keeps the peer rated, and
\* a cached rating disappears only when sweepCachers purges a peer that has
\* been out of the AddPeers lists for timeWaitingForReconnection, or when
\* an LRU Put evicts it from a cacher that the step overfilled.
\* (Abstract!Spec, with the stuttering disjunct first so that TLC tries it first)
RefinesAbstractRating ==
    Abstract!Init /\ [][UNCHANGED Abstract!vars \/ Abstract!Next]_vars

\* A peer marked for removal is, while processLoop runs, eventually either
\* refreshed by AddPeers or purged by sweepCachers.
MarkEventuallyResolved ==
    \A p \in Peers :
        removalTimestampsMap[p] # NotMarked ~>
            (removalTimestampsMap[p] = NotMarked \/ ~running)
=============================================================================
