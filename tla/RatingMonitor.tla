---------------------------- MODULE RatingMonitor ----------------------------
(***************************************************************************)
(* The peers rating monitor of src/rating/peersRatingMonitor.go composed   *)
(* with the rating updates of src/rating/peersRatingHandler.go.            *)
(*                                                                         *)
(* The handler holds its mutex for the whole of IncreaseRating and         *)
(* DecreaseRating, but the monitor holds references to the same two        *)
(* cachers and calls Keys and Get on them without that mutex.  Only the    *)
(* cacher itself is thread safe, so here every cacher call is one step:    *)
(* an update is the sequence of cacher calls updateRatingIfNeeded makes    *)
(* (its decisions depend only on the Gets of the updated pid, which the    *)
(* monitor cannot change), executed one call per step; the monitor's       *)
(* reader runs processTestLogs / GetConnectedPeersRatings one Get per      *)
(* step in between.                                                        *)
(*                                                                         *)
(* The locked handler of PeersRatingHandler is the abstract specification: *)
(* while an update is under way its state is the snapshot taken when the   *)
(* mutex was acquired.                                                     *)
(***************************************************************************)
EXTENDS Integers, Sequences, SequencesExt

CONSTANTS Peers, TopCap, BadCap, MinRating, MaxRating, Grace, TraceLogging,
          NotMarked, NoRating

VARIABLES
    topRatedCache,  \* the shared top rated cacher, oldest first
    badRatedCache,  \* the shared bad rated cacher
    ratingsMap,     \* the handler's ratingsMap (read by nobody else)
    prog,           \* cacher calls left of the update holding the mutex
    snap,           \* [top, bad, ratings] when the mutex was acquired
    rpc,            \* the monitor reader: "idle", "displayTop", "displayBad",
                    \* "extract" or "fetchBad"
    keys,           \* keys left to Get in getPrintableRatings, or connected
                    \* peers left to fetch in extractConnectedPeersRatings
    gap             \* ghost: during this fetch the pid was once in neither
                    \* cacher of the handler's state as its mutex shows it

vars == <<topRatedCache, badRatedCache, ratingsMap, prog, snap, rpc, keys, gap>>

R == INSTANCE PeersRatingHandler
       WITH removalTimestampsMap <- [p \in Peers |-> NotMarked],
            running <- TRUE, refreshedAgo <- [p \in Peers |-> NotMarked]

CHas(c, p)    == R!CHas(c, p)
CVal(c, p)    == R!CVal(c, p)
Cap           == [top |-> TopCap, bad |-> BadCap]
Cache         == [top |-> topRatedCache, bad |-> badRatedCache]
Locked        == prog # <<>>
\* the update still has a Get, Put or Remove to make
CacherCallsLeft == \E i \in 1..Len(prog) : prog[i].op # "record"
NoSnap        == [top |-> <<>>, bad |-> <<>>, ratings |-> [p \in Peers |-> NoRating]]

-----------------------------------------------------------------------------
(* updateRatingIfNeeded as the calls it makes: Get, Put and Remove on a    *)
(* cacher, and "record" for updateRatingsMap.                              *)

Call(op, c, p, r) == [op |-> op, c |-> c, p |-> p, r |-> r]

\* mutant: the peer is put in its new cacher but not removed from the old one
MoveWithoutRemoveCalls(new, p) ==
    <<Call("put", R!computeRatingTier(new), p, new)>>

movePeerToNewTier(new, p) ==
    IF R!computeRatingTier(new) = "top"
    THEN <<Call("remove", "bad", p, 0), Call("put", "top", p, new)>>
    ELSE <<Call("remove", "top", p, 0), Call("put", "bad", p, new)>>

updateRating(p, old, new) ==
    IF R!computeRatingTier(new) = R!computeRatingTier(old)
    THEN <<Call("put", R!computeRatingTier(new), p, new)>>
    ELSE movePeerToNewTier(new, p)

updateRatingIfNeeded(p, f) ==
    LET inTop == CHas(topRatedCache, p)
        inBad == ~inTop /\ CHas(badRatedCache, p)
        old   == IF inTop THEN CVal(topRatedCache, p)
                 ELSE IF inBad THEN CVal(badRatedCache, p) ELSE R!DefaultRating
        gets  == IF inTop THEN <<Call("get", "top", p, 0)>>
                 ELSE <<Call("get", "top", p, 0), Call("get", "bad", p, 0)>>
        add   == IF inTop \/ inBad THEN <<>>
                 ELSE <<Call("put", "top", p, R!DefaultRating),
                        Call("record", "top", p, R!DefaultRating)>>
        skip  == \/ old = MinRating /\ f = R!DecreaseFactor
                 \/ old = MaxRating /\ f = R!IncreaseFactor
        new   == R!Clamp(old + f)
    IN  gets \o add \o
        (IF skip THEN <<Call("record", "top", p, old)>>
         ELSE updateRating(p, old, new) \o <<Call("record", "top", p, new)>>)

\* the cacher after one call (the LRU cache of the storage dependency)
CacherAfter(o) ==
    CASE o.op = "get"    -> R!CTouch(Cache[o.c], o.p)
      [] o.op = "put"    -> R!CPut(Cache[o.c], o.p, o.r, Cap[o.c])
      [] o.op = "remove" -> R!CRemove(Cache[o.c], o.p)

\* ratingsMap after one call (updateRatingsMap; cacher calls leave it)
updateRatingsMap(m, o) == IF o.op = "record" THEN [m EXCEPT ![o.p] = o.r] ELSE m

\* a Get by the monitor, seen from the locked handler: the same Get taken
\* before the update (TraceLogging's displayPeersRating of one pid)
TouchSnap(s, q) ==
    IF CHas(s.top, q) THEN [s EXCEPT !.top = R!CTouch(@, q)]
    ELSE [s EXCEPT !.bad = R!CTouch(@, q)]

\* The handler's state as its mutex shows it.  An update takes effect at its
\* last cacher call: before it the state is the snapshot taken when the
\* mutex was acquired, after it the cachers, with the updateRatingsMap calls
\* still to come (nobody reads ratingsMap without the mutex).
Committed == [top |-> IF CacherCallsLeft THEN snap.top ELSE topRatedCache,
              bad |-> IF CacherCallsLeft THEN snap.bad ELSE badRatedCache,
              ratings |-> IF CacherCallsLeft THEN snap.ratings
                          ELSE FoldLeft(updateRatingsMap, ratingsMap, prog)]

\* pid p is in a cacher of the handler's state as its mutex shows it
InCommitted(p) == CHas(Committed.top, p) \/ CHas(Committed.bad, p)

-----------------------------------------------------------------------------
(* The handler                                                             *)

\* IncreaseRating / DecreaseRating acquire the mutex
Update(p, f) ==
    /\ ~Locked
    /\ prog' = updateRatingIfNeeded(p, f)
    /\ snap' = [top |-> topRatedCache, bad |-> badRatedCache, ratings |-> ratingsMap]
    /\ UNCHANGED <<topRatedCache, badRatedCache, ratingsMap, rpc, keys, gap>>

\* the next call of the update; the last one releases the mutex
HandlerCall ==
    LET o == Head(prog) IN
    /\ Locked
    /\ topRatedCache' = IF o.op # "record" /\ o.c = "top" THEN CacherAfter(o) ELSE topRatedCache
    /\ badRatedCache' = IF o.op # "record" /\ o.c = "bad" THEN CacherAfter(o) ELSE badRatedCache
    /\ ratingsMap' = updateRatingsMap(ratingsMap, o)
    /\ prog' = Tail(prog)
    /\ snap' = IF Tail(prog) = <<>> THEN NoSnap ELSE snap
    /\ UNCHANGED <<rpc, keys>>
    /\ gap' = (gap \/ (rpc = "fetchBad" /\ ~InCommitted(Head(keys))'))

-----------------------------------------------------------------------------
(* The monitor's reader                                                    *)

\* a Get of the monitor on cacher c
ReaderGet(c, q) ==
    /\ topRatedCache' = IF c = "top" THEN R!CTouch(topRatedCache, q) ELSE topRatedCache
    /\ badRatedCache' = IF c = "bad" THEN R!CTouch(badRatedCache, q) ELSE badRatedCache
    /\ snap' = IF CacherCallsLeft /\ CHas(Cache[c], q) THEN TouchSnap(snap, q) ELSE snap
    /\ UNCHANGED <<ratingsMap, prog>>

\* processTestLogs: the display timer fires; getPrintableRatings(top) calls Keys
DisplayCachers ==
    /\ rpc = "idle"
    /\ rpc' = "displayTop" /\ keys' = R!CKeys(topRatedCache)
    /\ UNCHANGED <<topRatedCache, badRatedCache, ratingsMap, prog, snap, gap>>

\* getPrintableRatings: Get of the next key (a miss is skipped)
DisplayGet ==
    /\ rpc \in {"displayTop", "displayBad"} /\ keys # <<>>
    /\ ReaderGet(IF rpc = "displayTop" THEN "top" ELSE "bad", Head(keys))
    /\ keys' = Tail(keys)
    /\ UNCHANGED <<rpc, gap>>

\* getPrintableRatings(top) is done: Keys of the bad cacher
DisplayBadKeys ==
    /\ rpc = "displayTop" /\ keys = <<>>
    /\ rpc' = "displayBad" /\ keys' = R!CKeys(badRatedCache)
    /\ UNCHANGED <<topRatedCache, badRatedCache, ratingsMap, prog, snap, gap>>

\* GetConnectedPeersRatings, from displayCachers or from a caller: the
\* connections provider returns the connected peers
GetConnectedPeersRatings(connected) ==
    /\ \/ rpc = "idle"
       \/ rpc = "displayBad" /\ keys = <<>>
    /\ rpc' = "extract" /\ keys' = connected
    /\ UNCHANGED <<topRatedCache, badRatedCache, ratingsMap, prog, snap, gap>>

\* fetchRating: Get on the top cacher
FetchTop ==
    LET q == Head(keys) IN
    /\ rpc = "extract" /\ keys # <<>>
    /\ ReaderGet("top", q)
    /\ IF CHas(topRatedCache, q)
       THEN rpc' = "extract" /\ keys' = Tail(keys) /\ gap' = FALSE
       ELSE rpc' = "fetchBad" /\ keys' = keys /\ gap' = ~InCommitted(q)

\* fetchRating after a miss: Get on the bad cacher, else "unknown"
FetchBad ==
    /\ rpc = "fetchBad"
    /\ ReaderGet("bad", Head(keys))
    /\ rpc' = "extract" /\ keys' = Tail(keys)
    /\ UNCHANGED gap

ExtractDone ==
    /\ rpc = "extract" /\ keys = <<>>
    /\ rpc' = "idle"
    /\ UNCHANGED <<topRatedCache, badRatedCache, ratingsMap, prog, snap, keys, gap>>

-----------------------------------------------------------------------------

Init ==
    /\ topRatedCache = <<>> /\ badRatedCache = <<>>
    /\ ratingsMap = [p \in Peers |-> NoRating]
    /\ prog = <<>> /\ snap = NoSnap
    /\ rpc = "idle" /\ keys = <<>> /\ gap = FALSE

Next ==
    \/ \E p \in Peers, f \in {R!IncreaseFactor, R!DecreaseFactor} : Update(p, f)
    \/ HandlerCall
    \/ DisplayCachers \/ DisplayGet \/ DisplayBadKeys
    \/ \E l \in R!PidLists : GetConnectedPeersRatings(l)
    \/ FetchTop \/ FetchBad \/ ExtractDone

Spec == Init /\ [][Next]_vars

-----------------------------------------------------------------------------
(* Properties                                                              *)

Calls == [op : {"get", "put", "remove", "record"}, c : {"top", "bad"},
          p : Peers, r : R!Ratings]

TypeOK ==
    /\ topRatedCache \in Seq(R!Entry) /\ Len(topRatedCache) <= TopCap
    /\ badRatedCache \in Seq(R!Entry) /\ Len(badRatedCache) <= BadCap
    /\ ratingsMap \in [Peers -> R!Ratings \cup {NoRating}]
    /\ prog \in Seq(Calls)
    /\ rpc \in {"idle", "displayTop", "displayBad", "extract", "fetchBad"}
    /\ keys \in Seq(Peers)
    /\ gap \in BOOLEAN

L == INSTANCE PeersRatingHandler
       WITH topRatedCache <- Committed.top, badRatedCache <- Committed.bad,
            ratingsMap <- Committed.ratings,
            removalTimestampsMap <- [p \in Peers |-> NotMarked],
            running <- TRUE, refreshedAgo <- [p \in Peers |-> NotMarked]

\* Refinement: with the monitor's unlocked Gets landing between the cacher
\* calls of an update, the cachers and ratingsMap still go only through
\* states of the locked handler of peersRatingHandler.go, the monitor's
\* Gets being the handler's own TRACE-level Gets.  (The step formula is
\* [L!Next]_(L!vars) with the stuttering disjunct tested first.)
RefinesLockedHandler == L!Init /\ [][UNCHANGED L!vars \/ L!Next]_vars

\* Spec 3 says a tier change moves the record between the cachers
\* atomically under the one lock: fetchRating then never reports "unknown"
\* for a pid that, in the handler's state as its mutex shows it
\* (Committed), was in a cacher at every moment of the fetch.
FetchSeesTrackedPeer ==
    [][FetchBad /\ ~CHas(badRatedCache, Head(keys)) =>
         gap \/ ~InCommitted(Head(keys))]_vars
=============================================================================
