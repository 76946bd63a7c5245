--------------------------- MODULE AbstractRating ---------------------------
(***************************************************************************)
(* What the peers rating handler promises its callers, with no caches,     *)
(* recency order or removal timestamps: a rating per known peer.           *)
(*                                                                         *)
(*  - a refresh (AddPeers) goes through its peers in order, giving an     *)
(*    unknown peer the default rating and leaving a known one alone;       *)
(*  - an update moves the stored rating (the default for an unknown peer)  *)
(*    one clamped step;                                                    *)
(*  - a rating is forgotten by a purge only once its peer has been out of  *)
(*    the refreshes for the grace period, or, the ratings being held in    *)
(*    two bounded tiers (>= 0 and < 0), when storing another peer          *)
(*    overfills its tier: then one other peer of that tier is forgotten.   *)
(* Which peer a full tier gives up (the least recently used one) is left   *)
(* open.                                                                   *)
(***************************************************************************)
EXTENDS Integers, Sequences, FiniteSets

CONSTANTS Peers, TopCap, BadCap, MinRating, MaxRating, Grace, NotMarked, NoRating

VARIABLES
    rating,   \* peer -> its rating, or NoRating
    since     \* peer -> seconds since it was last refreshed (up to Grace), or NotMarked

vars == <<rating, since>>

Known(r) == {k \in Peers : r[k] # NoRating}
TierOf(v) == IF v >= 0 THEN "top" ELSE "bad"
InTier(r, t) == {k \in Known(r) : TierOf(r[k]) = t}
Cap(t) == IF t = "top" THEN TopCap ELSE BadCap
ClampStep(v) == IF v > MaxRating THEN MaxRating ELSE IF v < MinRating THEN MinRating ELSE v

\* the ratings after p is stored with rating v: if that overfills v's tier,
\* some other peer of the tier is forgotten
Overfilled(stored, w) ==
    LET t == TierOf(stored[w])
    IN  IF Cardinality(InTier(stored, t)) > Cap(t)
        THEN {[k \in Peers |-> IF k = x THEN NoRating ELSE stored[k]] :
                 x \in InTier(stored, t) \ {w}}
        ELSE {stored}
PutInto(r, p, v) == Overfilled([k \in Peers |-> IF k = p THEN v ELSE r[k]], p)

\* a refresh of the peers ids, one after the other: an unknown one is
\* stored with the default rating, a known one keeps its rating
RECURSIVE Refreshed(_, _)
Refreshed(before, ids) ==
    IF ids = <<>> THEN {before}
    ELSE UNION {Refreshed(after, Tail(ids)) :
                  after \in IF before[Head(ids)] # NoRating THEN {before}
                            ELSE PutInto(before, Head(ids), 0)}

\* the lists a refresh is given: distinct peers
PidSeqs == UNION {{l \in [1..n -> Peers] :
                     \A i, j \in 1..n : i # j => l[i] # l[j]} : n \in 1..Cardinality(Peers)}

Refresh(ids) ==
    /\ since' = [p \in Peers |-> IF \E i \in 1..Len(ids) : ids[i] = p THEN 0 ELSE since[p]]
    /\ LET now == rating IN rating' \in Refreshed(now, ids)

\* an unknown peer is first stored with the default rating, then the
\* clamped step is stored
Update(p, f) ==
    LET now    == rating
        Stored == IF now[p] = NoRating THEN PutInto(now, p, 0) ELSE {now}
    IN  /\ UNCHANGED since
        /\ rating' \in UNION {PutInto(r, p, ClampStep(r[p] + f)) : r \in Stored}

\* the peers P that lose their rating are all past the grace period
Purge ==
    LET now == rating
        P   == {p \in Known(now) : rating'[p] = NoRating}
    IN  /\ UNCHANGED since
        /\ P # {}
        /\ \A p \in P : since[p] \in {Grace, NotMarked}
        /\ rating' = [p \in Peers |-> IF p \in P THEN NoRating ELSE now[p]]

Tick ==
    /\ since' = [p \in Peers |-> IF since[p] \in 0..(Grace - 1) THEN since[p] + 1 ELSE since[p]]
    /\ UNCHANGED rating

Init == rating = [p \in Peers |-> NoRating] /\ since = [p \in Peers |-> NotMarked]

Next ==
    \/ Tick
    \/ \E p \in Peers, f \in {2, -1} : Update(p, f)
    \/ Purge
    \/ \E ids \in PidSeqs : Refresh(ids)

Spec == Init /\ [][Next]_vars
=============================================================================
