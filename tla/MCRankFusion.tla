---------------------------- MODULE MCRankFusion ----------------------------
(***************************************************************************)
(* Searches for RankFusion.  Mixed: three passages of every kind, under    *)
(* every filter.  Ranked: four passages of one client that differ in the   *)
(* text and in the distance only, under every weighting and cut.           *)
(***************************************************************************)
EXTENDS RankFusion, TLC

CONSTANTS me, other

Passage(client, scope, text, distance, degenerate) ==
    [client |-> client, scope |-> scope, text |-> text, distance |-> distance,
     degenerate |-> degenerate]

Foreign == Passage(other, "a", 2, 1, FALSE)

Mixed ==
    {Passage(me, "a", t, d, FALSE) : t \in 0..1, d \in 1..2}
    \union {Passage(me, "", 1, 1, FALSE), Passage(me, "", 0, 2, FALSE),
            Passage(me, "a", 1, 1, TRUE), Passage(me, "a", 0, 1, TRUE),
            Passage(me, "a", 2, NaN, FALSE), Foreign}

Ranked == {Passage(me, "a", t, d, FALSE) : t \in 0..2, d \in 1..3}

Asks(filter, k, embedded) ==
    [client |-> me, repo_filter |-> filter, top_k |-> k, embedded |-> embedded]

Set(candidates, k, f, v) ==
    [candidates |-> candidates, rrf_k |-> k, fts_weight |-> f, vector_weight |-> v]

Search(c, r, s) == [corpus |-> c, request |-> r, settings |-> s]

MCSearches ==
    {Search([i \in Ids |-> IF i = 4 THEN Foreign ELSE c[i]], r, s) :
        c \in [1..3 -> Mixed],
        r \in {Asks(f, k, e) : f \in {"", "a"}, k \in {1, 3}, e \in BOOLEAN},
        s \in {Set(2, 60, 1, 1), Set(2, 60, 0, 1)}}
    \union
    {Search(c, Asks("", k, TRUE), s) :
        c \in {d \in [Ids -> Ranked] : \A i \in Ids : d[i].distance \in {(i % 3) + 1, 1}},
        k \in {2, 4},
        s \in {Set(2, 60, 1, 1), Set(3, 1, 2, 1), Set(1, 2, 1, 3)}}
    \union
    {Search(c, Asks("", k, FALSE), s) :
        c \in {d \in [Ids -> Ranked] : \A i \in Ids : d[i].distance = 1},
        k \in {2, 4},
        s \in {Set(2, 60, 1, 0), Set(2, 60, 2, 1), Set(1, 1, 0, 1)}}
=============================================================================
