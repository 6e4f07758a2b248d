----------------------------- MODULE RankFusion -----------------------------
(***************************************************************************)
(* The hybrid statement of src/app/repositories/passage_search.py: a       *)
(* full-text arm and a vector arm, each cut to its best n, fused by        *)
(* weighted reciprocal rank and cut to top_k.                              *)
(*                                                                         *)
(* A passage is what the statement can tell of it: whose it is, how well   *)
(* it matches the text (0: not at all), how far its vector is from the     *)
(* query's (NaN: no distance), and its embedding_degenerate column.  Its   *)
(* note has the same client and scope by the composite foreign key.        *)
(* Weights are natural numbers and scores exact fractions.                 *)
(***************************************************************************)
EXTENDS Integers, FiniteSets, Sequences

CONSTANTS
    Ids,        \* passages.id
    Searches,   \* a corpus, a request to it, and the settings
    NaN

ASSUME IdsAssumption == Ids \subseteq Nat /\ IsFiniteSet(Ids)

(* ts_rank_cd is not negative and <=> is a number or NaN; the validators   *)
(* of config.py; and search.py asks for no vector where vector_weight is 0. *)
ASSUME SearchesAssumption ==
    \A s \in Searches :
        /\ \A x \in Ids :
              /\ s.corpus[x].text \in Nat
              /\ s.corpus[x].distance # NaN => s.corpus[x].distance \in Nat
        /\ s.request.top_k \in 1..50
        /\ s.settings.candidates \in 1..1000
        /\ s.settings.rrf_k \in Nat \ {0}
        /\ s.settings.fts_weight \in Nat /\ s.settings.vector_weight \in Nat
        /\ s.settings.fts_weight + s.settings.vector_weight > 0
        /\ s.request.embedded => s.settings.vector_weight > 0

VARIABLES
    search,   \* the search that is run
    reached,  \* the passages the HNSW scan finds before it ends
    fts, vec, \* the rank of each candidate in its arm
    page,     \* the result
    pc

vars == <<search, reached, fts, vec, page, pc>>

corpus == search.corpus
request == search.request
settings == search.settings

Init ==
    /\ search \in Searches
    /\ reached = {} /\ fts = <<>> /\ vec = <<>> /\ page = <<>>
    /\ pc = "guards"

-----------------------------------------------------------------------------
(* The two arms *)

(* A falsy repo_filter, None or "", filters nothing. *)
InScope(x) == request.repo_filter = "" \/ corpus[x].scope = request.repo_filter

(* Both arms filter before they rank and cut. *)
Visible(x) == corpus[x].client = request.client /\ InScope(x)

(* Fault: the vector arm forgets the scope. *)
FaultNearby(x) ==
    /\ corpus[x].client = request.client
    /\ ~corpus[x].degenerate /\ corpus[x].distance # NaN

Matching(x) == Visible(x) /\ corpus[x].text > 0

Nearby(x) == Visible(x) /\ ~corpus[x].degenerate /\ corpus[x].distance # NaN

(* Fault: a page longer than the candidates is capped. *)
FaultN == settings.candidates

N == IF settings.candidates > request.top_k THEN settings.candidates
     ELSE request.top_k

(* Fault: the weight 0 stands although nothing else ranks. *)
FaultFtsWeight == settings.fts_weight

FtsWeight ==
    IF ~request.embedded /\ settings.fts_weight = 0 THEN 1
    ELSE settings.fts_weight

TextRuns == FtsWeight > 0
VectorRuns == request.embedded /\ settings.vector_weight > 0

(* row_number() over an order: one more than the rows ahead. *)
RowNumber(S, Ahead(_, _)) ==
    [x \in S |-> 1 + Cardinality({y \in S : Ahead(y, x)})]

(* Fault: equal ranks are left as they come. *)
FaultBetterText(x, y) == corpus[x].text > corpus[y].text

BetterText(x, y) ==
    \/ corpus[x].text > corpus[y].text
    \/ corpus[x].text = corpus[y].text /\ x < y

Nearer(x, y) ==
    \/ corpus[x].distance < corpus[y].distance
    \/ corpus[x].distance = corpus[y].distance /\ x < y

(* ORDER BY the text rank and the id, LIMIT n. *)
TextCandidates ==
    LET matching == {x \in Ids : Matching(x)} IN
    {x \in matching : Cardinality({y \in matching : BetterText(y, x)}) < N}

(* ORDER BY the distance alone, LIMIT n: among equal distances at the cut  *)
(* the scan decides.                                                       *)
IsVectorCut(cut, scanned) ==
    /\ Cardinality(cut) = IF Cardinality(scanned) < N THEN Cardinality(scanned) ELSE N
    /\ \A x \in cut, y \in scanned \ cut : corpus[x].distance <= corpus[y].distance

-----------------------------------------------------------------------------
(* PassageSearchRepository.search *)

(* hybrid_statement refuses to be built without an arm. *)
RankText ==
    /\ pc = "guards"
    /\ fts' = IF TextRuns THEN RowNumber(TextCandidates, BetterText) ELSE <<>>
    /\ pc' = IF VectorRuns THEN "vector" ELSE IF TextRuns THEN "fuse" ELSE "refused"
    /\ UNCHANGED <<search, reached, vec, page>>

RankVector ==
    /\ pc = "vector"
    /\ \E scanned \in SUBSET {x \in Ids : Nearby(x)} :
       \E cut \in SUBSET scanned :
          /\ IsVectorCut(cut, scanned)
          /\ reached' = scanned
          /\ vec' = RowNumber(cut, Nearer)
    /\ pc' = "fuse"
    /\ UNCHANGED <<search, fts, page>>

(* Fault: integers are divided. *)
FaultTerm(w, ranks, x) ==
    [num |-> IF x \in DOMAIN ranks THEN w \div (settings.rrf_k + ranks[x]) ELSE 0,
     den |-> 1]

(* One arm's share of a score: w / (rrf_k + rank). *)
Term(w, ranks, x) ==
    [num |-> IF x \in DOMAIN ranks THEN w ELSE 0,
     den |-> IF x \in DOMAIN ranks THEN settings.rrf_k + ranks[x] ELSE 1]

Score(x) ==
    LET t == Term(FtsWeight, fts, x)
        v == Term(settings.vector_weight, vec, x)
    IN [num |-> t.num * v.den + v.num * t.den, den |-> t.den * v.den]

(* ORDER BY score DESC, id *)
Before(x, y) ==
    LET s == Score(x)  t == Score(y) IN
    \/ s.num * t.den > t.num * s.den
    \/ s.num * t.den = t.num * s.den /\ x < y

(* The final join checks the client again and takes the best top_k. *)
Fused == {x \in DOMAIN fts \union DOMAIN vec : corpus[x].client = request.client}

Fuse ==
    /\ pc = "fuse"
    /\ LET place == RowNumber(Fused, Before)
           k == IF Cardinality(Fused) < request.top_k THEN Cardinality(Fused)
                ELSE request.top_k
       IN page' = [i \in 1..k |-> CHOOSE x \in Fused : place[x] = i]
    /\ pc' = "done"
    /\ UNCHANGED <<search, reached, fts, vec>>

Next == RankText \/ RankVector \/ Fuse

Spec == Init /\ [][Next]_vars

-----------------------------------------------------------------------------
Shown == {page[i] : i \in DOMAIN page}

(* In each arm's list the ranks are 1, 2, ... without gap or tie, and no   *)
(* passage is twice on the page.                                           *)
TypeOK ==
    /\ \A ranks \in {fts, vec} :
          /\ DOMAIN ranks \subseteq Ids
          /\ {ranks[x] : x \in DOMAIN ranks} = 1..Cardinality(DOMAIN ranks)
    /\ Shown \subseteq Ids
    /\ Cardinality(Shown) = Len(page)

(* A result belongs to the client that asks and to the scope it asks for,  *)
(* in whichever arm it was found; one that does not match the text has a   *)
(* vector that can be compared (passage_search.py:3-18, 107-141).          *)
OwnPassagesOnly ==
    \A x \in Shown :
        /\ corpus[x].client = request.client
        /\ request.repo_filter # "" => corpus[x].scope = request.repo_filter
        /\ corpus[x].text = 0 =>
              ~corpus[x].degenerate /\ corpus[x].distance # NaN

(* x is as good as y for the text, or better. *)
TextFavours(x, y) == corpus[y].text = 0 \/ BetterText(x, y)

(* x is as near as y, or nearer, and did not lose to it at the cut. *)
VectorFavours(x, y) ==
    \/ ~Nearby(y)
    \/ /\ Nearby(x) /\ x \in reached
       /\ \/ corpus[x].distance < corpus[y].distance
          \/ /\ corpus[x].distance = corpus[y].distance /\ x < y
             /\ y \in DOMAIN vec => x \in DOMAIN vec

(* What both arms favour comes first: a passage on the page has before it  *)
(* every visible one that matches the text no worse and lies no farther    *)
(* (passage_search.py:174-224).                                            *)
FavouredFirst ==
    pc = "done" =>
        \A i \in DOMAIN page : \A x \in Ids \ {page[i]} :
            /\ TextRuns => Matching(x) /\ TextFavours(x, page[i])
            /\ VectorRuns => Nearby(x) /\ VectorFavours(x, page[i])
            => \E j \in 1..(i - 1) : page[j] = x

(* Without a vector a search is never refused and is the full-text search: *)
(* the best matches in their own order, whatever the weights; with the     *)
(* text arm off it is the nearest in theirs (passage_search.py:250-256).   *)
OneArmKeepsItsOrder ==
    /\ pc # "refused"
    /\ pc = "done" /\ ~VectorRuns =>
          /\ \A i, j \in DOMAIN page : i < j => BetterText(page[i], page[j])
          /\ Shown \subseteq {x \in Ids : Matching(x)}
          /\ \A x \in Ids \ Shown, y \in Shown : Matching(x) => BetterText(y, x)
          /\ Len(page) < request.top_k => {x \in Ids : Matching(x)} = Shown
    /\ pc = "done" /\ settings.fts_weight = 0 /\ VectorRuns =>
          \A i, j \in DOMAIN page : i < j => Nearer(page[i], page[j])

(* With a vector, and where the index scan misses nothing, the page is     *)
(* full as soon as so many passages can be compared or match the text      *)
(* (search.py:44-45, schemas/search.py:24-25).                             *)
FillsToTopK ==
    pc = "done" /\ VectorRuns /\ reached = {x \in Ids : Nearby(x)} =>
        LET there == {x \in Ids : Nearby(x) \/ (TextRuns /\ Matching(x))} IN
        Len(page) = IF Cardinality(there) < request.top_k THEN Cardinality(there)
                    ELSE request.top_k
=============================================================================
