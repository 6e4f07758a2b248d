-------------------------- MODULE RankFusionProofs --------------------------
(***************************************************************************)
(* For every corpus, request and setting: what the fused page consists of  *)
(* and in which order.                                                     *)
(***************************************************************************)
EXTENDS RankFusion, FiniteSetTheorems, FunctionTheorems, TLAPS

-----------------------------------------------------------------------------
(* Ranking.  An order is given as the set O of its pairs. *)

StrictTotal(S, O) ==
    /\ \A x \in S : <<x, x>> \notin O
    /\ \A x, y \in S : x # y => <<x, y>> \in O \/ <<y, x>> \in O
    /\ \A x, y, z \in S : <<x, y>> \in O /\ <<y, z>> \in O => <<x, z>> \in O

AheadOf(S, O, x) == {y \in S : <<y, x>> \in O}

LEMMA MoreAhead ==
    ASSUME NEW S, IsFiniteSet(S), NEW O, StrictTotal(S, O),
           NEW x \in S, NEW y \in S
    PROVE  /\ Cardinality(AheadOf(S, O, x)) \in Nat
           /\ Cardinality(AheadOf(S, O, y)) \in Nat
           /\ Cardinality(AheadOf(S, O, x)) < Cardinality(S)
           /\ <<x, y>> \in O
                 <=> Cardinality(AheadOf(S, O, x)) < Cardinality(AheadOf(S, O, y))
<1>1. ASSUME NEW z \in S
      PROVE  /\ IsFiniteSet(AheadOf(S, O, z))
             /\ Cardinality(AheadOf(S, O, z)) \in Nat
             /\ Cardinality(AheadOf(S, O, z)) < Cardinality(S)
  <2>1. AheadOf(S, O, z) \in SUBSET S /\ z \notin AheadOf(S, O, z)
    BY DEF AheadOf, StrictTotal
  <2>2. /\ IsFiniteSet(AheadOf(S, O, z))
        /\ Cardinality(AheadOf(S, O, z)) <= Cardinality(S)
        /\ Cardinality(S) = Cardinality(AheadOf(S, O, z)) => S = AheadOf(S, O, z)
    BY <2>1, FS_Subset
  <2>3. Cardinality(S) \in Nat /\ Cardinality(AheadOf(S, O, z)) \in Nat
    BY <2>2, FS_CardinalityType
  <2> QED BY <2>1, <2>2, <2>3
<1>2. ASSUME NEW v \in S, NEW w \in S, <<v, w>> \in O
      PROVE  Cardinality(AheadOf(S, O, v)) < Cardinality(AheadOf(S, O, w))
  <2>1. AheadOf(S, O, v) \in SUBSET AheadOf(S, O, w)
    BY <1>2 DEF AheadOf, StrictTotal
  <2>2. v \in AheadOf(S, O, w) /\ v \notin AheadOf(S, O, v)
    BY <1>2 DEF AheadOf, StrictTotal
  <2>3. /\ IsFiniteSet(AheadOf(S, O, w))
        /\ Cardinality(AheadOf(S, O, v)) \in Nat /\ Cardinality(AheadOf(S, O, w)) \in Nat
    BY <1>1
  <2> QED BY <2>1, <2>2, <2>3, FS_Subset
<1>3. <<x, y>> \in O => Cardinality(AheadOf(S, O, x)) < Cardinality(AheadOf(S, O, y))
  BY <1>2
<1>4. <<y, x>> \in O => Cardinality(AheadOf(S, O, y)) < Cardinality(AheadOf(S, O, x))
  BY <1>2
<1>5. x = y \/ <<x, y>> \in O \/ <<y, x>> \in O
  BY DEF StrictTotal
<1> QED BY <1>1, <1>3, <1>4, <1>5

(* row_number() over a strict total order numbers the rows 1, 2, ...       *)
LEMMA Ranking ==
    ASSUME NEW S, IsFiniteSet(S), NEW O, StrictTotal(S, O),
           NEW r, r = [x \in S |-> 1 + Cardinality(AheadOf(S, O, x))]
    PROVE  /\ Cardinality(S) \in Nat
           /\ r \in Bijection(S, 1..Cardinality(S))
           /\ r \in [S -> 1..Cardinality(S)]
           /\ \A x, y \in S : <<x, y>> \in O <=> r[x] < r[y]
           /\ \A x, y \in S : r[x] = r[y] => x = y
           /\ \A i \in 1..Cardinality(S) : \E x \in S : r[x] = i
<1> DEFINE n == Cardinality(S)
<1>1. n \in Nat
  BY FS_CardinalityType
<1>2. \A x \in S :
         /\ Cardinality(AheadOf(S, O, x)) \in Nat
         /\ Cardinality(AheadOf(S, O, x)) < n
         /\ r[x] = 1 + Cardinality(AheadOf(S, O, x))
  BY MoreAhead
<1>3. r \in [S -> 1..n]
  BY <1>1, <1>2
<1>4. \A x, y \in S : <<x, y>> \in O <=> r[x] < r[y]
  <2> SUFFICES ASSUME NEW x \in S, NEW y \in S
               PROVE  <<x, y>> \in O <=> r[x] < r[y]
    OBVIOUS
  <2>1. <<x, y>> \in O
           <=> Cardinality(AheadOf(S, O, x)) < Cardinality(AheadOf(S, O, y))
    BY MoreAhead
  <2> QED BY <1>2, <2>1
<1>5. \A x, y \in S : r[x] = r[y] => x = y
  <2> SUFFICES ASSUME NEW x \in S, NEW y \in S, r[x] = r[y], x # y PROVE FALSE
    OBVIOUS
  <2>1. r[x] \in Nat /\ r[y] \in Nat
    BY <1>3
  <2>2. <<x, y>> \notin O /\ <<y, x>> \notin O
    BY <1>4, <2>1
  <2> QED BY <2>2 DEF StrictTotal
<1> HIDE DEF n
<1>6. r \in Injection(S, 1..n)
  BY <1>3, <1>5, Fun_IsInj
<1>7. IsFiniteSet(1..n) /\ Cardinality(1..n) = n
  BY <1>1, FS_Interval
<1>8. r \in Surjection(S, 1..n)
  BY <1>6, <1>7, FS_Injection DEF n
<1>9. r \in Bijection(S, 1..n)
  BY <1>6, <1>8 DEF Bijection
<1>10. \A i \in 1..n : \E x \in S : r[x] = i
  BY <1>8 DEF Surjection
<1> QED BY <1>1, <1>3, <1>4, <1>5, <1>9, <1>10 DEF n

(* LIMIT m takes m rows where there are so many. *)
LEMMA Limiting ==
    ASSUME NEW S, IsFiniteSet(S), NEW O, StrictTotal(S, O), NEW m \in Nat,
           NEW T, T = {x \in S : Cardinality(AheadOf(S, O, x)) < m}
    PROVE  /\ IsFiniteSet(T)
           /\ Cardinality(S) \in Nat
           /\ Cardinality(T) = IF Cardinality(S) < m THEN Cardinality(S) ELSE m
           /\ Cardinality(S) <= m => T = S
<1> DEFINE n == Cardinality(S)
<1>0. PICK r : r = [x \in S |-> 1 + Cardinality(AheadOf(S, O, x))]
  OBVIOUS
<1>1. /\ n \in Nat
      /\ r \in [S -> 1..n]
      /\ \A x, y \in S : r[x] = r[y] => x = y
      /\ \A i \in 1..n : \E x \in S : r[x] = i
  BY <1>0, Ranking
<1>2. T = {x \in S : r[x] <= m}
  <2>1. \A x \in S : Cardinality(AheadOf(S, O, x)) \in Nat
    BY MoreAhead
  <2>2. \A x \in S : Cardinality(AheadOf(S, O, x)) < m <=> r[x] <= m
    BY <1>0, <2>1
  <2> QED BY <2>2
<1>3. IsFiniteSet(T)
  BY <1>2, FS_Subset
<1>4. CASE n <= m
  <2>1. T = S
    BY <1>1, <1>2, <1>4
  <2> QED BY <1>1, <1>3, <1>4, <2>1
<1>5. CASE m < n
  <2> DEFINE f == [x \in T |-> r[x]]
  <2>1. f \in [T -> 1..m] /\ \A x, y \in T : f[x] = f[y] => x = y
    BY <1>1, <1>2
  <2>2. \A i \in 1..m : \E x \in T : f[x] = i
    BY <1>1, <1>2, <1>5
  <2> HIDE DEF f
  <2>3. f \in Bijection(T, 1..m)
    BY <2>1, <2>2, Fun_IsInj, Fun_IsSurj DEF Bijection
  <2>4. Cardinality(1..m) = Cardinality(T)
    BY <1>3, <2>3, FS_Bijection DEF ExistsBijection
  <2>5. Cardinality(1..m) = m
    BY FS_Interval
  <2> QED BY <1>1, <1>3, <1>5, <2>4, <2>5
<1> QED BY <1>1, <1>4, <1>5

(* Rows that were ranked ahead in the whole table are ahead among the best. *)
LEMMA AheadIsBest ==
    ASSUME NEW S, IsFiniteSet(S), NEW O, StrictTotal(S, O), NEW m \in Nat,
           NEW x \in S, NEW y \in S,
           <<x, y>> \in O, Cardinality(AheadOf(S, O, y)) < m
    PROVE  Cardinality(AheadOf(S, O, x)) < m
BY MoreAhead

LEMMA StrictTotalSubset ==
    ASSUME NEW S, NEW O, StrictTotal(S, O), NEW T \in SUBSET S
    PROVE  StrictTotal(T, O)
BY DEF StrictTotal

-----------------------------------------------------------------------------
(* Fractions, cross-multiplied. *)

LEMMA Product == \A a, b \in Nat : a * b \in Nat /\ (a > 0 /\ b > 0 => a * b > 0)
  OBVIOUS

LEMMA TimesKeepsOrder ==
    ASSUME NEW a \in Nat, NEW b \in Nat, NEW c \in Nat, c > 0
    PROVE  a > b <=> a * c > b * c
  OBVIOUS

LEMMA FractionsTransitive ==
    ASSUME NEW a \in Nat, NEW b \in Nat, NEW c \in Nat, NEW d \in Nat,
           NEW e \in Nat, NEW f \in Nat, b > 0, d > 0, f > 0,
           a * d >= c * b, c * f >= e * d
    PROVE  /\ a * f >= e * b
           /\ a * d > c * b \/ c * f > e * d => a * f > e * b
  OBVIOUS

LEMMA FractionsAdd ==
    ASSUME NEW a \in Nat, NEW b \in Nat, NEW c \in Nat, NEW d \in Nat,
           NEW e \in Nat, NEW f \in Nat, NEW g \in Nat, NEW h \in Nat,
           b > 0, d > 0, f > 0, h > 0,
           a * d >= c * b, e * h >= g * f,
           a * d > c * b \/ e * h > g * f
    PROVE  (a * f + e * b) * (d * h) > (c * h + g * d) * (b * f)
  OBVIOUS

-----------------------------------------------------------------------------
(* The three orders of the statement. *)

Ranked(S, O) == [x \in S |-> 1 + Cardinality(AheadOf(S, O, x))]

TextOrder == {p \in Ids \X Ids : BetterText(p[1], p[2])}

Comparable == {x \in Ids : corpus[x].distance # NaN}
NearOrder == {p \in Comparable \X Comparable : Nearer(p[1], p[2])}

ScoreOrder == {p \in Fused \X Fused : Before(p[1], p[2])}

MatchingIds == {x \in Ids : Matching(x)}
NearbyIds == {x \in Ids : Nearby(x)}

LEMMA SearchFacts ==
    ASSUME search \in Searches
    PROVE  /\ \A x \in Ids : corpus[x].text \in Nat
           /\ \A x \in Comparable : corpus[x].distance \in Nat
           /\ request.top_k \in 1..50
           /\ N \in Nat /\ N >= request.top_k
           /\ settings.rrf_k \in Nat \ {0}
           /\ FtsWeight \in Nat /\ settings.vector_weight \in Nat
           /\ TextRuns \/ VectorRuns
           /\ ~VectorRuns => FtsWeight > 0
           /\ request.embedded => settings.vector_weight > 0
           /\ settings.fts_weight = 0 /\ VectorRuns => ~TextRuns
<1>1. /\ \A x \in Ids :
            /\ corpus[x].text \in Nat
            /\ corpus[x].distance # NaN => corpus[x].distance \in Nat
      /\ request.top_k \in 1..50
      /\ settings.candidates \in 1..1000
      /\ settings.rrf_k \in Nat \ {0}
      /\ settings.fts_weight \in Nat /\ settings.vector_weight \in Nat
      /\ settings.fts_weight + settings.vector_weight > 0
      /\ request.embedded => settings.vector_weight > 0
  BY SearchesAssumption DEF corpus, request, settings
<1>2. N \in Nat /\ N >= request.top_k
  <2>1. settings.candidates \in Nat /\ request.top_k \in Nat
    BY <1>1
  <2> QED BY <2>1 DEF N
<1>3. /\ FtsWeight \in Nat
      /\ TextRuns \/ VectorRuns
      /\ ~VectorRuns => FtsWeight > 0
      /\ settings.fts_weight = 0 /\ VectorRuns => ~TextRuns
  BY <1>1 DEF FtsWeight, TextRuns, VectorRuns
<1> QED BY <1>1, <1>2, <1>3 DEF Comparable

LEMMA IdsFacts ==
    /\ IsFiniteSet(Ids) /\ \A x \in Ids : x \in Nat
    /\ \A S \in SUBSET Ids : IsFiniteSet(S) /\ Cardinality(S) \in Nat
<1>1. IsFiniteSet(Ids) /\ \A x \in Ids : x \in Nat
  BY IdsAssumption
<1> QED BY <1>1, FS_Subset, FS_CardinalityType

LEMMA TextOrderTotal ==
    ASSUME search \in Searches
    PROVE  StrictTotal(Ids, TextOrder)
<1>1. \A x \in Ids : corpus[x].text \in Nat /\ x \in Nat
  BY SearchFacts, IdsFacts
<1>2. \A x, y \in Ids : <<x, y>> \in TextOrder <=> BetterText(x, y)
  BY DEF TextOrder
<1>3. \A x \in Ids : ~BetterText(x, x)
  BY <1>1 DEF BetterText
<1>4. \A x, y \in Ids : x # y => BetterText(x, y) \/ BetterText(y, x)
  BY <1>1 DEF BetterText
<1>5. \A x, y, z \in Ids : BetterText(x, y) /\ BetterText(y, z) => BetterText(x, z)
  BY <1>1 DEF BetterText
<1> QED BY <1>2, <1>3, <1>4, <1>5 DEF StrictTotal

LEMMA NearOrderTotal ==
    ASSUME search \in Searches
    PROVE  StrictTotal(Comparable, NearOrder)
<1>1. \A x \in Comparable : corpus[x].distance \in Nat /\ x \in Nat
  BY SearchFacts, IdsFacts DEF Comparable
<1>2. \A x, y \in Comparable : <<x, y>> \in NearOrder <=> Nearer(x, y)
  BY DEF NearOrder
<1>3. \A x \in Comparable : ~Nearer(x, x)
  BY <1>1 DEF Nearer
<1>4. \A x, y \in Comparable : x # y => Nearer(x, y) \/ Nearer(y, x)
  BY <1>1 DEF Nearer
<1>5. \A x, y, z \in Comparable : Nearer(x, y) /\ Nearer(y, z) => Nearer(x, z)
  BY <1>1 DEF Nearer
<1> QED BY <1>2, <1>3, <1>4, <1>5 DEF StrictTotal

(* row_number() in each of them is a ranking. *)
LEMMA TextRowNumber ==
    ASSUME NEW T \in SUBSET Ids
    PROVE  RowNumber(T, BetterText) = Ranked(T, TextOrder)
<1>1. ASSUME NEW x \in T
      PROVE  {y \in T : BetterText(y, x)} = AheadOf(T, TextOrder, x)
  BY DEF AheadOf, TextOrder
<1> QED BY <1>1 DEF RowNumber, Ranked

LEMMA NearRowNumber ==
    ASSUME NEW T \in SUBSET Comparable
    PROVE  RowNumber(T, Nearer) = Ranked(T, NearOrder)
<1>1. ASSUME NEW x \in T
      PROVE  {y \in T : Nearer(y, x)} = AheadOf(T, NearOrder, x)
  BY DEF AheadOf, NearOrder
<1> QED BY <1>1 DEF RowNumber, Ranked

LEMMA ScoreRowNumber == RowNumber(Fused, Before) = Ranked(Fused, ScoreOrder)
<1>1. ASSUME NEW x \in Fused
      PROVE  {y \in Fused : Before(y, x)} = AheadOf(Fused, ScoreOrder, x)
  BY DEF AheadOf, ScoreOrder
<1> QED BY <1>1 DEF RowNumber, Ranked

LEMMA CandidatesAreBest ==
    TextCandidates =
       {x \in MatchingIds : Cardinality(AheadOf(MatchingIds, TextOrder, x)) < N}
<1>1. ASSUME NEW x \in MatchingIds
      PROVE  {y \in MatchingIds : BetterText(y, x)} = AheadOf(MatchingIds, TextOrder, x)
  BY DEF AheadOf, TextOrder, MatchingIds
<1> QED BY <1>1 DEF TextCandidates, MatchingIds

-----------------------------------------------------------------------------
(* What each column holds once it is computed.  The text ranks and the     *)
(* page follow from the search; the vector ranks are those of some cut.    *)

PageLen == IF Cardinality(Fused) < request.top_k THEN Cardinality(Fused)
           ELSE request.top_k

TextColumn ==
    fts = IF pc # "guards" /\ TextRuns THEN Ranked(TextCandidates, TextOrder) ELSE <<>>

VectorColumn ==
    /\ reached \subseteq NearbyIds
    /\ IF pc \in {"fuse", "done"} /\ VectorRuns
       THEN \E cut \in SUBSET reached :
               IsVectorCut(cut, reached) /\ vec = Ranked(cut, NearOrder)
       ELSE vec = <<>>

PageRows ==
    IF pc = "done"
    THEN /\ page \in [1..PageLen -> Fused]
         /\ \A i \in 1..PageLen : Ranked(Fused, ScoreOrder)[page[i]] = i
    ELSE page = <<>>

RInv ==
    /\ search \in Searches
    /\ pc \in {"guards", "vector", "fuse", "done"}
    /\ pc = "vector" => VectorRuns
    /\ TextColumn
    /\ VectorColumn
    /\ PageRows

(* The statement reads nothing but the search until it is fused. *)
LEMMA SameSearch ==
    ASSUME search' = search
    PROVE  /\ TextRuns' = TextRuns /\ VectorRuns' = VectorRuns
           /\ TextCandidates' = TextCandidates /\ TextOrder' = TextOrder
           /\ NearOrder' = NearOrder /\ NearbyIds' = NearbyIds
<1>1. corpus' = corpus /\ request' = request /\ settings' = settings
  BY DEF corpus, request, settings
<1>2. TextRuns' = TextRuns /\ VectorRuns' = VectorRuns /\ N' = N
  BY <1>1 DEF TextRuns, VectorRuns, FtsWeight, N
<1>3. TextOrder' = TextOrder /\ NearOrder' = NearOrder
  BY <1>1 DEF TextOrder, NearOrder, BetterText, Nearer, Comparable
<1>4. NearbyIds' = NearbyIds /\ MatchingIds' = MatchingIds
  BY <1>1 DEF NearbyIds, MatchingIds, Nearby, Matching, Visible, InScope
<1>5. TextCandidates' = TextCandidates
  <2>1. {x \in Ids : Matching(x)}' = {x \in Ids : Matching(x)}
    BY <1>1 DEF Matching, Visible, InScope
  <2>2. \A x, S : {y \in S : BetterText(y, x)}' = {y \in S : BetterText(y, x)}
    BY <1>1 DEF BetterText
  <2> QED BY <1>2, <2>1, <2>2 DEF TextCandidates
<1> QED BY <1>2, <1>3, <1>4, <1>5

LEMMA SameCut ==
    ASSUME search' = search, NEW cut, NEW scanned, IsVectorCut(cut, scanned)
    PROVE  IsVectorCut(cut, scanned)'
BY DEF IsVectorCut, N, corpus, request, settings

LEMMA SameFused ==
    ASSUME search' = search, fts' = fts, vec' = vec
    PROVE  Fused' = Fused /\ ScoreOrder' = ScoreOrder /\ PageLen' = PageLen
<1>1. corpus' = corpus /\ request' = request /\ settings' = settings
  BY DEF corpus, request, settings
<1>2. Fused' = Fused
  BY <1>1 DEF Fused
<1>3. FtsWeight' = FtsWeight
  BY <1>1 DEF FtsWeight
<1>4. \A x, y : Before(x, y)' <=> Before(x, y)
  BY <1>1, <1>3 DEF Before, Score, Term
<1>5. ScoreOrder' = ScoreOrder
  BY <1>2, <1>4 DEF ScoreOrder
<1> QED BY <1>1, <1>2, <1>5 DEF PageLen

LEMMA RankInit == Init => RInv
BY DEF Init, RInv, TextColumn, VectorColumn, PageRows

LEMMA RankTextKeeps == ASSUME RInv, RankText PROVE RInv'
<1>1. /\ pc = "guards" /\ search \in Searches /\ reached \subseteq NearbyIds
      /\ vec = <<>> /\ page = <<>>
      /\ search' = search /\ reached' = reached /\ vec' = vec /\ page' = page
      /\ fts' = IF TextRuns THEN RowNumber(TextCandidates, BetterText) ELSE <<>>
      /\ pc' = IF VectorRuns THEN "vector" ELSE IF TextRuns THEN "fuse" ELSE "refused"
  BY DEF RInv, VectorColumn, PageRows, RankText
<1>2. TextRuns \/ VectorRuns
  BY <1>1, SearchFacts
<1>3. pc' \in {"vector", "fuse"} /\ (pc' = "vector" <=> VectorRuns)
  BY <1>1, <1>2
<1>4. TextColumn'
  <2>1. TextCandidates \in SUBSET Ids
    BY DEF TextCandidates
  <2>2. fts' = IF TextRuns THEN Ranked(TextCandidates, TextOrder) ELSE <<>>
    BY <1>1, <2>1, TextRowNumber
  <2> QED BY <1>1, <1>3, <2>2, SameSearch DEF TextColumn
<1>5. VectorColumn'
  BY <1>1, <1>3, SameSearch DEF VectorColumn
<1>6. PageRows'
  BY <1>1, <1>3 DEF PageRows
<1> QED BY <1>1, <1>3, <1>4, <1>5, <1>6, SameSearch DEF RInv

LEMMA RankVectorKeeps == ASSUME RInv, RankVector PROVE RInv'
<1>1. /\ pc = "vector" /\ pc' = "fuse" /\ search \in Searches /\ VectorRuns
      /\ page = <<>>
      /\ search' = search /\ fts' = fts /\ page' = page
  BY DEF RInv, PageRows, RankVector
<1>2. PICK scanned \in SUBSET NearbyIds : \E cut \in SUBSET scanned :
         /\ IsVectorCut(cut, scanned)
         /\ reached' = scanned
         /\ vec' = RowNumber(cut, Nearer)
  BY DEF RankVector, NearbyIds
<1>3. PICK cut \in SUBSET scanned :
         /\ IsVectorCut(cut, scanned)
         /\ reached' = scanned
         /\ vec' = RowNumber(cut, Nearer)
  BY <1>2
<1>4. cut \in SUBSET Comparable
  BY DEF NearbyIds, Comparable, Nearby
<1>5. vec' = Ranked(cut, NearOrder)
  BY <1>3, <1>4, NearRowNumber
<1>6. IsVectorCut(cut, scanned)'
  BY <1>1, <1>3, SameCut
<1>7. VectorColumn'
  <2>1. reached' \subseteq NearbyIds' /\ VectorRuns'
    BY <1>1, <1>3, SameSearch
  <2>2. cut \in SUBSET reached' /\ IsVectorCut(cut, reached)' /\ vec' = Ranked(cut, NearOrder')
    BY <1>1, <1>3, <1>5, <1>6, SameSearch DEF IsVectorCut
  <2> QED BY <1>1, <2>1, <2>2 DEF VectorColumn
<1>8. TextColumn'
  BY <1>1, SameSearch DEF RInv, TextColumn
<1>9. PageRows'
  BY <1>1 DEF PageRows
<1> QED BY <1>1, <1>7, <1>8, <1>9 DEF RInv

LEMMA RankedFacts ==
    ASSUME NEW S, IsFiniteSet(S), NEW O, StrictTotal(S, O)
    PROVE  /\ DOMAIN Ranked(S, O) = S
           /\ \A x \in S : Ranked(S, O)[x] \in 1..Cardinality(S)
           /\ \A x \in S : Ranked(S, O)[x] \in Nat \ {0}
           /\ \A x, y \in S : <<x, y>> \in O <=> Ranked(S, O)[x] < Ranked(S, O)[y]
           /\ \A x, y \in S : Ranked(S, O)[x] = Ranked(S, O)[y] => x = y
           /\ \A i \in 1..Cardinality(S) : \E x \in S : Ranked(S, O)[x] = i
           /\ {Ranked(S, O)[x] : x \in S} = 1..Cardinality(S)
<1>1. PICK r : r = Ranked(S, O)
  OBVIOUS
<1>2. r = [x \in S |-> 1 + Cardinality(AheadOf(S, O, x))]
  BY <1>1 DEF Ranked
<1>3. /\ Cardinality(S) \in Nat
      /\ r \in [S -> 1..Cardinality(S)]
      /\ \A x, y \in S : <<x, y>> \in O <=> r[x] < r[y]
      /\ \A x, y \in S : r[x] = r[y] => x = y
      /\ \A i \in 1..Cardinality(S) : \E x \in S : r[x] = i
  BY <1>2, Ranking
<1>4. \A x \in S : r[x] \in 1..Cardinality(S) /\ r[x] \in Nat \ {0}
  BY <1>3
<1>5. {r[x] : x \in S} = 1..Cardinality(S)
  BY <1>3, <1>4
<1> QED BY <1>1, <1>3, <1>4, <1>5

LEMMA MatchingFacts ==
    ASSUME search \in Searches
    PROVE  /\ MatchingIds \in SUBSET Ids /\ TextCandidates \in SUBSET MatchingIds
           /\ IsFiniteSet(MatchingIds) /\ IsFiniteSet(TextCandidates)
           /\ StrictTotal(MatchingIds, TextOrder)
           /\ StrictTotal(TextCandidates, TextOrder)
<1>1. MatchingIds \in SUBSET Ids /\ TextCandidates \in SUBSET MatchingIds
  BY DEF TextCandidates, MatchingIds
<1>2. TextCandidates \in SUBSET Ids
  BY <1>1
<1> QED BY <1>1, <1>2, IdsFacts, TextOrderTotal, StrictTotalSubset

LEMMA NearbyFacts ==
    ASSUME search \in Searches, NEW S \in SUBSET NearbyIds
    PROVE  /\ IsFiniteSet(S) /\ S \in SUBSET Comparable /\ S \in SUBSET Ids
           /\ StrictTotal(S, NearOrder)
<1>1. S \in SUBSET Comparable /\ S \in SUBSET Ids
  BY DEF NearbyIds, Comparable, Nearby
<1> QED BY <1>1, IdsFacts, NearOrderTotal, StrictTotalSubset

(* The columns that are fused. *)
LEMMA ColumnFacts ==
    ASSUME RInv, pc \in {"fuse", "done"}
    PROVE  /\ DOMAIN fts = IF TextRuns THEN TextCandidates ELSE {}
           /\ DOMAIN fts \subseteq MatchingIds /\ DOMAIN vec \subseteq NearbyIds
           /\ \A x \in DOMAIN fts : fts[x] \in Nat \ {0}
           /\ \A x \in DOMAIN vec : vec[x] \in Nat \ {0}
           /\ \A x, y \in DOMAIN fts : BetterText(x, y) <=> fts[x] < fts[y]
           /\ \A x, y \in DOMAIN vec : Nearer(x, y) <=> vec[x] < vec[y]
           /\ DOMAIN fts # {} => TextRuns
           /\ DOMAIN vec # {} => VectorRuns
           /\ Fused = DOMAIN fts \cup DOMAIN vec
           /\ Fused \in SUBSET Ids /\ IsFiniteSet(Fused) /\ Cardinality(Fused) \in Nat
<1>1. search \in Searches /\ TextColumn /\ VectorColumn
  BY DEF RInv
<1>2. DOMAIN <<>> = {}
  OBVIOUS
<1>3. /\ DOMAIN fts = IF TextRuns THEN TextCandidates ELSE {}
      /\ \A x \in DOMAIN fts : fts[x] \in Nat \ {0}
      /\ \A x, y \in DOMAIN fts : <<x, y>> \in TextOrder <=> fts[x] < fts[y]
  <2>1. CASE TextRuns
    <3>1. fts = Ranked(TextCandidates, TextOrder)
      BY <1>1, <2>1 DEF TextColumn
    <3> QED BY <1>1, <2>1, <3>1, MatchingFacts, RankedFacts
  <2>2. CASE ~TextRuns
    BY <1>1, <1>2, <2>2 DEF TextColumn
  <2> QED BY <2>1, <2>2
<1>4. /\ DOMAIN vec \subseteq NearbyIds
      /\ \A x \in DOMAIN vec : vec[x] \in Nat \ {0}
      /\ \A x, y \in DOMAIN vec : <<x, y>> \in NearOrder <=> vec[x] < vec[y]
      /\ DOMAIN vec # {} => VectorRuns
  <2>1. CASE VectorRuns
    <3>1. PICK cut \in SUBSET reached : vec = Ranked(cut, NearOrder)
      BY <1>1, <2>1 DEF VectorColumn
    <3>2. cut \in SUBSET NearbyIds
      BY <1>1 DEF VectorColumn
    <3> QED BY <1>1, <2>1, <3>1, <3>2, NearbyFacts, RankedFacts
  <2>2. CASE ~VectorRuns
    BY <1>1, <1>2, <2>2 DEF VectorColumn
  <2> QED BY <2>1, <2>2
<1>5. DOMAIN fts \subseteq MatchingIds /\ DOMAIN fts \subseteq Ids
  BY <1>1, <1>3, MatchingFacts
<1>6. \A x, y \in DOMAIN fts : BetterText(x, y) <=> <<x, y>> \in TextOrder
  BY <1>5 DEF TextOrder
<1>7. DOMAIN vec \subseteq Comparable /\ DOMAIN vec \subseteq Ids
  BY <1>1, <1>4, NearbyFacts
<1>8. \A x, y \in DOMAIN vec : Nearer(x, y) <=> <<x, y>> \in NearOrder
  BY <1>7 DEF NearOrder
<1>9. Fused = DOMAIN fts \cup DOMAIN vec
  BY <1>4, <1>5 DEF Fused, MatchingIds, NearbyIds, Matching, Nearby, Visible
<1>10. Fused \in SUBSET Ids
  BY <1>5, <1>7, <1>9
<1>11. IsFiniteSet(Fused) /\ Cardinality(Fused) \in Nat
  BY <1>10, IdsFacts
<1> QED BY <1>3, <1>4, <1>5, <1>6, <1>8, <1>9, <1>10, <1>11

LEMMA TermFacts ==
    ASSUME RInv, pc \in {"fuse", "done"}, NEW x
    PROVE  /\ Term(FtsWeight, fts, x).num \in Nat
           /\ Term(FtsWeight, fts, x).den \in Nat \ {0}
           /\ Term(settings.vector_weight, vec, x).num \in Nat
           /\ Term(settings.vector_weight, vec, x).den \in Nat \ {0}
<1>1. search \in Searches
  BY DEF RInv
<1>2. /\ FtsWeight \in Nat /\ settings.vector_weight \in Nat
      /\ settings.rrf_k \in Nat \ {0}
  BY <1>1, SearchFacts
<1>3. \A z \in DOMAIN fts : fts[z] \in Nat \ {0}
  BY ColumnFacts
<1>4. \A z \in DOMAIN vec : vec[z] \in Nat \ {0}
  BY ColumnFacts
<1> QED BY <1>2, <1>3, <1>4 DEF Term

LEMMA ScoreFacts ==
    ASSUME RInv, pc \in {"fuse", "done"}, NEW x
    PROVE  Score(x).num \in Nat /\ Score(x).den \in Nat \ {0}
<1> DEFINE t == Term(FtsWeight, fts, x)
           v == Term(settings.vector_weight, vec, x)
<1>1. t.num \in Nat /\ t.den \in Nat \ {0} /\ v.num \in Nat /\ v.den \in Nat \ {0}
  BY TermFacts
<1>2. /\ Score(x).num = t.num * v.den + v.num * t.den
      /\ Score(x).den = t.den * v.den
  BY DEF Score
<1> HIDE DEF t, v
<1>3. t.num * v.den \in Nat /\ v.num * t.den \in Nat /\ t.den * v.den \in Nat \ {0}
  BY <1>1, Product
<1> QED BY <1>2, <1>3

LEMMA ScoreOrderTotal ==
    ASSUME RInv, pc \in {"fuse", "done"}
    PROVE  StrictTotal(Fused, ScoreOrder)
<1>1. \A x \in Fused : x \in Nat
  BY ColumnFacts, IdsFacts
<1>2. \A x \in Fused : Score(x).num \in Nat /\ Score(x).den \in Nat /\ Score(x).den > 0
  BY ScoreFacts
<1>3. \A x, y \in Fused : <<x, y>> \in ScoreOrder <=> Before(x, y)
  BY DEF ScoreOrder
<1>4. \A x, y \in Fused :
         Before(x, y) <=>
            \/ Score(x).num * Score(y).den > Score(y).num * Score(x).den
            \/ Score(x).num * Score(y).den = Score(y).num * Score(x).den /\ x < y
  BY DEF Before
<1>5. \A x, y \in Fused : Score(x).num * Score(y).den \in Nat
  BY <1>2, Product
<1>6. \A x \in Fused : ~Before(x, x)
  BY <1>1, <1>4, <1>5
<1>7. \A x, y \in Fused : x # y => Before(x, y) \/ Before(y, x)
  BY <1>1, <1>4, <1>5
<1>8. ASSUME NEW x \in Fused, NEW y \in Fused, NEW z \in Fused,
             Before(x, y), Before(y, z)
      PROVE  Before(x, z)
  <2> DEFINE a == Score(x).num  b == Score(x).den
             c == Score(y).num  d == Score(y).den
             e == Score(z).num  f == Score(z).den
  <2>1. /\ a \in Nat /\ b \in Nat /\ c \in Nat /\ d \in Nat /\ e \in Nat /\ f \in Nat
        /\ b > 0 /\ d > 0 /\ f > 0
    BY <1>2
  <2>2. /\ a * d > c * b \/ (a * d = c * b /\ x < y)
        /\ c * f > e * d \/ (c * f = e * d /\ y < z)
    BY <1>4, <1>8
  <2>3. a * d \in Nat /\ c * b \in Nat /\ c * f \in Nat /\ e * d \in Nat
        /\ a * f \in Nat /\ e * b \in Nat
    BY <1>5
  <2>4. Before(x, z) <=> a * f > e * b \/ (a * f = e * b /\ x < z)
    BY <1>4
  <2> HIDE DEF a, b, c, d, e, f
  <2>5. a * d >= c * b /\ c * f >= e * d
    BY <2>2, <2>3
  <2>6. /\ a * f >= e * b
        /\ a * d > c * b \/ c * f > e * d => a * f > e * b
    BY <2>1, <2>5, FractionsTransitive
  <2>7. x < y /\ y < z => x < z
    BY <1>1
  <2> QED BY <2>2, <2>3, <2>4, <2>6, <2>7
<1> QED BY <1>3, <1>6, <1>7, <1>8 DEF StrictTotal

(* The page's rows are the first of the fused ones. *)
LEMMA FusedRanks ==
    ASSUME RInv, pc \in {"fuse", "done"}
    PROVE  /\ \A x \in Fused : Ranked(Fused, ScoreOrder)[x] \in 1..Cardinality(Fused)
           /\ \A x, y \in Fused :
                 Before(x, y) <=> Ranked(Fused, ScoreOrder)[x] < Ranked(Fused, ScoreOrder)[y]
           /\ \A x, y \in Fused :
                 Ranked(Fused, ScoreOrder)[x] = Ranked(Fused, ScoreOrder)[y] => x = y
           /\ \A i \in 1..Cardinality(Fused) :
                 \E x \in Fused : Ranked(Fused, ScoreOrder)[x] = i
           /\ Cardinality(Fused) \in Nat /\ PageLen \in Nat
           /\ PageLen <= Cardinality(Fused) /\ PageLen <= request.top_k
           /\ request.top_k \in Nat
           /\ PageLen < request.top_k => PageLen = Cardinality(Fused)
<1>1. IsFiniteSet(Fused) /\ Cardinality(Fused) \in Nat
  BY ColumnFacts
<1>2. StrictTotal(Fused, ScoreOrder)
  BY ScoreOrderTotal
<1>3. \A x, y \in Fused : Before(x, y) <=> <<x, y>> \in ScoreOrder
  BY DEF ScoreOrder
<1>4. request.top_k \in Nat
  BY SearchFacts DEF RInv
<1>5. /\ PageLen \in Nat /\ PageLen <= Cardinality(Fused) /\ PageLen <= request.top_k
      /\ PageLen < request.top_k => PageLen = Cardinality(Fused)
  BY <1>1, <1>4 DEF PageLen
<1>6. /\ \A x \in Fused : Ranked(Fused, ScoreOrder)[x] \in 1..Cardinality(Fused)
      /\ \A x, y \in Fused : <<x, y>> \in ScoreOrder
            <=> Ranked(Fused, ScoreOrder)[x] < Ranked(Fused, ScoreOrder)[y]
      /\ \A x, y \in Fused :
            Ranked(Fused, ScoreOrder)[x] = Ranked(Fused, ScoreOrder)[y] => x = y
      /\ \A i \in 1..Cardinality(Fused) :
            \E x \in Fused : Ranked(Fused, ScoreOrder)[x] = i
  BY <1>1, <1>2, RankedFacts
<1> QED BY <1>1, <1>3, <1>4, <1>5, <1>6

LEMMA FuseKeeps == ASSUME RInv, Fuse PROVE RInv'
<1> DEFINE place == Ranked(Fused, ScoreOrder)
<1>1. /\ pc = "fuse" /\ pc' = "done" /\ search' = search /\ reached' = reached
      /\ fts' = fts /\ vec' = vec
      /\ page' = [i \in 1..PageLen |-> CHOOSE x \in Fused : place[x] = i]
  BY ScoreRowNumber DEF Fuse, PageLen
<1> HIDE DEF place
<1>2. PageLen \in Nat /\ \A i \in 1..PageLen : \E x \in Fused : place[x] = i
  BY <1>1, FusedRanks DEF place
<1>3. /\ page' \in [1..PageLen -> Fused]
      /\ \A i \in 1..PageLen : place[page'[i]] = i
  BY <1>1, <1>2
<1>4. Fused' = Fused /\ ScoreOrder' = ScoreOrder /\ PageLen' = PageLen
  BY <1>1, SameFused
<1>5. PageRows'
  BY <1>1, <1>3, <1>4 DEF PageRows, place
<1>6. TextColumn'
  BY <1>1, SameSearch DEF RInv, TextColumn
<1>7. VectorColumn'
  <2>1. VectorColumn /\ search \in Searches
    BY DEF RInv
  <2>2. CASE VectorRuns
    <3>1. PICK cut \in SUBSET reached :
                 IsVectorCut(cut, reached) /\ vec = Ranked(cut, NearOrder)
      BY <1>1, <2>1, <2>2 DEF VectorColumn
    <3>2. IsVectorCut(cut, reached)'
      BY <1>1, <3>1 DEF IsVectorCut, N, corpus, request, settings
    <3> QED BY <1>1, <2>1, <2>2, <3>1, <3>2, SameSearch DEF VectorColumn
  <2>3. CASE ~VectorRuns
    BY <1>1, <2>1, <2>3, SameSearch DEF VectorColumn
  <2> QED BY <2>2, <2>3
<1> QED BY <1>1, <1>5, <1>6, <1>7 DEF RInv

LEMMA RankStutters == ASSUME RInv, UNCHANGED vars PROVE RInv'
<1>1. /\ search' = search /\ reached' = reached /\ fts' = fts /\ vec' = vec
      /\ page' = page /\ pc' = pc
  BY DEF vars
<1>2. TextColumn'
  BY <1>1, SameSearch DEF RInv, TextColumn
<1>3. VectorColumn'
  <2>1. VectorColumn
    BY DEF RInv
  <2>2. \A cut : IsVectorCut(cut, reached)' <=> IsVectorCut(cut, reached)
    BY <1>1 DEF IsVectorCut, N, corpus, request, settings
  <2> QED BY <1>1, <2>1, <2>2, SameSearch DEF VectorColumn
<1>4. PageRows'
  BY <1>1, SameFused DEF RInv, PageRows
<1> QED BY <1>1, <1>2, <1>3, <1>4, SameSearch DEF RInv

LEMMA RankStep == RInv /\ [Next]_vars => RInv'
BY RankTextKeeps, RankVectorKeeps, FuseKeeps, RankStutters DEF Next

LEMMA RankInvariant == Spec => []RInv
BY RankInit, RankStep, PTL DEF Spec

-----------------------------------------------------------------------------
(* The page. *)

LEMMA PageFacts ==
    ASSUME RInv
    PROVE  /\ Shown \subseteq Ids
           /\ Cardinality(Shown) = Len(page)
           /\ pc # "done" => page = <<>> /\ Shown = {}
           /\ pc = "done" =>
                 /\ DOMAIN page = 1..PageLen /\ Len(page) = PageLen
                 /\ \A i \in 1..PageLen :
                       page[i] \in Fused /\ Ranked(Fused, ScoreOrder)[page[i]] = i
                 /\ \A x \in Fused :
                       Ranked(Fused, ScoreOrder)[x] <= PageLen
                          => page[Ranked(Fused, ScoreOrder)[x]] = x
                 /\ Shown = {x \in Fused : Ranked(Fused, ScoreOrder)[x] <= PageLen}
<1>1. CASE pc # "done"
  <2>1. page = <<>>
    BY <1>1 DEF RInv, PageRows
  <2>2. Shown = {} /\ Len(page) = 0
    BY <2>1 DEF Shown
  <2> QED BY <1>1, <2>1, <2>2, FS_EmptySet
<1>2. CASE pc = "done"
  <2> DEFINE place == Ranked(Fused, ScoreOrder)
  <2>1. /\ page \in [1..PageLen -> Fused]
        /\ \A i \in 1..PageLen : place[page[i]] = i
    BY <1>2 DEF RInv, PageRows
  <2>2. /\ PageLen \in Nat /\ \A x \in Fused : place[x] \in 1..Cardinality(Fused)
        /\ \A x, y \in Fused : place[x] = place[y] => x = y
        /\ Cardinality(Fused) \in Nat
    BY <1>2, FusedRanks
  <2> HIDE DEF place
  <2>3. DOMAIN page = 1..PageLen /\ Len(page) = PageLen
    <3>1. page \in Seq(Fused) /\ DOMAIN page = 1..PageLen
      BY <2>1, <2>2
    <3>2. DOMAIN page = 1..Len(page) /\ Len(page) \in Nat
      BY <3>1
    <3> QED BY <2>2, <3>1, <3>2
  <2>4. ASSUME NEW x \in Fused, place[x] <= PageLen
        PROVE  place[x] \in 1..PageLen /\ page[place[x]] = x
    <3>1. place[x] \in 1..PageLen
      BY <2>2, <2>4
    <3>2. page[place[x]] \in Fused /\ place[page[place[x]]] = place[x]
      BY <2>1, <3>1
    <3> QED BY <2>2, <3>1, <3>2
  <2>5. Shown = {x \in Fused : place[x] <= PageLen}
    <3>1. \A i \in 1..PageLen : page[i] \in Fused /\ place[page[i]] <= PageLen
      BY <2>1, <2>2
    <3> QED BY <2>3, <2>4, <3>1 DEF Shown
  <2>6. Shown \subseteq Ids
    BY <1>2, <2>5, ColumnFacts
  <2>7. Cardinality(Shown) = PageLen
    <3>1. page \in [1..PageLen -> Shown]
      BY <2>1, <2>3 DEF Shown
    <3>2. \A i, j \in 1..PageLen : page[i] = page[j] => i = j
      BY <2>1
    <3>3. \A x \in Shown : \E i \in 1..PageLen : page[i] = x
      BY <2>3 DEF Shown
    <3>4. page \in Bijection(1..PageLen, Shown)
      BY <3>1, <3>2, <3>3, Fun_IsInj, Fun_IsSurj DEF Bijection
    <3>5. ExistsBijection(1..PageLen, Shown)
      BY <3>4 DEF ExistsBijection
    <3> QED BY <2>2, <3>5, FS_CountingElements
  <2> QED BY <1>2, <2>1, <2>3, <2>4, <2>5, <2>6, <2>7 DEF place
<1> QED BY <1>1, <1>2

(* Every candidate has one rank in its arm, without gap or tie, and the    *)
(* page shows no passage twice, for every corpus and every search.         *)
THEOREM RankTypes == Spec => []TypeOK
<1>1. RInv => TypeOK
  <2> SUFFICES ASSUME RInv PROVE TypeOK
    OBVIOUS
  <2>1. search \in Searches /\ TextColumn /\ VectorColumn
    BY DEF RInv
  <2>2. /\ DOMAIN <<>> \subseteq Ids
        /\ {<<>>[x] : x \in DOMAIN <<>>} = 1..Cardinality(DOMAIN <<>>)
    <3>1. DOMAIN <<>> = {}
      OBVIOUS
    <3> QED BY <3>1, FS_EmptySet
  <2>3. /\ DOMAIN fts \subseteq Ids
        /\ {fts[x] : x \in DOMAIN fts} = 1..Cardinality(DOMAIN fts)
    <3>1. CASE fts = <<>>
      BY <2>2, <3>1
    <3>2. CASE fts = Ranked(TextCandidates, TextOrder)
      BY <2>1, <3>2, MatchingFacts, RankedFacts
    <3> QED BY <2>1, <3>1, <3>2 DEF TextColumn
  <2>4. /\ DOMAIN vec \subseteq Ids
        /\ {vec[x] : x \in DOMAIN vec} = 1..Cardinality(DOMAIN vec)
    <3>1. CASE vec = <<>>
      BY <2>2, <3>1
    <3>2. CASE vec # <<>>
      <4>1. PICK cut \in SUBSET reached : vec = Ranked(cut, NearOrder)
        BY <2>1, <3>2 DEF VectorColumn
      <4>2. cut \in SUBSET NearbyIds
        BY <2>1 DEF VectorColumn
      <4> QED BY <2>1, <4>1, <4>2, NearbyFacts, RankedFacts
    <3> QED BY <3>1, <3>2
  <2> QED BY <2>3, <2>4, PageFacts DEF TypeOK
<1> QED BY <1>1, RankInvariant, PTL

(* No search shows a passage of another client or scope, whichever arm     *)
(* found it, nor one that neither matches nor can be compared.             *)
THEOREM ShowsOwnPassages == Spec => []OwnPassagesOnly
<1>1. RInv => OwnPassagesOnly
  <2> SUFFICES ASSUME RInv, NEW x \in Shown
               PROVE  /\ corpus[x].client = request.client
                      /\ request.repo_filter # "" => corpus[x].scope = request.repo_filter
                      /\ corpus[x].text = 0 =>
                            ~corpus[x].degenerate /\ corpus[x].distance # NaN
    BY DEF OwnPassagesOnly
  <2>1. pc = "done" /\ x \in Fused
    BY PageFacts
  <2>2. x \in DOMAIN fts => Matching(x)
    BY <2>1, ColumnFacts DEF MatchingIds
  <2>3. x \in DOMAIN vec => Nearby(x)
    BY <2>1, ColumnFacts DEF NearbyIds
  <2>4. x \in DOMAIN fts \/ x \in DOMAIN vec
    BY <2>1, ColumnFacts
  <2>5. x \in DOMAIN fts => corpus[x].text # 0
    BY <2>2 DEF Matching
  <2> QED BY <2>2, <2>3, <2>4, <2>5 DEF Matching, Nearby, Visible, InScope
<1> QED BY <1>1, RankInvariant, PTL

LEMMA CutFacts ==
    ASSUME RInv, pc \in {"fuse", "done"}, VectorRuns
    PROVE  /\ DOMAIN vec \subseteq reached /\ reached \subseteq NearbyIds
           /\ IsFiniteSet(reached) /\ Cardinality(reached) \in Nat
           /\ Cardinality(DOMAIN vec)
                 = IF Cardinality(reached) < N THEN Cardinality(reached) ELSE N
           /\ Cardinality(reached) <= N => DOMAIN vec = reached
           /\ \A x \in DOMAIN vec, y \in reached \ DOMAIN vec :
                 corpus[x].distance <= corpus[y].distance
<1>1. search \in Searches /\ reached \subseteq NearbyIds
  BY DEF RInv, VectorColumn
<1>2. PICK cut \in SUBSET reached :
             IsVectorCut(cut, reached) /\ vec = Ranked(cut, NearOrder)
  BY DEF RInv, VectorColumn
<1>3. DOMAIN vec = cut
  BY <1>2 DEF Ranked
<1>4. IsFiniteSet(reached) /\ Cardinality(reached) \in Nat
  BY <1>1, NearbyFacts, FS_CardinalityType
<1>5. N \in Nat
  BY <1>1, SearchFacts
<1>6. Cardinality(cut) = IF Cardinality(reached) < N THEN Cardinality(reached) ELSE N
  BY <1>2 DEF IsVectorCut
<1>7. Cardinality(reached) <= N => cut = reached
  BY <1>4, <1>5, <1>6, FS_Subset
<1> QED BY <1>1, <1>2, <1>3, <1>4, <1>6, <1>7 DEF IsVectorCut

LEMMA CandidatesFacts ==
    ASSUME search \in Searches
    PROVE  /\ Cardinality(MatchingIds) \in Nat
           /\ Cardinality(TextCandidates)
                 = IF Cardinality(MatchingIds) < N THEN Cardinality(MatchingIds) ELSE N
           /\ Cardinality(MatchingIds) <= N => TextCandidates = MatchingIds
BY MatchingFacts, SearchFacts, CandidatesAreBest, Limiting

(* With a vector and an index scan that misses nothing the page has top_k  *)
(* passages, or as many as there are to show: neither the cut of an arm    *)
(* nor the overlap of the two leaves a gap.                                *)
THEOREM PageFills == Spec => []FillsToTopK
<1>1. RInv => FillsToTopK
  <2> DEFINE there == {x \in Ids : Nearby(x) \/ (TextRuns /\ Matching(x))}
             k == request.top_k
  <2> SUFFICES ASSUME RInv, pc = "done", VectorRuns, reached = {x \in Ids : Nearby(x)}
               PROVE  Len(page) = IF Cardinality(there) < k THEN Cardinality(there) ELSE k
    BY DEF FillsToTopK
  <2>1. search \in Searches /\ reached = NearbyIds
    BY DEF RInv, NearbyIds
  <2>2. k \in Nat /\ N \in Nat /\ k <= N
    BY <2>1, SearchFacts
  <2>3. there = NearbyIds \cup (IF TextRuns THEN MatchingIds ELSE {})
    BY DEF NearbyIds, MatchingIds
  <2>4. IsFiniteSet(there) /\ Cardinality(there) \in Nat
    <3>1. there \in SUBSET Ids
      OBVIOUS
    <3> QED BY <3>1, IdsFacts
  <2> HIDE DEF there, k
  <2>5. /\ Fused = DOMAIN fts \cup DOMAIN vec
        /\ DOMAIN fts = IF TextRuns THEN TextCandidates ELSE {}
        /\ IsFiniteSet(Fused) /\ Cardinality(Fused) \in Nat
    BY ColumnFacts
  <2>6. Len(page) = IF Cardinality(Fused) < k THEN Cardinality(Fused) ELSE k
    BY PageFacts DEF PageLen, k
  <2>7. /\ DOMAIN vec \subseteq NearbyIds /\ Cardinality(NearbyIds) \in Nat
        /\ Cardinality(DOMAIN vec)
              = IF Cardinality(NearbyIds) < N THEN Cardinality(NearbyIds) ELSE N
        /\ Cardinality(NearbyIds) <= N => DOMAIN vec = NearbyIds
    BY <2>1, CutFacts
  <2>8. /\ TextCandidates \subseteq MatchingIds /\ Cardinality(MatchingIds) \in Nat
        /\ Cardinality(TextCandidates)
              = IF Cardinality(MatchingIds) < N THEN Cardinality(MatchingIds) ELSE N
        /\ Cardinality(MatchingIds) <= N => TextCandidates = MatchingIds
    BY <2>1, CandidatesFacts, MatchingFacts
  <2>9. Fused \subseteq there
    BY <2>3, <2>5, <2>7, <2>8
  <2>10. Cardinality(Fused) <= Cardinality(there)
    BY <2>4, <2>9, FS_Subset
  <2>11. CASE Cardinality(NearbyIds) > N
    <3>1. DOMAIN vec \in SUBSET Fused /\ Cardinality(DOMAIN vec) = N
      BY <2>2, <2>5, <2>7, <2>11
    <3>2. N <= Cardinality(Fused)
      BY <2>5, <3>1, FS_Subset
    <3> QED BY <2>2, <2>4, <2>5, <2>6, <2>10, <3>2
  <2>12. CASE TextRuns /\ Cardinality(MatchingIds) > N
    <3>1. TextCandidates \in SUBSET Fused /\ Cardinality(TextCandidates) = N
      BY <2>2, <2>5, <2>8, <2>12
    <3>2. N <= Cardinality(Fused)
      BY <2>5, <3>1, FS_Subset
    <3> QED BY <2>2, <2>4, <2>5, <2>6, <2>10, <3>2
  <2>13. CASE /\ Cardinality(NearbyIds) <= N
              /\ TextRuns => Cardinality(MatchingIds) <= N
    <3>1. Fused = there
      BY <2>3, <2>5, <2>7, <2>8, <2>13
    <3> QED BY <2>6, <3>1
  <2>14. /\ Cardinality(NearbyIds) > N \/ Cardinality(NearbyIds) <= N
         /\ Cardinality(MatchingIds) > N \/ Cardinality(MatchingIds) <= N
    BY <2>2, <2>7, <2>8
  <2> QED BY <2>11, <2>12, <2>13, <2>14 DEF there, k
<1> QED BY <1>1, RankInvariant, PTL

(* A share of a score falls with the rank. *)
LEMMA ShareFalls ==
    ASSUME NEW w \in Nat, w > 0, NEW k \in Nat, NEW a \in Nat, NEW b \in Nat
    PROVE  /\ w * (k + b) > w * (k + a) <=> a < b
           /\ w * (k + b) = w * (k + a) <=> a = b
  OBVIOUS

(* Where one arm alone runs, the fused order is its own. *)
LEMMA TextArmAlone ==
    ASSUME RInv, pc \in {"fuse", "done"}, ~VectorRuns
    PROVE  /\ Fused = TextCandidates
           /\ \A x, y \in Fused : Before(x, y) <=> BetterText(x, y)
<1>1. /\ FtsWeight \in Nat /\ FtsWeight > 0 /\ settings.rrf_k \in Nat
      /\ TextRuns
  BY SearchFacts DEF RInv
<1>2. /\ DOMAIN fts = TextCandidates /\ DOMAIN vec = {} /\ Fused = DOMAIN fts
      /\ \A x \in Fused : fts[x] \in Nat /\ x \in Nat
      /\ \A x, y \in Fused : BetterText(x, y) <=> fts[x] < fts[y]
  BY <1>1, ColumnFacts, IdsFacts
<1>3. ASSUME NEW x \in Fused
      PROVE  Score(x).num = FtsWeight /\ Score(x).den = settings.rrf_k + fts[x]
  <2>1. /\ Term(FtsWeight, fts, x).num = FtsWeight
        /\ Term(FtsWeight, fts, x).den = settings.rrf_k + fts[x]
        /\ Term(settings.vector_weight, vec, x).num = 0
        /\ Term(settings.vector_weight, vec, x).den = 1
    BY <1>2 DEF Term
  <2>2. settings.rrf_k + fts[x] \in Nat
    BY <1>1, <1>2
  <2> QED BY <1>1, <2>1, <2>2 DEF Score
<1>4. ASSUME NEW x \in Fused, NEW y \in Fused
      PROVE  Before(x, y) <=> BetterText(x, y)
  <2>1. Before(x, y) <=>
           \/ FtsWeight * (settings.rrf_k + fts[y]) > FtsWeight * (settings.rrf_k + fts[x])
           \/ /\ FtsWeight * (settings.rrf_k + fts[y]) = FtsWeight * (settings.rrf_k + fts[x])
              /\ x < y
    BY <1>3 DEF Before
  <2>2. Before(x, y) <=> fts[x] < fts[y] \/ (fts[x] = fts[y] /\ x < y)
    BY <1>1, <1>2, <2>1, ShareFalls
  <2>3. \/ x = y \/ BetterText(x, y) \/ BetterText(y, x)
    <3>1. corpus[x].text \in Nat /\ corpus[y].text \in Nat /\ x \in Nat /\ y \in Nat
      BY <1>2, ColumnFacts, SearchFacts DEF RInv
    <3> QED BY <3>1 DEF BetterText
  <2> QED BY <1>2, <2>2, <2>3
<1> QED BY <1>2, <1>4

LEMMA VectorArmAlone ==
    ASSUME RInv, pc \in {"fuse", "done"}, VectorRuns, ~TextRuns
    PROVE  /\ Fused = DOMAIN vec
           /\ \A x, y \in Fused : Before(x, y) <=> Nearer(x, y)
<1> DEFINE w == settings.vector_weight
<1>1. w \in Nat /\ w > 0 /\ settings.rrf_k \in Nat
  BY SearchFacts DEF RInv, VectorRuns
<1>2. /\ DOMAIN fts = {} /\ Fused = DOMAIN vec
      /\ \A x \in Fused : vec[x] \in Nat /\ x \in Nat
      /\ \A x, y \in Fused : Nearer(x, y) <=> vec[x] < vec[y]
  BY ColumnFacts, IdsFacts
<1>3. ASSUME NEW x \in Fused
      PROVE  Score(x).num = w /\ Score(x).den = settings.rrf_k + vec[x]
  <2>1. /\ Term(FtsWeight, fts, x).num = 0
        /\ Term(FtsWeight, fts, x).den = 1
        /\ Term(w, vec, x).num = w
        /\ Term(w, vec, x).den = settings.rrf_k + vec[x]
    BY <1>2 DEF Term
  <2>2. settings.rrf_k + vec[x] \in Nat
    BY <1>1, <1>2
  <2> QED BY <1>1, <2>1, <2>2 DEF Score
<1>4. ASSUME NEW x \in Fused, NEW y \in Fused
      PROVE  Before(x, y) <=> Nearer(x, y)
  <2>1. Before(x, y) <=>
           \/ w * (settings.rrf_k + vec[y]) > w * (settings.rrf_k + vec[x])
           \/ /\ w * (settings.rrf_k + vec[y]) = w * (settings.rrf_k + vec[x])
              /\ x < y
    BY <1>3 DEF Before
  <2>2. Before(x, y) <=> vec[x] < vec[y] \/ (vec[x] = vec[y] /\ x < y)
    BY <1>1, <1>2, <2>1, ShareFalls
  <2>3. x = y \/ Nearer(x, y) \/ Nearer(y, x)
    <3>1. x \in Comparable /\ y \in Comparable
      BY <1>2, ColumnFacts DEF Comparable, NearbyIds, Nearby
    <3>2. corpus[x].distance \in Nat /\ corpus[y].distance \in Nat /\ x \in Nat /\ y \in Nat
      BY <1>2, <3>1, SearchFacts DEF RInv
    <3> QED BY <3>2 DEF Nearer
  <2> QED BY <1>2, <2>2, <2>3
<1> QED BY <1>2, <1>4

(* Without a vector a search is never refused and shows the best matches,  *)
(* all of them if the page has room, in their own order, whatever the      *)
(* weights; with the text arm off, the nearest in theirs.                  *)
THEOREM OneArmKeeps == Spec => []OneArmKeepsItsOrder
<1> DEFINE place == Ranked(Fused, ScoreOrder)
<1>1. ASSUME RInv, pc = "done"
      PROVE  /\ DOMAIN page = 1..PageLen /\ Len(page) = PageLen
             /\ \A i, j \in DOMAIN page : i < j => Before(page[i], page[j])
             /\ \A i \in DOMAIN page : page[i] \in Fused
             /\ Shown \subseteq Fused
             /\ \A x \in Fused \ Shown, y \in Shown : Before(y, x)
             /\ Len(page) < request.top_k => Shown = Fused /\ Cardinality(Fused) < request.top_k
  <2>1. /\ DOMAIN page = 1..PageLen /\ Len(page) = PageLen
        /\ \A i \in 1..PageLen : page[i] \in Fused /\ place[page[i]] = i
        /\ Shown = {x \in Fused : place[x] <= PageLen}
    BY <1>1, PageFacts
  <2>2. /\ \A x \in Fused : place[x] \in 1..Cardinality(Fused)
        /\ \A x, y \in Fused : Before(x, y) <=> place[x] < place[y]
        /\ Cardinality(Fused) \in Nat /\ PageLen \in Nat
        /\ PageLen < request.top_k => PageLen = Cardinality(Fused)
    BY <1>1, FusedRanks
  <2> HIDE DEF place
  <2>3. \A i, j \in DOMAIN page : i < j => Before(page[i], page[j])
    BY <2>1, <2>2
  <2>4. \A x \in Fused \ Shown, y \in Shown : Before(y, x)
    BY <2>1, <2>2
  <2>5. Len(page) < request.top_k => Shown = Fused /\ Cardinality(Fused) < request.top_k
    BY <2>1, <2>2
  <2> QED BY <2>1, <2>3, <2>4, <2>5
<1> HIDE DEF place
<1>2. ASSUME RInv, pc = "done", ~VectorRuns
      PROVE  /\ \A i, j \in DOMAIN page : i < j => BetterText(page[i], page[j])
             /\ Shown \subseteq MatchingIds
             /\ \A x \in Ids \ Shown, y \in Shown : Matching(x) => BetterText(y, x)
             /\ Len(page) < request.top_k => MatchingIds = Shown
  <2>1. search \in Searches
    BY <1>2 DEF RInv
  <2>2. Fused = TextCandidates /\ \A x, y \in Fused : Before(x, y) <=> BetterText(x, y)
    BY <1>2, TextArmAlone
  <2>3. \A i, j \in DOMAIN page : i < j => BetterText(page[i], page[j])
    BY <1>1, <1>2, <2>2
  <2>4. Shown \subseteq TextCandidates /\ Shown \subseteq MatchingIds
    BY <1>1, <1>2, <2>1, <2>2, MatchingFacts
  <2>5. ASSUME NEW x \in Ids \ Shown, NEW y \in Shown, Matching(x)
        PROVE  BetterText(y, x)
    <3>1. CASE x \in TextCandidates
      BY <1>1, <1>2, <2>2, <2>4, <2>5, <3>1
    <3>2. CASE x \notin TextCandidates
      <4>1. /\ x \in MatchingIds /\ ~(Cardinality(AheadOf(MatchingIds, TextOrder, x)) < N)
            /\ y \in MatchingIds /\ Cardinality(AheadOf(MatchingIds, TextOrder, y)) < N
        BY <2>4, <2>5, <3>2, CandidatesAreBest DEF MatchingIds
      <4>2. N \in Nat
        BY <2>1, SearchFacts
      <4>3. /\ Cardinality(AheadOf(MatchingIds, TextOrder, x)) \in Nat
            /\ Cardinality(AheadOf(MatchingIds, TextOrder, y)) \in Nat
            /\ <<y, x>> \in TextOrder
                  <=> Cardinality(AheadOf(MatchingIds, TextOrder, y))
                         < Cardinality(AheadOf(MatchingIds, TextOrder, x))
        BY <2>1, <4>1, MatchingFacts, MoreAhead
      <4>4. <<y, x>> \in TextOrder
        BY <4>1, <4>2, <4>3
      <4> QED BY <4>4 DEF TextOrder
    <3> QED BY <3>1, <3>2
  <2>6. request.top_k \in Nat /\ N \in Nat /\ N >= request.top_k
    BY <1>2, <2>1, FusedRanks, SearchFacts
  <2>7. Len(page) < request.top_k => MatchingIds = Shown
    <3> SUFFICES ASSUME Len(page) < request.top_k PROVE MatchingIds = Shown
      OBVIOUS
    <3>1. Shown = TextCandidates /\ Cardinality(TextCandidates) < request.top_k
      BY <1>1, <1>2, <2>2
    <3>3. Cardinality(MatchingIds) \in Nat /\ Cardinality(MatchingIds) <= N
      BY <2>1, <2>6, <3>1, CandidatesFacts
    <3> QED BY <2>1, <3>1, <3>3, CandidatesFacts
  <2> QED BY <2>3, <2>4, <2>5, <2>7
<1>3. ASSUME RInv, pc = "done", settings.fts_weight = 0, VectorRuns
      PROVE  \A i, j \in DOMAIN page : i < j => Nearer(page[i], page[j])
  <2>1. ~TextRuns
    BY <1>3, SearchFacts DEF RInv
  <2> QED BY <1>1, <1>3, <2>1, VectorArmAlone
<1>4. RInv => OneArmKeepsItsOrder
  <2>1. RInv => pc # "refused"
    BY DEF RInv
  <2> QED BY <1>2, <1>3, <2>1 DEF OneArmKeepsItsOrder, MatchingIds
<1> QED BY <1>4, RankInvariant, PTL

(* A better rank in one arm is a larger share of the score. *)
LEMMA TermLeads ==
    ASSUME settings.rrf_k \in Nat, NEW w \in Nat, NEW ranks, NEW x, NEW y,
           \A z \in DOMAIN ranks : ranks[z] \in Nat,
           y \in DOMAIN ranks => w > 0 /\ x \in DOMAIN ranks /\ ranks[x] < ranks[y]
    PROVE  /\ Term(w, ranks, x).num * Term(w, ranks, y).den
                 >= Term(w, ranks, y).num * Term(w, ranks, x).den
           /\ y \in DOMAIN ranks =>
                 Term(w, ranks, x).num * Term(w, ranks, y).den
                    > Term(w, ranks, y).num * Term(w, ranks, x).den
<1> DEFINE k == settings.rrf_k
<1>1. CASE y \in DOMAIN ranks
  <2>1. /\ Term(w, ranks, x).num = w /\ Term(w, ranks, x).den = k + ranks[x]
        /\ Term(w, ranks, y).num = w /\ Term(w, ranks, y).den = k + ranks[y]
    BY <1>1 DEF Term
  <2>2. ranks[x] \in Nat /\ ranks[y] \in Nat /\ ranks[x] < ranks[y] /\ w > 0
    BY <1>1
  <2> HIDE DEF k
  <2>3. k \in Nat
    BY DEF k
  <2>4. w * (k + ranks[y]) > w * (k + ranks[x])
    BY <2>2, <2>3, ShareFalls
  <2>5. w * (k + ranks[y]) \in Nat /\ w * (k + ranks[x]) \in Nat
    BY <2>2, <2>3, Product
  <2>6. /\ Term(w, ranks, x).num * Term(w, ranks, y).den
              > Term(w, ranks, y).num * Term(w, ranks, x).den
        /\ Term(w, ranks, x).num * Term(w, ranks, y).den
              >= Term(w, ranks, y).num * Term(w, ranks, x).den
    <3>1. /\ Term(w, ranks, x).num * Term(w, ranks, y).den = w * (k + ranks[y])
          /\ Term(w, ranks, y).num * Term(w, ranks, x).den = w * (k + ranks[x])
      BY <2>1
    <3> QED BY <2>4, <2>5, <3>1
  <2> QED BY <2>6
<1>2. CASE y \notin DOMAIN ranks
  <2>1. /\ Term(w, ranks, y).num = 0 /\ Term(w, ranks, y).den = 1
        /\ Term(w, ranks, x).num \in Nat /\ Term(w, ranks, x).den \in Nat
    BY <1>2 DEF Term
  <2> QED BY <1>2, <2>1
<1> QED BY <1>1, <1>2

(* A row of an arm has with it there whatever the arm favours to it, with  *)
(* a better rank.                                                          *)
LEMMA TextArmFavours ==
    ASSUME RInv, pc \in {"fuse", "done"}, NEW x \in Ids, NEW y \in DOMAIN fts,
           TextRuns => Matching(x) /\ TextFavours(x, y)
    PROVE  x \in DOMAIN fts /\ fts[x] < fts[y] /\ FtsWeight > 0
<1>1. search \in Searches
  BY DEF RInv
<1>2. /\ TextRuns /\ DOMAIN fts = TextCandidates /\ y \in MatchingIds
      /\ \A u, v \in DOMAIN fts : BetterText(u, v) <=> fts[u] < fts[v]
  BY ColumnFacts
<1>3. x \in MatchingIds /\ BetterText(x, y)
  BY <1>2 DEF TextFavours, MatchingIds, Matching
<1>4. /\ N \in Nat /\ Cardinality(AheadOf(MatchingIds, TextOrder, y)) < N
      /\ <<x, y>> \in TextOrder
  BY <1>1, <1>2, <1>3, SearchFacts, CandidatesAreBest DEF TextOrder, MatchingIds
<1>5. Cardinality(AheadOf(MatchingIds, TextOrder, x)) < N
  BY <1>1, <1>2, <1>3, <1>4, MatchingFacts, AheadIsBest
<1>6. x \in DOMAIN fts
  BY <1>2, <1>3, <1>5, CandidatesAreBest
<1> QED BY <1>2, <1>3, <1>6 DEF TextRuns

LEMMA VectorArmFavours ==
    ASSUME RInv, pc \in {"fuse", "done"}, NEW x \in Ids, NEW y \in DOMAIN vec,
           VectorRuns => Nearby(x) /\ VectorFavours(x, y)
    PROVE  x \in DOMAIN vec /\ vec[x] < vec[y] /\ settings.vector_weight > 0
<1>1. search \in Searches
  BY DEF RInv
<1>2. /\ VectorRuns /\ y \in NearbyIds
      /\ \A u, v \in DOMAIN vec : Nearer(u, v) <=> vec[u] < vec[v]
  BY ColumnFacts
<1>3. /\ Nearby(x) /\ x \in reached
      /\ \/ corpus[x].distance < corpus[y].distance
         \/ corpus[x].distance = corpus[y].distance /\ x < y /\ x \in DOMAIN vec
  BY <1>2 DEF VectorFavours, NearbyIds
<1>4. corpus[x].distance \in Nat /\ corpus[y].distance \in Nat
  <2>1. x \in Comparable /\ y \in Comparable
    BY <1>2, <1>3 DEF Comparable, NearbyIds, Nearby
  <2> QED BY <1>1, <2>1, SearchFacts
<1>5. x \in DOMAIN vec
  <2>1. \A u \in DOMAIN vec, v \in reached \ DOMAIN vec :
           corpus[u].distance <= corpus[v].distance
    BY <1>2, CutFacts
  <2> QED BY <1>3, <1>4, <2>1
<1>6. Nearer(x, y)
  BY <1>3 DEF Nearer
<1> QED BY <1>2, <1>5, <1>6 DEF VectorRuns

LEMMA FavouredLeads ==
    ASSUME RInv, pc \in {"fuse", "done"}, NEW x \in Ids, NEW y \in Fused,
           TextRuns => Matching(x) /\ TextFavours(x, y),
           VectorRuns => Nearby(x) /\ VectorFavours(x, y)
    PROVE  x \in Fused /\ Before(x, y)
<1> DEFINE a == Term(FtsWeight, fts, x).num  b == Term(FtsWeight, fts, x).den
           c == Term(FtsWeight, fts, y).num  d == Term(FtsWeight, fts, y).den
           e == Term(settings.vector_weight, vec, x).num
           f == Term(settings.vector_weight, vec, x).den
           g == Term(settings.vector_weight, vec, y).num
           h == Term(settings.vector_weight, vec, y).den
<1>1. y \in DOMAIN fts => x \in DOMAIN fts /\ fts[x] < fts[y] /\ FtsWeight > 0
  BY TextArmFavours
<1>2. y \in DOMAIN vec =>
         x \in DOMAIN vec /\ vec[x] < vec[y] /\ settings.vector_weight > 0
  BY VectorArmFavours
<1>3. /\ Fused = DOMAIN fts \cup DOMAIN vec
      /\ \A z \in DOMAIN fts : fts[z] \in Nat
      /\ \A z \in DOMAIN vec : vec[z] \in Nat
  BY ColumnFacts
<1>4. x \in Fused
  BY <1>1, <1>2, <1>3
<1>5. /\ settings.rrf_k \in Nat /\ FtsWeight \in Nat
      /\ settings.vector_weight \in Nat
  BY SearchFacts DEF RInv
<1>6. /\ a \in Nat /\ b \in Nat /\ c \in Nat /\ d \in Nat
      /\ e \in Nat /\ f \in Nat /\ g \in Nat /\ h \in Nat
      /\ b > 0 /\ d > 0 /\ f > 0 /\ h > 0
  <2>1. /\ a \in Nat /\ b \in Nat \ {0} /\ c \in Nat /\ d \in Nat \ {0}
        /\ e \in Nat /\ f \in Nat \ {0} /\ g \in Nat /\ h \in Nat \ {0}
    BY TermFacts
  <2> HIDE DEF a, b, c, d, e, f, g, h
  <2> QED BY <2>1
<1>7. a * d >= c * b /\ (y \in DOMAIN fts => a * d > c * b)
  BY <1>1, <1>3, <1>5, TermLeads
<1>8. e * h >= g * f /\ (y \in DOMAIN vec => e * h > g * f)
  BY <1>2, <1>3, <1>5, TermLeads
<1>9. /\ Score(x).num = a * f + e * b /\ Score(x).den = b * f
      /\ Score(y).num = c * h + g * d /\ Score(y).den = d * h
  BY DEF Score
<1> HIDE DEF a, b, c, d, e, f, g, h
<1>10. a * d > c * b \/ e * h > g * f
  BY <1>3, <1>7, <1>8
<1>11. (a * f + e * b) * (d * h) > (c * h + g * d) * (b * f)
  BY <1>6, <1>7, <1>8, <1>10, FractionsAdd
<1> QED BY <1>4, <1>9, <1>11 DEF Before

(* What both arms favour comes first: nothing is shown before a visible    *)
(* passage that matches no worse and lies no farther, and none is dropped  *)
(* at a cut that its inferior survives, for every weighting of the arms.   *)
THEOREM FavouredComesFirst == Spec => []FavouredFirst
<1>1. RInv => FavouredFirst
  <2> SUFFICES ASSUME RInv, pc = "done", NEW i \in DOMAIN page,
                      NEW x \in Ids \ {page[i]},
                      TextRuns => Matching(x) /\ TextFavours(x, page[i]),
                      VectorRuns => Nearby(x) /\ VectorFavours(x, page[i])
               PROVE  \E j \in 1..(i - 1) : page[j] = x
    BY DEF FavouredFirst
  <2> DEFINE place == Ranked(Fused, ScoreOrder)
  <2>1. /\ i \in 1..PageLen /\ page[i] \in Fused /\ place[page[i]] = i
        /\ \A z \in Fused : place[z] <= PageLen => page[place[z]] = z
    BY PageFacts
  <2>2. x \in Fused /\ Before(x, page[i])
    BY <2>1, FavouredLeads
  <2>3. /\ place[x] \in 1..Cardinality(Fused) /\ place[x] < i
        /\ Cardinality(Fused) \in Nat /\ PageLen \in Nat
    BY <2>1, <2>2, FusedRanks
  <2> HIDE DEF place
  <2>4. place[x] \in 1..(i - 1) /\ place[x] <= PageLen
    BY <2>1, <2>3
  <2> QED BY <2>1, <2>2, <2>4
<1> QED BY <1>1, RankInvariant, PTL
=============================================================================
