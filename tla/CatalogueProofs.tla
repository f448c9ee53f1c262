--------------------------- MODULE CatalogueProofs ---------------------------
(***************************************************************************)
(* What a visitor can rely on who turns the pages of the catalogue while   *)
(* the seed script writes it.  The argument is about places: the place of  *)
(* a tenant in the listing is one more than the number of tenants before   *)
(* it, every place is taken exactly once, and while tenants are added      *)
(* places only grow.                                                       *)
(***************************************************************************)
EXTENDS Catalogue, SeedProofs, SequenceTheorems
-----------------------------------------------------------------------------
(***************************************************************************)
(* Places in a finite strict order.                                        *)
(***************************************************************************)
\* A strict total order of a finite set gives its members the places 1 .. n, each
\* to one of them, and in the order.
LEMMA OrderPlaces ==
  ASSUME NEW M, IsFiniteSet(M), NEW R \in SUBSET (M \X M),
         \A s \in M : <<s, s>> \notin R,
         \A s, t, u \in M : <<s, t>> \in R /\ <<t, u>> \in R => <<s, u>> \in R,
         \A s, t \in M : s = t \/ <<s, t>> \in R \/ <<t, s>> \in R,
         NEW place, place = [t \in M |-> Cardinality({s \in M : <<s, t>> \in R}) + 1]
  PROVE  /\ place \in [M -> 1 .. Cardinality(M)]
         /\ \A s, t \in M : <<s, t>> \in R <=> place[s] < place[t]
         /\ \A s, t \in M : place[s] = place[t] => s = t
         /\ \A i \in 1 .. Cardinality(M) : \E t \in M : place[t] = i
<1> DEFINE pred(t) == {s \in M : <<s, t>> \in R}
<1>0. Cardinality(M) \in Nat
  BY FS_CardinalityType
<1>1. ASSUME NEW t \in M
      PROVE  IsFiniteSet(pred(t)) /\ Cardinality(pred(t)) \in Nat /\ place[t] = Cardinality(pred(t)) + 1
  <2>1. pred(t) \in SUBSET M
    OBVIOUS
  <2> HIDE DEF pred
  <2>2. IsFiniteSet(pred(t))
    BY <2>1, FS_Subset
  <2>3. place[t] = Cardinality(pred(t)) + 1
    BY DEF pred
  <2> QED
    BY <2>2, <2>3, FS_CardinalityType
<1>2. ASSUME NEW t \in M PROVE place[t] \in 1 .. Cardinality(M)
  <2>1. pred(t) \in SUBSET (M \ {t})
    OBVIOUS
  <2>2. IsFiniteSet(M \ {t}) /\ Cardinality(M \ {t}) = Cardinality(M) - 1
    BY FS_RemoveElement
  <2> HIDE DEF pred
  <2>3. Cardinality(pred(t)) <= Cardinality(M) - 1
    BY <2>1, <2>2, FS_Subset
  <2> QED
    BY <1>0, <1>1, <2>3
<1>3. ASSUME NEW s \in M, NEW t \in M, <<s, t>> \in R PROVE place[s] < place[t]
  <2>1. pred(s) \cup {s} \in SUBSET pred(t) /\ s \notin pred(s)
    BY <1>3
  <2> HIDE DEF pred
  <2>2. IsFiniteSet(pred(s) \cup {s}) /\ Cardinality(pred(s) \cup {s}) = Cardinality(pred(s)) + 1
    BY <1>1, <2>1, FS_AddElement
  <2>3. Cardinality(pred(s) \cup {s}) <= Cardinality(pred(t))
    BY <1>1, <2>1, FS_Subset
  <2> QED
    BY <1>1, <2>2, <2>3
<1> HIDE DEF pred
<1>4. place \in [M -> 1 .. Cardinality(M)]
  BY <1>2
<1>5. \A s, t \in M : place[s] \in Int /\ place[t] \in Int
  BY <1>2
<1>6. ASSUME NEW s \in M, NEW t \in M PROVE <<s, t>> \in R <=> place[s] < place[t]
  <2>1. <<s, t>> \in R => place[s] < place[t]
    BY <1>3
  <2>2. <<t, s>> \in R => place[t] < place[s]
    BY <1>3
  <2>3. s = t => place[s] = place[t]
    OBVIOUS
  <2>4. s = t \/ <<s, t>> \in R \/ <<t, s>> \in R
    OBVIOUS
  <2> QED
    BY <1>5, <2>1, <2>2, <2>3, <2>4
<1>7. \A s, t \in M : place[s] = place[t] => s = t
  BY <1>5, <1>6
<1>8. place \in Surjection(M, 1 .. Cardinality(M))
  <2>1. place \in Injection(M, 1 .. Cardinality(M))
    BY <1>4, <1>7 DEF Injection, IsInjective
  <2>2. IsFiniteSet(1 .. Cardinality(M)) /\ Cardinality(1 .. Cardinality(M)) = Cardinality(M)
    BY <1>0, FS_Interval
  <2> QED
    BY <2>1, <2>2, FS_Injection
<1> QED
  BY <1>4, <1>6, <1>7, <1>8 DEF Surjection
-----------------------------------------------------------------------------
(***************************************************************************)
(* The listing.                                                            *)
(***************************************************************************)
RowsTyped == nft \in [Tokens -> NftRow \cup {Null}]

\* A rank order compares two ranks, and two token ids where they do not decide
\* (collection.service.ts:146-150).
LEMMA RankBeforeIs ==
  ASSUME NEW s, NEW t, NEW ascending \in BOOLEAN
  PROVE  LET r == nft[s].rarityRank
             p == nft[t].rarityRank
         IN  RankBefore(s, t, ascending) <=>
                 IF r = p THEN s < t
                 ELSE p = Null \/ (r # Null /\ (ascending <=> r < p))
  BY DEF RankBefore

\* Each of the orders a visitor can ask for is a strict total order of the tenants
\* that are stored, also while only some of them are ranked
\* (collection.service.ts:142-155).
LEMMA BeforeOrder ==
  ASSUME RowsTyped, NEW sort, NEW s \in Stored, NEW t \in Stored, NEW u \in Stored
  PROVE  /\ ~Before(sort, s, s)
         /\ Before(sort, s, t) /\ Before(sort, t, u) => Before(sort, s, u)
         /\ s = t \/ Before(sort, s, t) \/ Before(sort, t, s)
<1>0. s \in Int /\ t \in Int /\ u \in Int /\ Null \notin Nat
  BY SeedAssumption DEF Stored, Tokens
<1>1. \A x \in Stored : nft[x].rarityRank = Null \/ nft[x].rarityRank \in Nat
  <2> SUFFICES ASSUME NEW x \in Stored PROVE nft[x].rarityRank = Null \/ nft[x].rarityRank \in Nat
    OBVIOUS
  <2>1. nft[x] \in NftRow
    BY DEF RowsTyped, Stored
  <2> QED
    BY <2>1, SeedAssumption DEF NftRow, Tokens
<1>2. ASSUME NEW ascending \in BOOLEAN
      PROVE  /\ ~RankBefore(s, s, ascending)
             /\ RankBefore(s, t, ascending) /\ RankBefore(t, u, ascending) => RankBefore(s, u, ascending)
             /\ s = t \/ RankBefore(s, t, ascending) \/ RankBefore(t, s, ascending)
  <2> DEFINE a == nft[s].rarityRank
             b == nft[t].rarityRank
             c == nft[u].rarityRank
             Less(x, y, r, p) == IF r = p THEN x < y ELSE p = Null \/ (r # Null /\ (ascending <=> r < p))
  <2>1. /\ RankBefore(s, s, ascending) <=> Less(s, s, a, a)
        /\ RankBefore(s, t, ascending) <=> Less(s, t, a, b)
        /\ RankBefore(t, u, ascending) <=> Less(t, u, b, c)
        /\ RankBefore(s, u, ascending) <=> Less(s, u, a, c)
        /\ RankBefore(t, s, ascending) <=> Less(t, s, b, a)
    BY RankBeforeIs
  <2>2. (a = Null \/ a \in Nat) /\ (b = Null \/ b \in Nat) /\ (c = Null \/ c \in Nat)
    BY <1>1
  <2> HIDE DEF a, b, c
  <2>3. ~Less(s, s, a, a)
    BY <1>0
  <2>4. Less(s, t, a, b) /\ Less(t, u, b, c) => Less(s, u, a, c)
    <3>1. CASE ascending = TRUE
      BY <1>0, <2>2, <3>1
    <3>2. CASE ascending = FALSE
      BY <1>0, <2>2, <3>2
    <3> QED
      BY <3>1, <3>2
  <2>5. s = t \/ Less(s, t, a, b) \/ Less(t, s, b, a)
    <3>1. CASE ascending = TRUE
      BY <1>0, <2>2, <3>1
    <3>2. CASE ascending = FALSE
      BY <1>0, <2>2, <3>2
    <3> QED
      BY <3>1, <3>2
  <2> HIDE DEF Less
  <2> QED
    BY <2>1, <2>3, <2>4, <2>5
<1>3. CASE sort \in {"rarity:asc", "rarity:desc"}
  BY <1>2, <1>3 DEF Before
<1>4. CASE sort = "tokenId:desc"
  BY <1>0, <1>4 DEF Before
<1>5. CASE sort \notin {"tokenId:desc", "rarity:asc", "rarity:desc"}
  <2>1. \A x, y : Before(sort, x, y) <=> x < y
    BY <1>5 DEF Before
  <2> QED
    BY <1>0, <2>1
<1> QED
  BY <1>3, <1>4, <1>5

PlaceOf(q, t) == Place(Matching(q), q.sort, t)

\* The tenants that match are some of the TOTAL stored ones.
LEMMA MatchingFinite ==
  ASSUME NEW q
  PROVE  /\ Matching(q) \subseteq Stored /\ Matching(q) \subseteq Tokens
         /\ IsFiniteSet(Matching(q)) /\ Total(q) \in 0 .. TOTAL
<1>1. Matching(q) \subseteq Stored /\ Matching(q) \in SUBSET Tokens
  BY DEF Matching, Stored
<1>2. IsFiniteSet(Tokens) /\ Cardinality(Tokens) = TOTAL
  BY SeedAssumption, FS_Interval DEF Tokens
<1>3. IsFiniteSet(Matching(q)) /\ Cardinality(Matching(q)) <= TOTAL
  BY <1>1, <1>2, FS_Subset
<1> QED
  BY <1>1, <1>3, FS_CardinalityType, SeedAssumption DEF Total

\* Every tenant that matches has a place of its own in the listing, and stands there.
LEMMA ListingPlaces ==
  ASSUME RowsTyped, NEW q
  PROVE  /\ \A t \in Matching(q) : PlaceOf(q, t) \in 1 .. Total(q)
         /\ \A s, t \in Matching(q) : Before(q.sort, s, t) <=> PlaceOf(q, s) < PlaceOf(q, t)
         /\ Listing(q) \in Seq(Matching(q)) /\ Len(Listing(q)) = Total(q)
         /\ \A i \in 1 .. Total(q) : Listing(q)[i] \in Matching(q) /\ PlaceOf(q, Listing(q)[i]) = i
         /\ \A t \in Matching(q) : Listing(q)[PlaceOf(q, t)] = t
<1> DEFINE M == Matching(q)
           R == {p \in M \X M : Before(q.sort, p[1], p[2])}
           place == [t \in M |-> Cardinality({s \in M : <<s, t>> \in R}) + 1]
<1>1. M \subseteq Stored /\ IsFiniteSet(M) /\ Total(q) \in Nat /\ Total(q) = Cardinality(M)
  BY MatchingFinite, SeedAssumption DEF Total
<1> HIDE DEF M
<1>2. \A s, t \in M : <<s, t>> \in R <=> Before(q.sort, s, t)
  OBVIOUS
<1>3. R \in SUBSET (M \X M)
  OBVIOUS
<1>4. /\ \A s \in M : <<s, s>> \notin R
      /\ \A s, t, u \in M : <<s, t>> \in R /\ <<t, u>> \in R => <<s, u>> \in R
      /\ \A s, t \in M : s = t \/ <<s, t>> \in R \/ <<t, s>> \in R
  <2> HIDE DEF R
  <2> QED
    BY <1>1, <1>2, BeforeOrder
<1>5. ASSUME NEW t \in M PROVE place[t] = PlaceOf(q, t)
  <2>1. {s \in M : <<s, t>> \in R} = {s \in M : Before(q.sort, s, t)}
    <3> HIDE DEF R
    <3> QED
      BY <1>2
  <2>2. PlaceOf(q, t) = Cardinality({s \in M : Before(q.sort, s, t)}) + 1
    BY DEF PlaceOf, Place, M
  <2> HIDE DEF R
  <2> QED
    BY <2>1, <2>2
<1> HIDE DEF R
<1>6. /\ place \in [M -> 1 .. Cardinality(M)]
      /\ \A s, t \in M : <<s, t>> \in R <=> place[s] < place[t]
      /\ \A s, t \in M : place[s] = place[t] => s = t
      /\ \A i \in 1 .. Cardinality(M) : \E t \in M : place[t] = i
  <2>1. \A pl : pl = place =>
            /\ pl \in [M -> 1 .. Cardinality(M)]
            /\ \A s, t \in M : <<s, t>> \in R <=> pl[s] < pl[t]
            /\ \A s, t \in M : pl[s] = pl[t] => s = t
            /\ \A i \in 1 .. Cardinality(M) : \E t \in M : pl[t] = i
    BY <1>1, <1>3, <1>4, OrderPlaces
  <2> QED
    BY <2>1
<1> HIDE DEF place
<1>7. \A t \in M : PlaceOf(q, t) \in 1 .. Total(q)
  BY <1>1, <1>5, <1>6
<1>8. ASSUME NEW s \in M, NEW t \in M
      PROVE  Before(q.sort, s, t) <=> PlaceOf(q, s) < PlaceOf(q, t)
  <2>1. <<s, t>> \in R <=> place[s] < place[t]
    BY <1>6
  <2>2. place[s] = PlaceOf(q, s) /\ place[t] = PlaceOf(q, t)
    BY <1>5
  <2> QED
    BY <1>2, <2>1, <2>2
<1>9. Listing(q) = [i \in 1 .. Cardinality(M) |-> CHOOSE t \in M : PlaceOf(q, t) = i]
  BY DEF Listing, PlaceOf, M
<1>10. ASSUME NEW i \in 1 .. Total(q)
       PROVE  Listing(q)[i] \in M /\ PlaceOf(q, Listing(q)[i]) = i
  <2>1. \E t \in M : PlaceOf(q, t) = i
    BY <1>1, <1>5, <1>6
  <2>2. Listing(q)[i] = CHOOSE t \in M : PlaceOf(q, t) = i
    BY <1>1, <1>9
  <2> QED
    BY <2>1, <2>2
<1>11. ASSUME NEW t \in M PROVE Listing(q)[PlaceOf(q, t)] = t
  <2>1. /\ Listing(q)[PlaceOf(q, t)] \in M
        /\ PlaceOf(q, Listing(q)[PlaceOf(q, t)]) = PlaceOf(q, t)
    BY <1>7, <1>10
  <2> QED
    BY <2>1, <1>5, <1>6
<1>12. Listing(q) \in Seq(M) /\ Len(Listing(q)) = Total(q)
  <2>1. Listing(q) \in [1 .. Total(q) -> M]
    BY <1>1, <1>9, <1>10
  <2> QED
    BY <1>1, <2>1
<1> QED
  BY <1>7, <1>8, <1>10, <1>11, <1>12 DEF M
-----------------------------------------------------------------------------
(***************************************************************************)
(* Pages.                                                                  *)
(***************************************************************************)
\* What is skipped before a page, page by page (pagination.dto.ts:25-27).
LEMMA SkipSteps ==
  ASSUME NEW limit \in Nat \ {0}, NEW n \in Nat \ {0}
  PROVE  /\ Skip(n, limit) \in Nat /\ Skip(1, limit) = 0
         /\ Skip(n + 1, limit) = Skip(n, limit) + limit
         /\ n * limit = Skip(n, limit) + limit
         /\ \A m \in Nat \ {0} : m < n => Skip(m, limit) + limit <= Skip(n, limit)
  BY DEF Skip

\* The smaller of two numbers.
LEMMA MinOfTwo ==
  ASSUME NEW a \in Int, NEW b \in Int
  PROVE  Min({a, b}) = IF a <= b THEN a ELSE b
<1>1. \E x \in {a, b} : \A y \in {a, b} : x <= y
  OBVIOUS
<1>2. Min({a, b}) \in {a, b} /\ \A y \in {a, b} : Min({a, b}) <= y
  BY <1>1 DEF Min
<1> QED
  BY <1>2

\* A page shows the tenants whose places come after what is skipped, up to the limit,
\* each at its place (collection.service.ts:19-23).
LEMMA PageFacts ==
  ASSUME RowsTyped, NEW q, q.limit \in Nat \ {0}, NEW n \in Nat \ {0}
  PROVE  LET skip == Skip(n, q.limit)
             rows == PageOf(q, n)
         IN  /\ rows \in Seq(Matching(q)) /\ rows \in Seq(Tokens)
             /\ \A i \in DOMAIN rows :
                    i \in 1 .. q.limit /\ rows[i] \in Matching(q) /\ PlaceOf(q, rows[i]) = skip + i
             /\ \A t \in Matching(q) :
                    skip < PlaceOf(q, t) /\ PlaceOf(q, t) <= skip + q.limit =>
                        PlaceOf(q, t) - skip \in DOMAIN rows /\ rows[PlaceOf(q, t) - skip] = t
             /\ rows # <<>> => skip + Len(rows) <= Total(q)
<1> DEFINE skip == Skip(n, q.limit)
           rows == PageOf(q, n)
           final == IF skip + q.limit <= Total(q) THEN skip + q.limit ELSE Total(q)
<1>1. skip \in Nat /\ Total(q) \in Nat /\ Matching(q) \subseteq Tokens
  <2>1. skip \in Nat
    BY SkipSteps
  <2>2. Total(q) \in Nat /\ Matching(q) \subseteq Tokens
    BY MatchingFinite, SeedAssumption
  <2> QED
    BY <2>1, <2>2
<1>2. Listing(q) \in Seq(Matching(q)) /\ Len(Listing(q)) = Total(q)
  BY ListingPlaces
<1> HIDE DEF skip
<1>3. rows = SubSeq(Listing(q), skip + 1, final)
  <2>1. Min({skip + q.limit, Len(Listing(q))}) = final
    BY <1>1, <1>2, MinOfTwo
  <2>2. rows = SubSeq(Listing(q), skip + 1, Min({skip + q.limit, Len(Listing(q))}))
    BY DEF PageOf, skip
  <2> QED
    BY <2>1, <2>2
<1> HIDE DEF rows
<1>4. final \in Nat /\ final <= Total(q) /\ final <= skip + q.limit
  BY <1>1
<1>5. /\ rows \in Seq(Matching(q))
      /\ Len(rows) = IF skip + 1 <= final THEN final - skip ELSE 0
      /\ \A i \in 1 .. final - skip : rows[i] = Listing(q)[skip + i]
  <2> HIDE DEF final
  <2>1. \A i \in skip + 1 .. final : Listing(q)[i] \in Matching(q)
    <3>1. \A i \in 1 .. Total(q) : Listing(q)[i] \in Matching(q)
      BY ListingPlaces
    <3> QED
      BY <1>1, <1>4, <3>1
  <2>2. /\ rows \in Seq(Matching(q))
        /\ Len(rows) = IF skip + 1 <= final THEN final - (skip + 1) + 1 ELSE 0
        /\ \A i \in 1 .. final - (skip + 1) + 1 : rows[i] = Listing(q)[(skip + 1) + i - 1]
    BY <1>1, <1>3, <1>4, <2>1, SubSeqProperties
  <2>3. final - (skip + 1) + 1 = final - skip
    BY <1>1, <1>4
  <2>4. ASSUME NEW i \in 1 .. final - skip PROVE rows[i] = Listing(q)[skip + i]
    <3>1. (skip + 1) + i - 1 = skip + i
      BY <1>1, <1>4
    <3> QED
      BY <2>2, <2>3, <3>1
  <2> QED
    BY <2>2, <2>3, <2>4
<1>6. DOMAIN rows = 1 .. Len(rows)
  BY <1>5
<1>7. ASSUME NEW i \in DOMAIN rows
      PROVE  i \in 1 .. q.limit /\ rows[i] \in Matching(q) /\ PlaceOf(q, rows[i]) = skip + i
  <2>1. i \in 1 .. final - skip
    BY <1>1, <1>4, <1>5, <1>6, <1>7
  <2> HIDE DEF final
  <2>2. i \in 1 .. q.limit /\ skip + i \in 1 .. Total(q)
    BY <1>1, <1>4, <2>1
  <2>3. rows[i] = Listing(q)[skip + i]
    BY <1>5, <2>1
  <2> QED
    BY <2>2, <2>3, ListingPlaces
<1>8. ASSUME NEW t \in Matching(q), skip < PlaceOf(q, t), PlaceOf(q, t) <= skip + q.limit
      PROVE  PlaceOf(q, t) - skip \in DOMAIN rows /\ rows[PlaceOf(q, t) - skip] = t
  <2>1. PlaceOf(q, t) \in 1 .. Total(q) /\ Listing(q)[PlaceOf(q, t)] = t
    BY ListingPlaces
  <2>2. PICK i \in Int : i = PlaceOf(q, t) - skip
    BY <1>1, <2>1
  <2>3. i \in 1 .. final - skip /\ skip + i = PlaceOf(q, t)
    <3>1. PICK place \in Int : place = PlaceOf(q, t)
      BY <1>1, <2>1
    <3>2. skip < place /\ place <= skip + q.limit /\ place <= Total(q) /\ i = place - skip
      BY <1>1, <1>8, <2>1, <2>2, <3>1
    <3>3. place <= final
      BY <3>2
    <3> HIDE DEF final
    <3>4. i \in 1 .. final - skip /\ skip + i = place
      BY <1>1, <1>4, <3>2, <3>3
    <3> QED
      BY <3>1, <3>4
  <2>4. 1 .. final - skip = DOMAIN rows
    BY <1>1, <1>4, <1>5, <1>6, <2>3
  <2>5. rows[i] = Listing(q)[skip + i]
    BY <1>5, <2>3
  <2>6. i \in DOMAIN rows /\ rows[i] = t
    BY <2>1, <2>3, <2>4, <2>5
  <2> QED
    BY <2>2, <2>6
<1>9. rows # <<>> => skip + Len(rows) <= Total(q)
  <2>1. rows # <<>> => Len(rows) # 0
    BY <1>5
  <2> QED
    BY <1>1, <1>4, <1>5, <2>1
<1>10. rows \in Seq(Tokens)
  BY <1>1, <1>5
<1> QED
  BY <1>5, <1>7, <1>8, <1>9, <1>10 DEF skip, rows

\* How many pages a listing has: as many as are needed to show it, and one when it
\* is empty (pagination.dto.ts:51-54).
LEMMA PagesNeeded ==
  ASSUME NEW limit \in Nat \ {0}, NEW count \in Nat
  PROVE  LET pages == TotalPages(limit, count)
         IN  /\ pages \in Nat \ {0}
             /\ count <= pages * limit
             /\ pages > 1 => Skip(pages, limit) < count
             /\ \A n \in Nat \ {0} : HasMore(n, limit, count) <=> n < pages
             /\ \A n \in Nat \ {0} : Skip(n, limit) < count => n <= pages
<1> DEFINE pages == TotalPages(limit, count)
<1>1. CASE count = 0
  <2>1. pages = 1 /\ Skip(1, limit) = 0
    BY <1>1 DEF TotalPages, Skip
  <2>2. \A n \in Nat \ {0} : n * limit \in Nat /\ Skip(n, limit) \in Nat
    BY DEF Skip
  <2> QED
    BY <1>1, <2>1, <2>2 DEF HasMore
<1>2. CASE count # 0
  <2>1. /\ pages \in Nat
        /\ pages * limit <= count + limit - 1
        /\ count + limit - 1 < (pages + 1) * limit
    BY <1>2 DEF TotalPages
  <2>2. (pages + 1) * limit = pages * limit + limit
    BY <2>1
  <2>3. count <= pages * limit /\ pages # 0
    BY <1>2, <2>1, <2>2
  <2> HIDE DEF pages
  <2>4. Skip(pages, limit) + limit = pages * limit
    BY <2>1, <2>3, SkipSteps
  <2>5. Skip(pages, limit) < count
    <3>1. pages * limit \in Nat /\ Skip(pages, limit) \in Nat
      BY <2>1, <2>3, SkipSteps
    <3> QED
      BY <2>1, <2>4, <3>1
  <2>6. ASSUME NEW n \in Nat \ {0} PROVE HasMore(n, limit, count) <=> n < pages
    <3>1. n * limit = Skip(n, limit) + limit /\ Skip(n, limit) \in Nat
      BY SkipSteps
    <3>2. CASE n < pages
      <4>1. Skip(n, limit) + limit <= Skip(pages, limit)
        BY <2>1, <2>3, <3>2, SkipSteps
      <4> QED
        BY <2>1, <2>4, <2>5, <3>1, <3>2, <4>1 DEF HasMore
    <3>3. CASE n = pages
      BY <2>3, <3>3 DEF HasMore
    <3>4. CASE n > pages
      <4>1. Skip(pages, limit) + limit <= Skip(n, limit)
        BY <2>1, <2>3, <3>4, SkipSteps
      <4> QED
        BY <2>1, <2>3, <2>4, <3>1, <3>4, <4>1 DEF HasMore
    <3> QED
      BY <2>1, <3>2, <3>3, <3>4
  <2>7. ASSUME NEW n \in Nat \ {0}, Skip(n, limit) < count PROVE n <= pages
    <3>1. CASE n > pages
      <4>1. Skip(pages, limit) + limit <= Skip(n, limit) /\ Skip(n, limit) \in Nat
        BY <2>1, <2>3, <3>1, SkipSteps
      <4> QED
        BY <2>1, <2>3, <2>4, <2>7, <4>1
    <3> QED
      BY <2>1, <3>1
  <2> QED
    BY <2>1, <2>3, <2>5, <2>6, <2>7 DEF pages
<1> QED
  BY <1>1, <1>2

\* A place in the listing lies on one page.
LEMMA PageOfPlace ==
  ASSUME NEW limit \in Nat \ {0}, NEW place \in Nat \ {0}
  PROVE  \E n \in Nat \ {0} : Skip(n, limit) < place /\ place <= Skip(n, limit) + limit
<1> DEFINE k == (place - 1) \div limit
<1>1. k \in Nat /\ k * limit <= place - 1 /\ place - 1 < (k + 1) * limit
  OBVIOUS
<1>2. (k + 1) * limit = k * limit + limit /\ k * limit \in Nat
  BY <1>1
<1>3. Skip(k + 1, limit) = k * limit /\ k + 1 \in Nat \ {0}
  BY <1>1 DEF Skip
<1> HIDE DEF k
<1> QED
  BY <1>1, <1>2, <1>3
-----------------------------------------------------------------------------
(***************************************************************************)
(* What is known of the tables.                                            *)
(***************************************************************************)
\* The catalogue adds readers to the seed script: they write nothing.
THEOREM CatalogueRunsSeed == CatalogueSpec => Spec
<1>1. CatalogueInit => Init
  BY DEF CatalogueInit
<1>2. [CatalogueNext]_allVars => [Next]_vars
  BY DEF CatalogueNext, allVars, Browse, FindMany, Count, Turn, Leave, vars
<1> QED
  BY <1>1, <1>2, PTL DEF CatalogueSpec, Spec

\* What SeedProofs shows of the tables holds beside the readers as well.
THEOREM TablesInvariant == CatalogueSpec => [](TypeOK /\ SeedInv /\ RepairInv)
  BY CatalogueRunsSeed, SeedTypeCorrect, SeedInvariant, RepairInvariant, PTL

\* Whatever the tables hold, the pages tile the listing, and hasMore and totalPages
\* agree with them (pagination.dto.ts:25-27, 41-56).
LEMMA PagesTileAlways == RepairInv => PagesTile
<1> SUFFICES ASSUME RepairInv, NEW q \in Queries
             PROVE  LET pages == TotalPages(q.limit, Total(q))
                        shown == {[number |-> n, rows |-> PageOf(q, n)] : n \in 1 .. pages}
                    IN  /\ UNION {Range(a.rows) : a \in shown} = Matching(q)
                        /\ \A a, b \in shown : \A i \in DOMAIN a.rows, j \in DOMAIN b.rows :
                               a.number < b.number \/ (a = b /\ i < j) =>
                                   Before(q.sort, a.rows[i], b.rows[j])
                        /\ \A n \in 1 .. pages + 1 : HasMore(n, q.limit, Total(q)) <=> n < pages
                        /\ pages > 1 => PageOf(q, pages) # <<>>
  BY DEF PagesTile
<1> DEFINE pages == TotalPages(q.limit, Total(q))
           shown == {[number |-> n, rows |-> PageOf(q, n)] : n \in 1 .. pages}
<1>0. RowsTyped /\ q.limit \in Nat \ {0} /\ Total(q) \in Nat
  <2>1. RowsTyped
    BY DEF RepairInv, RowsInv, RowsTyped
  <2>2. q.limit \in 1 .. 100
    BY QueryAssumption
  <2>3. Total(q) \in 0 .. TOTAL
    BY MatchingFinite
  <2> QED
    BY <2>1, <2>2, <2>3, SeedAssumption
<1> PICK limit \in Nat \ {0} : q.limit = limit
  BY <1>0
<1>1. /\ pages \in Nat \ {0}
      /\ pages > 1 => Skip(pages, limit) < Total(q)
      /\ \A n \in Nat \ {0} : HasMore(n, limit, Total(q)) <=> n < pages
      /\ \A n \in Nat \ {0} : Skip(n, limit) < Total(q) => n <= pages
  BY <1>0, PagesNeeded
<1> HIDE DEF pages
<1>2. \A t \in Matching(q) : PlaceOf(q, t) \in 1 .. Total(q)
  BY <1>0, ListingPlaces
<1>3. UNION {Range(a.rows) : a \in shown} = Matching(q)
  <2>1. ASSUME NEW a \in shown PROVE Range(a.rows) \subseteq Matching(q)
    <3>1. PICK n \in 1 .. pages : a.rows = PageOf(q, n)
      OBVIOUS
    <3>2. PageOf(q, n) \in Seq(Matching(q))
      BY <1>0, <1>1, PageFacts
    <3> QED
      BY <3>1, <3>2, RangeOfSeq
  <2>2. ASSUME NEW t \in Matching(q) PROVE \E a \in shown : t \in Range(a.rows)
    <3>0. PlaceOf(q, t) \in Nat \ {0} /\ PlaceOf(q, t) <= Total(q)
      BY <1>0, <1>2
    <3>1. PICK n \in Nat \ {0} : /\ Skip(n, limit) < PlaceOf(q, t)
                                 /\ PlaceOf(q, t) <= Skip(n, limit) + limit
      BY <3>0, PageOfPlace
    <3>2. n \in 1 .. pages
      <4>1. Skip(n, limit) \in Nat
        BY SkipSteps
      <4>2. Skip(n, limit) < Total(q)
        BY <1>0, <3>0, <3>1, <4>1
      <4> QED
        BY <1>1, <4>2
    <3>3. t \in Range(PageOf(q, n))
      <4>1. LET i == PlaceOf(q, t) - Skip(n, limit)
            IN  i \in DOMAIN PageOf(q, n) /\ PageOf(q, n)[i] = t
        BY <1>0, <3>1, PageFacts
      <4> QED
        BY <4>1 DEF Range
    <3>4. [number |-> n, rows |-> PageOf(q, n)] \in shown
      BY <3>2
    <3> QED
      BY <3>3, <3>4
  <2> HIDE DEF shown
  <2> QED
    BY <2>1, <2>2
<1>4. ASSUME NEW a \in shown, NEW b \in shown, NEW i \in DOMAIN a.rows, NEW j \in DOMAIN b.rows,
             a.number < b.number \/ (a = b /\ i < j)
      PROVE  Before(q.sort, a.rows[i], b.rows[j])
  <2>1. PICK m \in 1 .. pages : a = [number |-> m, rows |-> PageOf(q, m)]
    OBVIOUS
  <2>2. PICK n \in 1 .. pages : b = [number |-> n, rows |-> PageOf(q, n)]
    OBVIOUS
  <2>0. m \in Nat \ {0} /\ n \in Nat \ {0}
    BY <1>1
  <2>3. /\ i \in 1 .. limit /\ a.rows[i] \in Matching(q)
        /\ PlaceOf(q, a.rows[i]) = Skip(m, limit) + i
    BY <1>0, <1>1, <2>1, PageFacts
  <2>4. /\ j \in 1 .. limit /\ b.rows[j] \in Matching(q)
        /\ PlaceOf(q, b.rows[j]) = Skip(n, limit) + j
    BY <1>0, <1>1, <2>2, PageFacts
  <2>5. Skip(m, limit) \in Nat /\ Skip(n, limit) \in Nat
    BY <2>0, SkipSteps
  <2>6. PlaceOf(q, a.rows[i]) < PlaceOf(q, b.rows[j])
    <3>1. CASE m < n
      <4>1. Skip(m, limit) + limit <= Skip(n, limit)
        BY <2>0, <3>1, SkipSteps
      <4> QED
        BY <1>0, <2>3, <2>4, <2>5, <4>1
    <3>2. CASE m = n /\ i < j
      BY <2>3, <2>4, <2>5, <3>2
    <3> QED
      BY <1>4, <2>1, <2>2, <3>1, <3>2
  <2> QED
    BY <1>0, <2>3, <2>4, <2>6, ListingPlaces
<1>5. pages > 1 => PageOf(q, pages) # <<>>
  <2> SUFFICES ASSUME pages > 1 PROVE PageOf(q, pages) # <<>>
    OBVIOUS
  <2> DEFINE skip == Skip(pages, limit)
             t == Listing(q)[skip + 1]
  <2>1. skip \in Nat /\ skip + 1 \in 1 .. Total(q)
    <3>1. skip \in Nat
      BY <1>1, SkipSteps
    <3> QED
      BY <1>0, <1>1, <3>1
  <2>2. t \in Matching(q) /\ PlaceOf(q, t) = skip + 1
    BY <1>0, <2>1, ListingPlaces
  <2>3. PlaceOf(q, t) - skip \in DOMAIN PageOf(q, pages)
    <3>1. skip < PlaceOf(q, t) /\ PlaceOf(q, t) <= skip + limit
      BY <1>0, <2>1, <2>2
    <3> HIDE DEF t
    <3> QED
      BY <1>0, <1>1, <2>2, <3>1, PageFacts
  <2> QED
    BY <2>3
<1> QED
  BY <1>1, <1>3, <1>4, <1>5 DEF pages

\* The pages tile the listing in every reachable state.
THEOREM Tiled == CatalogueSpec => []PagesTile
  BY PagesTileAlways, TablesInvariant, PTL

\* The number beside a trait never understates what its filter finds: the count is
\* stored before the first link, and nothing else is ever linked (seed.ts:85-106,
\* collection.service.ts:85-89).
LEMMA CountCoversLinks == RepairInv => FilterNeverUnderstates
<1> SUFFICES ASSUME RepairInv, NEW q \in Queries, q.trait # Null
             PROVE  Total(q) <= IF trait[q.trait] = Null THEN 0 ELSE trait[q.trait]
  BY DEF FilterNeverUnderstates
<1> DEFINE t == q.trait
           having == {token \in Tokens : t \in AttributesOf[token]}
<1>0. t \in Traits
  BY QueryAssumption
<1> HIDE DEF t
<1>1. Matching(q) \subseteq LinkedTo(t)
  BY DEF Matching, t
<1>2. CASE trait[t] = Null
  <2>1. LinkedTo(t) = {}
    BY <1>2 DEF LinkedTo, RepairInv, RowsInv
  <2>2. Total(q) = 0
    BY <1>1, <2>1, FS_EmptySet DEF Total
  <2> QED
    BY <1>2, <2>2 DEF t
<1>3. CASE trait[t] # Null
  <2>1. trait[t] = Cardinality(having)
    BY <1>0, <1>3 DEF RepairInv, RowsInv, CountOf
  <2>2. LinkedTo(t) \subseteq having
    <3> SUFFICES ASSUME NEW token \in Tokens, <<token, t>> \in nftTrait PROVE t \in AttributesOf[token]
      BY DEF LinkedTo
    <3>1. <<token, t>> \in TrueLinks
      BY DEF RepairInv, RowsInv
    <3> QED
      BY <3>1 DEF TrueLinks
  <2>3. IsFiniteSet(having)
    <3>1. IsFiniteSet(Tokens) /\ having \in SUBSET Tokens
      BY SeedAssumption, FS_Interval DEF Tokens
    <3> QED
      BY <3>1, FS_Subset
  <2> HIDE DEF having
  <2>4. Cardinality(Matching(q)) <= Cardinality(having)
    BY <1>1, <2>2, <2>3, FS_Subset
  <2> QED
    BY <1>3, <2>1, <2>4 DEF Total, t
<1> QED
  BY <1>2, <1>3

\* A trait's filter finds at most what is announced, in every reachable state.
THEOREM NeverUnderstated == CatalogueSpec => []FilterNeverUnderstates
  BY CountCoversLinks, TablesInvariant, PTL
-----------------------------------------------------------------------------
(***************************************************************************)
(* The visitor.                                                            *)
(***************************************************************************)
\* Between walks nothing is remembered; a page has rows before it has a total.
VisitorInv ==
    /\ query \in Queries \cup {Null} /\ page \in Nat \ {0}
    /\ query = Null => items = Null /\ got = <<>>
    /\ items # Null => items \in Seq(Tokens)
    /\ total # Null => items # Null /\ total \in 0 .. TOTAL
    /\ got \in Seq(Tokens) /\ began \subseteq Tokens

\* The rows of a page are still within what matches, also before they are counted.
WithinInv ==
    /\ items # Null /\ items # <<>> /\ query.maxRarityRank = 0 =>
           Skip(page, query.limit) + Len(items) <= Total(query)
    /\ PageWithinTotal

\* What matched at first and was not shown yet has its place after what was shown.
MissInv ==
    /\ query # Null /\ Steady =>
           /\ began \subseteq Matching(query)
           /\ \A t \in began :
                  \/ t \in Range(got)
                  \/ items # Null /\ t \in Range(items)
                  \/ items = Null /\ PlaceOf(query, t) > Skip(page, query.limit)
                  \/ items # Null /\ PlaceOf(query, t) > Skip(page, query.limit) + query.limit
    /\ WalkMissesNothing

\* In ascending order a tenant keeps its place: what was shown stays before the page.
Ascending == Steady /\ query.sort = "tokenId:asc" /\ query.trait = Null
RepeatInv ==
    query # Null /\ Ascending =>
        /\ IsInjective(got)
        /\ \A t \in Range(got) :
               t \in Matching(query) /\ PlaceOf(query, t) <= Skip(page, query.limit)
        /\ items # Null =>
               /\ IsInjective(items)
               /\ \A t \in Range(items) :
                      /\ t \in Matching(query)
                      /\ Skip(page, query.limit) < PlaceOf(query, t)
                      /\ PlaceOf(query, t) <= Skip(page, query.limit) + query.limit

WalkInv == VisitorInv /\ WithinInv /\ MissInv /\ RepeatInv

\* What a step never takes back: a tenant with its owner, the count of a trait, a link.
Accumulates ==
    /\ \A t \in Tokens : nft[t] # Null =>
           nft'[t] # Null /\ nft'[t].ownerAddress = nft[t].ownerAddress
    /\ \A t \in Traits : trait[t] # Null => trait'[t] = trait[t]
    /\ nftTrait \subseteq nftTrait'

\* While a run, or the server, writes, nothing the catalogue filters by goes away but
\* ranks (seed.ts:65-106).
LEMMA TablesGrow ==
  ASSUME SeedInv, RepairInv, RepairInv', [Next]_vars
  PROVE  Accumulates
<1> USE DEF RepairInv
<1>1. SUFFICES /\ \A t \in Tokens : nft[t] # Null => nft'[t] # Null
               /\ \A t \in Traits : trait[t] # Null => trait'[t] = trait[t]
               /\ nftTrait \subseteq nftTrait'
  BY DEF RowsInv, Accumulates
<1>2. CASE Tenant
  <2>1. PICK row \in NftRow : nft' = IF nft[next] # Null THEN nft ELSE [nft EXCEPT ![next] = row]
    <3>1. next \in Tokens
      BY <1>2 DEF Tenant, SeedInv, RowTypes, TenantsInv, Tokens
    <3>2. [ownerAddress |-> OwnerOf[next], rarityRank |-> Null] \in NftRow
      BY <3>1 DEF NftRow
    <3> QED
      BY <1>2, <3>2 DEF Tenant
  <2>2. \A t \in Tokens : nft[t] # Null => nft'[t] # Null
    BY <2>1, NullAssumption DEF RowsInv
  <2> QED
    BY <1>2, <2>2 DEF Tenant
<1>3. CASE Trait
  <2>1. \A t \in Traits : trait[t] # Null => trait'[t] = trait[t]
    BY <1>3 DEF Trait, RowsInv
  <2> QED
    BY <1>3, <2>1 DEF Trait
<1>4. CASE Link
  BY <1>4 DEF Link
<1>5. CASE SetRank
  <2>1. at' \in {"ranks", "demo"} /\ nftTrait' = nftTrait /\ trait' = trait
    BY <1>5 DEF SetRank, Loop, Goto
  <2>2. \A t \in Tokens : nft'[t] # Null
    BY <2>1 DEF TenantsInv, Filled, Linked, Ranked, Late
  <2> QED
    BY <2>1, <2>2
<1>6. CASE nft' = nft /\ trait' = trait /\ nftTrait' = nftTrait
  BY <1>6
<1>7. CASE UNCHANGED vars
  BY <1>6, <1>7 DEF vars
<1>8. CASE \/ Start \/ Rank \/ CutOff \/ Person \/ Enter \/ StakeOwn
           \/ User("demo", "demo", "second") \/ User("second", "second", "stake")
  BY <1>6, <1>8 DEF Start, Rank, CutOff, Person, Enter, StakeOwn, User, tables
<1>9. CASE Stake \/ Reward \/ Raffle \/ CountEntries \/ CreateEntry \/ SetEntryCount
  BY <1>6, <1>9 DEF Stake, Reward, Raffle, CountEntries, CreateEntry, SetEntryCount, tables
<1> QED
  BY <1>2, <1>3, <1>4, <1>5, <1>7, <1>8, <1>9 DEF Next

\* However often the script is cut off and run again, and whatever the server does
\* beside it, the tables only accumulate; this is all a reader of several pages can
\* rely on (seed.ts:65-106, collection.service.ts:116-140).
THEOREM OnlyAccumulates == Spec => [][Accumulates]_vars
<1>1. SeedInv /\ RepairInv /\ RepairInv' /\ [Next]_vars => [Accumulates]_vars
  BY TablesGrow
<1> QED
  BY <1>1, SeedInvariant, RepairInvariant, PTL DEF Spec

\* Without a maximum rank, what matches goes on matching.
LEMMA MatchingGrows ==
  ASSUME SeedInv, RepairInv, RepairInv', [Next]_vars, NEW q, q.maxRarityRank = 0
  PROVE  Matching(q) \subseteq Matching(q)'
<1> SUFFICES ASSUME NEW t \in Matching(q) PROVE t \in Matching(q)'
  OBVIOUS
<1>1. t \in Tokens /\ nft[t] # Null
  BY DEF Matching, Stored
<1>2. nft'[t] # Null /\ nftTrait \subseteq nftTrait'
  BY <1>1, TablesGrow DEF Accumulates
<1>3. nft'[t].ownerAddress = nft[t].ownerAddress
  BY <1>1, <1>2 DEF RepairInv, RowsInv
<1>4. t \in LinkedTo(q.trait) => t \in LinkedTo(q.trait)'
  BY <1>2 DEF LinkedTo
<1> QED
  BY <1>1, <1>2, <1>3, <1>4 DEF Matching, Stored

\* Finitely many tenants match after a step, too.
LEMMA MatchingStaysFinite == ASSUME NEW q PROVE IsFiniteSet(Matching(q)')
<1>1. IsFiniteSet(Tokens) /\ Matching(q)' \in SUBSET Tokens
  BY SeedAssumption, FS_Interval DEF Tokens, Matching, Stored
<1> QED
  BY <1>1, FS_Subset

\* In token order a tenant never moves towards the front, for tenants only arrive.
LEMMA PlacesGrow ==
  ASSUME SeedInv, RepairInv, RepairInv', [Next]_vars,
         NEW q, q.maxRarityRank = 0, q.sort \in {"tokenId:asc", "tokenId:desc"}, NEW t
  PROVE  PlaceOf(q, t) \in Nat /\ PlaceOf(q, t)' \in Nat /\ PlaceOf(q, t) <= PlaceOf(q, t)'
<1> DEFINE before == {s \in Matching(q) : Before(q.sort, s, t)}
           after == {s \in Matching(q)' : Before(q.sort, s, t)}
<1>1. Matching(q) \subseteq Matching(q)'
  BY MatchingGrows
<1>2. IsFiniteSet(Matching(q)')
  BY MatchingStaysFinite
<1>3. before \in SUBSET after /\ after \in SUBSET (Matching(q)')
  BY <1>1
<1>4. PlaceOf(q, t) = Cardinality(before) + 1
  BY DEF PlaceOf, Place
<1>5. PlaceOf(q, t)' = Cardinality(after) + 1
  BY DEF PlaceOf, Place, Before
<1> HIDE DEF before, after
<1>6. IsFiniteSet(after)
  BY <1>2, <1>3, FS_Subset
<1>7. IsFiniteSet(before) /\ Cardinality(before) <= Cardinality(after)
  BY <1>3, <1>6, FS_Subset
<1>8. Cardinality(before) \in Nat /\ Cardinality(after) \in Nat
  BY <1>6, <1>7, FS_CardinalityType
<1> QED
  BY <1>4, <1>5, <1>7, <1>8

\* In ascending order a tenant does not move at all: who arrives has a larger number.
LEMMA PlacesStay ==
  ASSUME SeedInv, RepairInv, RepairInv', [Next]_vars,
         NEW q, q.maxRarityRank = 0, q.sort = "tokenId:asc", q.trait = Null,
         NEW t \in Matching(q)
  PROVE  PlaceOf(q, t)' = PlaceOf(q, t)
<1>1. Matching(q) \subseteq Matching(q)'
  BY MatchingGrows
<1>2. ASSUME NEW s \in Matching(q)', s < t PROVE s \in Matching(q)
  <2>1. s \in Tokens /\ t \in Tokens /\ nft[t] # Null /\ nft'[s] # Null
    BY DEF Matching, Stored
  <2>2. nft[s] # Null
    <3>1. s \in 1 .. t
      BY <1>2, <2>1, SeedAssumption DEF Tokens
    <3> QED
      BY <2>1, <3>1 DEF RepairInv, RowsInv
  <2>3. nft'[s].ownerAddress = nft[s].ownerAddress
    BY <2>1, <2>2 DEF RepairInv, RowsInv
  <2> QED
    BY <2>1, <2>2, <2>3 DEF Matching, Stored
<1>3. {s \in Matching(q)' : s < t} = {s \in Matching(q) : s < t}
  BY <1>1, <1>2
<1>4. \A x, y : Before(q.sort, x, y) <=> x < y
  BY DEF Before
<1>5. \A x, y : Before(q.sort, x, y)' <=> x < y
  BY DEF Before
<1>6. PlaceOf(q, t) = Cardinality({s \in Matching(q) : s < t}) + 1
  <2>1. {s \in Matching(q) : s < t} = {s \in Matching(q) : Before(q.sort, s, t)}
    BY <1>4
  <2> QED
    BY <2>1 DEF PlaceOf, Place
<1>7. PlaceOf(q, t)' = Cardinality({s \in Matching(q)' : s < t}) + 1
  BY DEF PlaceOf, Place, Before
<1> QED
  BY <1>3, <1>6, <1>7

\* What a validated query is.
LEMMA QueryFacts ==
  ASSUME NEW q \in Queries
  PROVE  q.limit \in Nat \ {0} /\ q.maxRarityRank \in Int
  BY QueryAssumption

\* Initially nobody browses.
LEMMA WalkInit == CatalogueInit => WalkInv
<1> SUFFICES ASSUME CatalogueInit PROVE WalkInv
  OBVIOUS
<1> USE DEF CatalogueInit
<1>1. VisitorInv
  BY DEF VisitorInv
<1>2. WithinInv
  BY DEF WithinInv, PageWithinTotal
<1>3. MissInv
  BY DEF MissInv, WalkMissesNothing, Walked
<1>4. RepeatInv
  BY DEF RepeatInv
<1> QED
  BY <1>1, <1>2, <1>3, <1>4 DEF WalkInv

\* The tables change under a visitor who does nothing.
LEMMA TablesStep ==
  ASSUME WalkInv, SeedInv, RepairInv, RepairInv', [Next]_vars, UNCHANGED visitor
  PROVE  WalkInv'
<1> USE DEF WalkInv
<1>0. /\ query' = query /\ page' = page /\ items' = items /\ total' = total
      /\ got' = got /\ began' = began
  BY DEF visitor
<1>1. VisitorInv'
  BY <1>0 DEF VisitorInv
<1>2. CASE query = Null
  <2>1. items = Null /\ total = Null
    BY <1>2 DEF VisitorInv
  <2>2. WithinInv'
    BY <1>0, <2>1 DEF WithinInv, PageWithinTotal
  <2>3. MissInv'
    BY <1>0, <1>2, <2>1 DEF MissInv, WalkMissesNothing, Walked
  <2>4. RepeatInv'
    BY <1>0, <1>2 DEF RepeatInv
  <2> QED
    BY <1>1, <2>2, <2>3, <2>4
<1>3. CASE query # Null
  <2>0. PICK q \in Queries : q = query
    BY <1>3 DEF VisitorInv
  <2>1. q.limit \in Nat \ {0} /\ Skip(page, q.limit) \in Nat
    <3>1. q.limit \in Nat \ {0}
      BY QueryFacts
    <3>2. PICK limit \in Nat \ {0} : q.limit = limit
      BY <3>1
    <3>3. Skip(page, limit) \in Nat
      BY SkipSteps DEF VisitorInv
    <3> QED
      BY <3>1, <3>2, <3>3
  <2>2. /\ Matching(query)' = Matching(q)' /\ Total(query)' = Total(q)'
        /\ \A t : PlaceOf(query, t)' = PlaceOf(q, t)'
    BY <1>0, <2>0
  <2>3. WithinInv'
    <3>1. ASSUME items # Null, items # <<>>, q.maxRarityRank = 0
          PROVE  Skip(page, q.limit) + Len(items) <= Total(q)'
      <4>1. Matching(q) \subseteq Matching(q)'
        BY <3>1, MatchingGrows
      <4>2. IsFiniteSet(Matching(q)')
        BY MatchingStaysFinite
      <4>3. Total(q) <= Total(q)' /\ Total(q) \in Nat /\ Total(q)' \in Nat
        BY <4>1, <4>2, FS_Subset, FS_CardinalityType DEF Total
      <4> QED
        BY <2>0, <2>1, <3>1, <4>3 DEF WithinInv, VisitorInv
    <3> QED
      BY <1>0, <2>0, <2>2, <3>1 DEF WithinInv, PageWithinTotal
  <2>4. MissInv'
    <3>1. ASSUME Steady
          PROVE  /\ began \subseteq Matching(q)'
                 /\ \A t \in began : PlaceOf(q, t) <= PlaceOf(q, t)' /\ PlaceOf(q, t) \in Nat
                                     /\ PlaceOf(q, t)' \in Nat
      <4>1. q.maxRarityRank = 0 /\ q.sort \in {"tokenId:asc", "tokenId:desc"}
        BY <2>0, <3>1 DEF Steady
      <4>2. began \subseteq Matching(q)'
        BY <1>3, <2>0, <3>1, <4>1, MatchingGrows DEF MissInv
      <4> QED
        BY <4>1, <4>2, PlacesGrow
    <3>2. WalkMissesNothing'
      BY <1>0 DEF MissInv, WalkMissesNothing, Walked, Steady
    <3>3. ASSUME Steady, NEW t \in began
          PROVE  \/ t \in Range(got)
                 \/ items # Null /\ t \in Range(items)
                 \/ items = Null /\ PlaceOf(q, t)' > Skip(page, q.limit)
                 \/ items # Null /\ PlaceOf(q, t)' > Skip(page, q.limit) + q.limit
      <4>1. \/ t \in Range(got)
            \/ items # Null /\ t \in Range(items)
            \/ items = Null /\ PlaceOf(q, t) > Skip(page, q.limit)
            \/ items # Null /\ PlaceOf(q, t) > Skip(page, q.limit) + q.limit
        BY <1>3, <2>0, <3>3 DEF MissInv
      <4>2. PlaceOf(q, t) <= PlaceOf(q, t)' /\ PlaceOf(q, t) \in Nat /\ PlaceOf(q, t)' \in Nat
        BY <3>1, <3>3
      <4> QED
        BY <2>1, <4>1, <4>2
    <3>4. Steady' <=> Steady
      BY <1>0 DEF Steady
    <3> QED
      BY <1>0, <2>0, <2>2, <3>1, <3>2, <3>3, <3>4 DEF MissInv
  <2>5. RepeatInv'
    <3>1. ASSUME Ascending, NEW t \in Matching(q)
          PROVE  t \in Matching(q)' /\ PlaceOf(q, t)' = PlaceOf(q, t)
      <4>1. q.maxRarityRank = 0 /\ q.sort = "tokenId:asc" /\ q.trait = Null
        BY <2>0, <3>1 DEF Ascending, Steady
      <4> QED
        BY <4>1, MatchingGrows, PlacesStay
    <3>2. Ascending' <=> Ascending
      BY <1>0 DEF Ascending, Steady
    <3> QED
      BY <1>0, <1>3, <2>0, <2>2, <3>1, <3>2 DEF RepeatInv
  <2> QED
    BY <1>1, <2>3, <2>4, <2>5
<1> QED
  BY <1>2, <1>3

\* A visitor comes: everything that matches is still ahead.
LEMMA BrowseStep ==
  ASSUME WalkInv, RepairInv, NEW q \in Queries, Browse(q)
  PROVE  WalkInv'
<1> USE DEF WalkInv
<1>0. /\ query = Null /\ query' = q /\ page' = 1 /\ began' = Matching(q)
      /\ items' = Null /\ total' = Null /\ got' = <<>> /\ vars' = vars
  BY DEF Browse, VisitorInv
<1>1. Matching(q)' = Matching(q) /\ \A t : PlaceOf(q, t)' = PlaceOf(q, t)
  <2>1. nft' = nft /\ nftTrait' = nftTrait
    BY <1>0 DEF vars
  <2> QED
    BY <2>1 DEF Matching, Stored, WithinRank, LinkedTo, PlaceOf, Place, Before, RankBefore
<1>2. Skip(1, q.limit) = 0
  BY QueryFacts DEF Skip
<1>3. VisitorInv'
  BY <1>0, MatchingFinite DEF VisitorInv
<1>4. WithinInv'
  BY <1>0 DEF WithinInv, PageWithinTotal
<1>5. MissInv'
  <2>1. \A t \in Matching(q) : PlaceOf(q, t) > 0
    <3>1. RowsTyped
      BY DEF RowsTyped, RepairInv, RowsInv
    <3>2. Total(q) \in Nat
      BY MatchingFinite, SeedAssumption
    <3> QED
      BY <3>1, <3>2, ListingPlaces
  <2>2. /\ began' \subseteq Matching(query)'
        /\ \A t \in began' : PlaceOf(query, t)' > Skip(page', query'.limit)
    BY <1>0, <1>1, <1>2, <2>1
  <2> QED
    BY <1>0, <2>2 DEF MissInv, WalkMissesNothing, Walked
<1>6. RepeatInv'
  <2>1. Range(<<>>) = {} /\ IsInjective(<<>>)
    BY DEF Range, IsInjective
  <2> QED
    BY <1>0, <2>1 DEF RepeatInv
<1> QED
  BY <1>3, <1>4, <1>5, <1>6

\* What a visitor does leaves the tables, and so the listing, as they are.
LEMMA ListingStill ==
  ASSUME UNCHANGED vars, UNCHANGED query
  PROVE  /\ Matching(query)' = Matching(query) /\ Total(query)' = Total(query)
         /\ \A t : PlaceOf(query, t)' = PlaceOf(query, t)
<1>1. nft' = nft /\ nftTrait' = nftTrait
  BY DEF vars
<1>2. Matching(query)' = Matching(query)
  BY <1>1 DEF Matching, Stored, WithinRank, LinkedTo
<1>3. \A t : PlaceOf(query, t)' = PlaceOf(query, t)
  BY <1>1, <1>2 DEF PlaceOf, Place, Before, RankBefore
<1> QED
  BY <1>2, <1>3 DEF Total

\* The rows of a page are read: those of the places that come next
\* (collection.service.ts:20-35).
LEMMA FindManyStep == ASSUME WalkInv, RepairInv, FindMany PROVE WalkInv'
<1> USE DEF WalkInv
<1>0. /\ query # Null /\ items = Null /\ items' = PageOf(query, page) /\ total = Null
      /\ UNCHANGED <<query, page, total, got, began>> /\ UNCHANGED vars
  BY DEF FindMany, VisitorInv
<1>1. /\ Matching(query)' = Matching(query) /\ Total(query)' = Total(query)
      /\ \A t : PlaceOf(query, t)' = PlaceOf(query, t)
  BY <1>0, ListingStill
<1>2. PICK q \in Queries : q = query
  BY <1>0 DEF VisitorInv
<1>3. PICK n \in Nat \ {0} : n = page
  BY DEF VisitorInv
<1>4. RowsTyped /\ q.limit \in Nat \ {0}
  BY QueryFacts DEF RowsTyped, RepairInv, RowsInv
<1> DEFINE skip == Skip(n, q.limit)
           rows == PageOf(q, n)
<1>5. /\ rows \in Seq(Tokens)
      /\ \A i \in DOMAIN rows :
             i \in 1 .. q.limit /\ rows[i] \in Matching(q) /\ PlaceOf(q, rows[i]) = skip + i
      /\ \A t \in Matching(q) :
             skip < PlaceOf(q, t) /\ PlaceOf(q, t) <= skip + q.limit =>
                 PlaceOf(q, t) - skip \in DOMAIN rows /\ rows[PlaceOf(q, t) - skip] = t
      /\ rows # <<>> => skip + Len(rows) <= Total(q)
  BY <1>4, PageFacts
<1>6. items' = rows /\ skip = Skip(page, query.limit)
  BY <1>0, <1>2, <1>3
<1>7. skip \in Nat
  <2>1. PICK limit \in Nat \ {0} : q.limit = limit
    BY <1>4
  <2> QED
    BY <2>1, SkipSteps
<1> HIDE DEF skip, rows
<1>8. VisitorInv'
  BY <1>0, <1>5, <1>6 DEF VisitorInv
<1>9. WithinInv'
  BY <1>0, <1>1, <1>2, <1>5, <1>6 DEF WithinInv, PageWithinTotal
<1>10. MissInv'
  <2>1. Steady' <=> Steady
    BY <1>0 DEF Steady
  <2>2. ASSUME Steady, NEW t \in began
        PROVE  t \in Range(got) \/ t \in Range(rows) \/ PlaceOf(q, t) > skip + q.limit
    <3>1. t \in Range(got) \/ (t \in Matching(q) /\ PlaceOf(q, t) > skip)
      BY <1>0, <1>2, <1>6, <2>2 DEF MissInv
    <3>2. t \in Matching(q) => PlaceOf(q, t) \in Nat
      <4>1. Total(q) \in Nat
        BY MatchingFinite, SeedAssumption
      <4> QED
        BY <1>4, <4>1, ListingPlaces
    <3>3. CASE t \in Matching(q) /\ skip < PlaceOf(q, t) /\ PlaceOf(q, t) <= skip + q.limit
      BY <1>5, <3>3 DEF Range
    <3> QED
      BY <1>4, <1>7, <3>1, <3>2, <3>3
  <2>3. Steady => began \subseteq Matching(query)'
    BY <1>0, <1>1 DEF MissInv
  <2>4. WalkMissesNothing'
    BY <1>0 DEF WalkMissesNothing, Walked
  <2>5. ASSUME items' # Null, Steady, NEW t \in began
        PROVE  t \in Range(got) \/ t \in Range(items') \/
                   PlaceOf(query, t)' > Skip(page, query.limit) + query.limit
    BY <1>1, <1>2, <1>6, <2>2, <2>5
  <2>6. CASE items' # Null
    BY <1>0, <2>1, <2>3, <2>4, <2>5, <2>6 DEF MissInv
  <2>7. CASE items' = Null
    BY <1>0, <1>1, <2>1, <2>3, <2>4, <2>7 DEF MissInv
  <2> QED
    BY <2>6, <2>7
<1>11. RepeatInv'
  <2>1. Ascending' <=> Ascending
    BY <1>0 DEF Ascending, Steady
  <2>2. IsInjective(rows)
    <3>1. \A i, j \in DOMAIN rows : skip + i = skip + j => i = j
      BY <1>5, <1>7
    <3> QED
      BY <1>5, <3>1 DEF IsInjective
  <2>3. ASSUME NEW t \in Range(rows)
        PROVE  t \in Matching(q) /\ skip < PlaceOf(q, t) /\ PlaceOf(q, t) <= skip + q.limit
    <3>1. PICK i \in DOMAIN rows : t = rows[i]
      BY DEF Range
    <3> QED
      BY <1>4, <1>5, <1>7, <3>1
  <2> QED
    BY <1>0, <1>1, <1>2, <1>6, <2>1, <2>2, <2>3 DEF RepeatInv
<1> QED
  BY <1>8, <1>9, <1>10, <1>11

\* The total is read, in a snapshot of its own: on the last page nothing that matched
\* at first is still to come (collection.service.ts:36).
LEMMA CountStep == ASSUME WalkInv, RepairInv, Count PROVE WalkInv'
<1> USE DEF WalkInv
<1>0. /\ items # Null /\ total = Null /\ total' = Total(query) /\ query # Null
      /\ UNCHANGED <<query, page, items, got, began>> /\ UNCHANGED vars
  BY DEF Count, VisitorInv
<1>1. /\ Matching(query)' = Matching(query) /\ Total(query)' = Total(query)
      /\ \A t : PlaceOf(query, t)' = PlaceOf(query, t)
  BY <1>0, ListingStill
<1>2. PICK q \in Queries : q = query
  BY <1>0 DEF VisitorInv
<1>3. RowsTyped /\ Total(q) \in 0 .. TOTAL /\ Total(q) \in Nat
  <2>1. RowsTyped
    BY DEF RowsTyped, RepairInv, RowsInv
  <2>2. Total(q) \in 0 .. TOTAL
    BY MatchingFinite
  <2> QED
    BY <2>1, <2>2, SeedAssumption
<1>4. PICK limit \in Nat \ {0} : limit = q.limit
  BY QueryFacts
<1>5. Skip(page, limit) \in Nat /\ page * limit = Skip(page, limit) + limit
  BY SkipSteps DEF VisitorInv
<1>6. VisitorInv'
  BY <1>0, <1>2, <1>3 DEF VisitorInv
<1>7. WithinInv'
  BY <1>0, <1>1, <1>2 DEF WithinInv, PageWithinTotal
<1>8. MissInv'
  <2>1. Steady' <=> Steady
    BY <1>0 DEF Steady
  <2>2. ASSUME Steady, ~HasMore(page, query.limit, Total(query)), NEW t \in began
        PROVE  t \in Range(got) \cup Range(items)
    <3>1. t \in Matching(q) /\ \/ t \in Range(got) \/ t \in Range(items)
                               \/ PlaceOf(q, t) > Skip(page, limit) + limit
      BY <1>0, <1>2, <1>4, <2>2 DEF MissInv
    <3>2. PlaceOf(q, t) \in Nat /\ PlaceOf(q, t) <= Total(q)
      BY <1>3, <3>1, ListingPlaces
    <3>3. Total(q) <= Skip(page, limit) + limit
      BY <1>2, <1>3, <1>4, <1>5, <2>2 DEF HasMore
    <3> QED
      BY <1>3, <1>5, <3>1, <3>2, <3>3
  <2>3. Range(got \o items) = Range(got) \cup Range(items)
    BY <1>0, RangeConcatenation DEF VisitorInv
  <2>4. WalkMissesNothing'
    <3> SUFFICES ASSUME Walked', Steady' PROVE (began \subseteq Range(got \o items))'
      BY DEF WalkMissesNothing
    <3>1. ~HasMore(page, query.limit, Total(query))
      BY <1>0 DEF Walked
    <3>2. began \subseteq Range(got \o items)
      BY <2>1, <2>2, <2>3, <3>1
    <3> QED
      BY <1>0, <3>2
  <2> QED
    BY <1>0, <1>1, <2>1, <2>4 DEF MissInv
<1>9. RepeatInv'
  <2>1. Ascending' <=> Ascending
    BY <1>0 DEF Ascending, Steady
  <2> QED
    BY <1>0, <1>1, <2>1 DEF RepeatInv
<1> QED
  BY <1>6, <1>7, <1>8, <1>9

\* Two sequences without repetitions that share no member make one.
LEMMA ApartInjective ==
  ASSUME NEW S, NEW a \in Seq(S), NEW b \in Seq(S), IsInjective(a), IsInjective(b),
         Range(a) \cap Range(b) = {}
  PROVE  IsInjective(a \o b)
<1> DEFINE c == a \o b
<1>1. /\ Len(a) \in Nat /\ Len(b) \in Nat /\ DOMAIN c = 1 .. Len(a) + Len(b)
      /\ \A i \in 1 .. Len(a) + Len(b) : c[i] = IF i <= Len(a) THEN a[i] ELSE b[i - Len(a)]
  BY ConcatProperties
<1>2. \A i \in DOMAIN c : IF i <= Len(a) THEN i \in DOMAIN a ELSE i - Len(a) \in DOMAIN b
  BY <1>1
<1> HIDE DEF c
<1>3. ASSUME NEW i \in DOMAIN c, NEW j \in DOMAIN c, c[i] = c[j] PROVE i = j
  <2>1. CASE i <= Len(a) /\ j <= Len(a)
    BY <1>1, <1>2, <1>3, <2>1 DEF IsInjective
  <2>2. CASE i > Len(a) /\ j > Len(a)
    <3>1. i - Len(a) = j - Len(a)
      BY <1>1, <1>2, <1>3, <2>2 DEF IsInjective
    <3> QED
      BY <1>1, <3>1
  <2>3. CASE i <= Len(a) /\ j > Len(a)
    <3>1. c[i] \in Range(a) /\ c[j] \in Range(b)
      BY <1>1, <1>2, <2>3 DEF Range
    <3> QED
      BY <1>3, <3>1
  <2>4. CASE i > Len(a) /\ j <= Len(a)
    <3>1. c[i] \in Range(b) /\ c[j] \in Range(a)
      BY <1>1, <1>2, <2>4 DEF Range
    <3> QED
      BY <1>3, <3>1
  <2> QED
    BY <1>1, <2>1, <2>2, <2>3, <2>4
<1> QED
  BY <1>3 DEF IsInjective, c

\* The visitor turns the page.
LEMMA TurnStep == ASSUME WalkInv, Turn PROVE WalkInv'
<1> USE DEF WalkInv
<1>0. /\ items # Null /\ query # Null /\ page' = page + 1 /\ got' = got \o items
      /\ items' = Null /\ total' = Null
      /\ UNCHANGED <<query, began>> /\ UNCHANGED vars
  BY DEF Turn, VisitorInv
<1>1. /\ Matching(query)' = Matching(query)
      /\ \A t : PlaceOf(query, t)' = PlaceOf(query, t)
  BY <1>0, ListingStill
<1>2. PICK q \in Queries : q = query
  BY <1>0 DEF VisitorInv
<1>3. PICK limit \in Nat \ {0} : limit = q.limit
  BY QueryFacts
<1>4. Skip(page, limit) \in Nat /\ Skip(page', limit) = Skip(page, limit) + limit
  BY <1>0, SkipSteps DEF VisitorInv
<1>5. /\ got \in Seq(Tokens) /\ items \in Seq(Tokens) /\ got' \in Seq(Tokens)
      /\ Range(got') = Range(got) \cup Range(items)
  BY <1>0, RangeConcatenation DEF VisitorInv
<1>6. VisitorInv'
  BY <1>0, <1>5 DEF VisitorInv
<1>7. WithinInv'
  BY <1>0 DEF WithinInv, PageWithinTotal
<1>8. MissInv'
  <2>1. Steady' <=> Steady
    BY <1>0 DEF Steady
  <2>2. ASSUME Steady, NEW t \in began
        PROVE  t \in Range(got') \/ PlaceOf(query, t)' > Skip(page', limit)
    BY <1>0, <1>1, <1>2, <1>3, <1>4, <1>5, <2>2 DEF MissInv
  <2>3. Steady => began \subseteq Matching(query)'
    BY <1>0, <1>1 DEF MissInv
  <2> QED
    BY <1>0, <1>2, <1>3, <2>1, <2>2, <2>3 DEF MissInv, WalkMissesNothing, Walked
<1>9. RepeatInv'
  <2>1. Ascending' <=> Ascending
    BY <1>0 DEF Ascending, Steady
  <2> SUFFICES ASSUME Ascending
               PROVE  /\ IsInjective(got')
                      /\ \A t \in Range(got') :
                             t \in Matching(q) /\ PlaceOf(q, t) <= Skip(page', limit)
    BY <1>0, <1>1, <1>2, <1>3, <2>1 DEF RepeatInv
  <2>2. /\ IsInjective(got) /\ IsInjective(items)
        /\ \A t \in Range(got) : t \in Matching(q) /\ PlaceOf(q, t) <= Skip(page, limit)
        /\ \A t \in Range(items) : /\ t \in Matching(q)
                                   /\ Skip(page, limit) < PlaceOf(q, t)
                                   /\ PlaceOf(q, t) <= Skip(page, limit) + limit
    BY <1>0, <1>2, <1>3 DEF RepeatInv
  <2>3. ASSUME NEW t \in Matching(q) PROVE PlaceOf(q, t) \in Nat
    BY FS_CardinalityType, FS_Subset, MatchingFinite DEF PlaceOf, Place
  <2>4. \A t \in Range(got') : t \in Matching(q) /\ PlaceOf(q, t) <= Skip(page', limit)
    BY <1>3, <1>4, <1>5, <2>2, <2>3
  <2>5. IsInjective(got \o items)
    <3>1. Range(got) \cap Range(items) = {}
      BY <1>4, <2>2, <2>3
    <3> QED
      BY <1>5, <2>2, <3>1, ApartInjective
  <2> QED
    BY <1>0, <2>4, <2>5
<1> QED
  BY <1>6, <1>7, <1>8, <1>9

\* The visitor leaves.
LEMMA LeaveStep == ASSUME WalkInv, Leave PROVE WalkInv'
<1>0. /\ query' = Null /\ page' = 1 /\ items' = Null /\ total' = Null
      /\ got' = <<>> /\ began' = {}
  BY DEF Leave
<1>1. VisitorInv'
  BY <1>0 DEF VisitorInv
<1>2. WithinInv'
  BY <1>0 DEF WithinInv, PageWithinTotal
<1>3. MissInv'
  BY <1>0 DEF MissInv, WalkMissesNothing, Walked
<1>4. RepeatInv'
  BY <1>0 DEF RepeatInv
<1> QED
  BY <1>1, <1>2, <1>3, <1>4 DEF WalkInv

\* Every step, of the script, the server or the visitor, preserves the invariant.
LEMMA WalkNext ==
  ASSUME WalkInv, SeedInv, RepairInv, RepairInv', [CatalogueNext]_allVars
  PROVE  WalkInv'
<1>1. CASE Next /\ UNCHANGED visitor
  BY <1>1, TablesStep
<1>2. CASE \E q \in Queries : Browse(q)
  BY <1>2, BrowseStep
<1>3. CASE FindMany
  BY <1>3, FindManyStep
<1>4. CASE Count
  BY <1>4, CountStep
<1>5. CASE Turn
  BY <1>5, TurnStep
<1>6. CASE Leave
  BY <1>6, LeaveStep
<1>7. CASE UNCHANGED allVars
  BY <1>7, TablesStep DEF allVars
<1> QED
  BY <1>1, <1>2, <1>3, <1>4, <1>5, <1>6, <1>7 DEF CatalogueNext

\* The invariant of the visitor holds in every reachable state.
THEOREM WalkInvariant == CatalogueSpec => []WalkInv
  BY WalkInit, WalkNext, TablesInvariant, PTL DEF CatalogueSpec

\* The tables and what a visitor has seen keep their types: a page is a sequence of
\* tenants, a total is at most the number of tenants (collection.service.ts:12-40).
THEOREM CatalogueTypeCorrect == CatalogueSpec => []CatalogueTypeOK
<1>1. TypeOK /\ WalkInv => CatalogueTypeOK
  BY DEF WalkInv, VisitorInv, CatalogueTypeOK
<1> QED
  BY <1>1, TablesInvariant, WalkInvariant, PTL

\* Without a maximum rank the rows of a page lie within its total, although the two
\* are read in different snapshots (collection.service.ts:15-36).
THEOREM WithinTotal == CatalogueSpec => []PageWithinTotal
<1>1. WalkInv => PageWithinTotal
  BY DEF WalkInv, WithinInv
<1> QED
  BY <1>1, WalkInvariant, PTL

\* In token order, a walk to the last page has shown every tenant that matched when it
\* began, whatever the script inserted meanwhile (collection.service.ts:21-23).
THEOREM MissesNothing == CatalogueSpec => []WalkMissesNothing
<1>1. WalkInv => WalkMissesNothing
  BY DEF WalkInv, MissInv
<1> QED
  BY <1>1, WalkInvariant, PTL

\* In ascending token order, without a trait, no tenant is shown twice
\* (collection.service.ts:151-153).
THEOREM RepeatsNothing == CatalogueSpec => []WalkRepeatsNothing
<1>1. WalkInv => WalkRepeatsNothing
  <2> SUFFICES ASSUME WalkInv, items # Null, Ascending PROVE IsInjective(got \o items)
    BY DEF WalkRepeatsNothing, Ascending
  <2>0. query # Null /\ got \in Seq(Tokens) /\ items \in Seq(Tokens)
    BY DEF WalkInv, VisitorInv
  <2>1. PICK q \in Queries : q = query
    BY <2>0 DEF WalkInv, VisitorInv
  <2>2. PICK limit \in Nat \ {0} : limit = q.limit
    BY QueryFacts
  <2>3. Skip(page, limit) \in Nat
    BY SkipSteps DEF WalkInv, VisitorInv
  <2>4. /\ IsInjective(got) /\ IsInjective(items)
        /\ \A t \in Range(got) : t \in Matching(q) /\ PlaceOf(q, t) <= Skip(page, limit)
        /\ \A t \in Range(items) : t \in Matching(q) /\ Skip(page, limit) < PlaceOf(q, t)
    BY <2>0, <2>1, <2>2 DEF WalkInv, RepeatInv
  <2>5. \A t \in Matching(q) : PlaceOf(q, t) \in Nat
    BY FS_CardinalityType, FS_Subset, MatchingFinite DEF PlaceOf, Place
  <2> QED
    <3>1. Range(got) \cap Range(items) = {}
      BY <2>3, <2>4, <2>5
    <3> QED
      BY <2>0, <2>4, <3>1, ApartInjective
<1> QED
  BY <1>1, WalkInvariant, PTL
=============================================================================
