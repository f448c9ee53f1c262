----------------------------- MODULE Catalogue -----------------------------
(***************************************************************************)
(* CollectionService.findAll: a visitor turns the pages of the catalogue   *)
(* while the seed script (module Seed) writes it.  The two statements of a *)
(* page are one transaction, but Prisma's default isolation on PostgreSQL  *)
(* is READ COMMITTED: each sees what is committed when it starts.          *)
(***************************************************************************)
EXTENDS Seed, Sequences

CONSTANTS
    Queries,       \* validated query strings: QueryNftsDto without its page
    BackgroundOf,  \* the background column of a tenant
    NameContains,  \* the tenants with the search term in their name
    NumberIn       \* the number a search term is read as, Null for NaN

Sorts == {"tokenId:asc", "tokenId:desc", "rarity:asc", "rarity:desc"}
Terms == DOMAIN NameContains

\* maxRarityRank, an integer of either sign, is no filter when it is absent or 0;
\* a trait needs both its type and its value, else it is no filter either.
ASSUME QueryAssumption ==
    /\ BackgroundOf \in [Tokens -> STRING]
    /\ NameContains \in [Terms -> SUBSET Tokens]
    /\ NumberIn \in [Terms -> Nat \cup {Null}]
    /\ \A q \in Queries :
           /\ DOMAIN q = {"sort", "limit", "background", "owner", "maxRarityRank", "trait", "search"}
           /\ q.sort \in Sorts /\ q.limit \in 1 .. 100 /\ q.maxRarityRank \in Int
           /\ q.trait \in Traits \cup {Null} /\ q.search \in Terms \cup {Null}

VARIABLES
    query,   \* what the visitor browses, Null for nobody
    page,    \* the page being fetched or shown
    items,   \* its rows, Null until findMany has answered
    total,   \* its total, Null until count has answered
    got,     \* the rows of the pages shown before it
    began    \* the tenants that matched when the walk began

visitor == <<query, page, items, total, got, began>>
allVars == <<vars, visitor>>
-----------------------------------------------------------------------------
\* Without a rank a tenant is not within any maximum.
WithinRank(token, maximum) ==
    nft[token].rarityRank # Null /\ nft[token].rarityRank <= maximum

\* Mutant of Matching: the filter on a trait is dropped.
MatchingAnyTrait(q) ==
    {token \in Stored :
        /\ q.background # Null => BackgroundOf[token] = q.background
        /\ q.owner # Null => nft[token].ownerAddress = q.owner
        /\ q.maxRarityRank # 0 => WithinRank(token, q.maxRarityRank)
        /\ q.search # Null => token \in NameContains[q.search] \/ token = NumberIn[q.search]}

\* buildWhere
Matching(q) ==
    {token \in Stored :
        /\ q.background # Null => BackgroundOf[token] = q.background
        /\ q.owner # Null => nft[token].ownerAddress = q.owner
        /\ q.maxRarityRank # 0 => WithinRank(token, q.maxRarityRank)
        /\ q.trait # Null => token \in LinkedTo(q.trait)
        /\ q.search # Null => token \in NameContains[q.search] \/ token = NumberIn[q.search]}

\* Both rank orders put the unranked last and settle ties by token id.
RankBefore(s, t, ascending) ==
    LET rank == [x \in {s, t} |-> nft[x].rarityRank]
    IN  IF rank[s] = rank[t] THEN s < t
        ELSE rank[t] = Null \/ (rank[s] # Null /\ (ascending <=> rank[s] < rank[t]))

\* Mutant of Before: the newest tenant comes first by default.
BeforeNewestFirst(sort, s, t) ==
    CASE sort = "rarity:asc"  -> RankBefore(s, t, TRUE)
      [] sort = "rarity:desc" -> RankBefore(s, t, FALSE)
      [] OTHER                -> s > t

\* buildOrderBy
Before(sort, s, t) ==
    CASE sort = "tokenId:desc" -> s > t
      [] sort = "rarity:asc"   -> RankBefore(s, t, TRUE)
      [] sort = "rarity:desc"  -> RankBefore(s, t, FALSE)
      [] OTHER                 -> s < t

\* The i-th row of the listing is the one that i - 1 rows come before.
Place(rows, sort, t) == Cardinality({s \in rows : Before(sort, s, t)}) + 1
Listing(q) ==
    LET rows == Matching(q)
    IN  [i \in 1 .. Cardinality(rows) |-> CHOOSE t \in rows : Place(rows, q.sort, t) = i]

Skip(n, limit) == (n - 1) * limit

\* skip and take
PageOf(q, n) ==
    LET rows == Listing(q)
        skip == Skip(n, q.limit)
    IN  SubSeq(rows, skip + 1, Min({skip + q.limit, Len(rows)}))

\* Mutant of Total: the total of the first page is kept for the others.
TotalKept(q) == Cardinality(IF q = query THEN began ELSE Matching(q))

Total(q) == Cardinality(Matching(q))

\* Mutant of HasMore: only a full page is announced.
HasMoreFull(n, limit, count) == (n + 1) * limit <= count

\* paginated: the fields that are computed
HasMore(n, limit, count) == n * limit < count

\* Mutant of TotalPages: the last, shorter page is not counted.
TotalPagesFloor(limit, count) == IF count < limit THEN 1 ELSE count \div limit

TotalPages(limit, count) == IF count = 0 THEN 1 ELSE (count + limit - 1) \div limit
-----------------------------------------------------------------------------
Browse(q) ==
    /\ query = Null
    /\ query' = q /\ page' = 1
    /\ began' = Matching(q)
    /\ UNCHANGED <<items, total, got, vars>>

FindMany ==
    /\ query # Null /\ items = Null
    /\ items' = PageOf(query, page)
    /\ UNCHANGED <<query, page, total, got, began, vars>>

Count ==
    /\ items # Null /\ total = Null
    /\ total' = Total(query)
    /\ UNCHANGED <<query, page, items, got, began, vars>>

\* The visitor goes on to the next page.
Turn ==
    /\ total # Null /\ HasMore(page, query.limit, total)
    /\ page' = page + 1
    /\ got' = got \o items
    /\ items' = Null /\ total' = Null
    /\ UNCHANGED <<query, began, vars>>

Leave ==
    /\ total # Null
    /\ query' = Null /\ page' = 1 /\ items' = Null /\ total' = Null
    /\ got' = <<>> /\ began' = {}
    /\ UNCHANGED vars
-----------------------------------------------------------------------------
CatalogueInit ==
    /\ Init
    /\ query = Null /\ page = 1 /\ items = Null /\ total = Null
    /\ got = <<>> /\ began = {}

\* A bound: while somebody browses, a run does not go into the statements about
\* users, stakes, raffles and people, nor does the server write; the run may be cut
\* off there.  These statements neither write what the catalogue reads nor read what
\* it writes, so to the visitor a run that is cut off is one that went on to its end.
CatalogueStatements == {"idle", "tenants", "traits", "links", "rank", "ranks"}

CatalogueNext ==
    \/ /\ Next
       /\ query # Null => (at \in CatalogueStatements \/ at' = "idle")
                           /\ UNCHANGED <<lock, raffle, people>>
       /\ UNCHANGED visitor
    \/ \E q \in Queries : Browse(q)
    \/ FindMany \/ Count \/ Turn \/ Leave

CatalogueSpec == CatalogueInit /\ [][CatalogueNext]_allVars
-----------------------------------------------------------------------------
CatalogueTypeOK ==
    /\ TypeOK
    /\ query \in Queries \cup {Null} /\ page \in Nat \ {0}
    /\ items # Null => items \in Seq(Tokens)
    /\ total # Null => total \in 0 .. TOTAL
    /\ got \in Seq(Tokens) /\ began \subseteq Tokens

\* Whatever the tables hold, also between two statements of the script: the pages
\* 1 .. totalPages show every tenant that matches and no other, each exactly once,
\* in order within a page and from page to page; only a page that is alone may be
\* empty, and hasMore says whether another page follows (pagination.dto.ts:25-27,
\* 41-56).
PagesTile ==
    \A q \in Queries :
        LET pages == TotalPages(q.limit, Total(q))
            shown == {[number |-> n, rows |-> PageOf(q, n)] : n \in 1 .. pages}
        IN  /\ UNION {Range(a.rows) : a \in shown} = Matching(q)
            /\ \A a, b \in shown : \A i \in DOMAIN a.rows, j \in DOMAIN b.rows :
                   a.number < b.number \/ (a = b /\ i < j) =>
                       Before(q.sort, a.rows[i], b.rows[j])
            /\ \A n \in 1 .. pages + 1 :
                   HasMore(n, q.limit, Total(q)) <=> n < pages
            /\ pages > 1 => PageOf(q, pages) # <<>>

\* collection.service.ts:15-17 promises that a page and its total never disagree.
\* They do, in one direction only: the rows shown lie within the total ("SHOWING
\* 1-24 OF 3,000"), for count runs second and tenants are only added.  Not so with
\* a maximum rank: the script moves a tenant out of it while it ranks.
PageWithinTotal ==
    total # Null /\ query.maxRarityRank = 0 /\ items # <<>> =>
        Skip(page, query.limit) + Len(items) <= total

\* In token order, either way, a visitor who turns the pages to the last one has
\* seen every tenant that matched when the walk began, although rows are inserted
\* between the pages (collection.service.ts:21-23).
Walked == total # Null /\ ~HasMore(page, query.limit, total)
Steady == query.sort \in {"tokenId:asc", "tokenId:desc"} /\ query.maxRarityRank = 0
WalkMissesNothing == Walked /\ Steady => began \subseteq Range(got \o items)

\* In ascending order, the default, no tenant is shown twice either: what the
\* script inserts comes after what was shown (collection.service.ts:151-153).  Not
\* so under a trait, whose tenants are linked in no particular order.
WalkRepeatsNothing ==
    items # Null /\ Steady /\ query.sort = "tokenId:asc" /\ query.trait = Null =>
        IsInjective(got \o items)

\* The count beside a trait in the filter (getTraitFilters) is never less than what
\* the filter then finds: a trait is counted before its tenants are linked, and the
\* counts of two runs are the same (seed.ts:85-106, collection.service.ts:85-89).
FilterNeverUnderstates ==
    \A q \in Queries :
        q.trait # Null =>
            Total(q) <= IF trait[q.trait] = Null THEN 0 ELSE trait[q.trait]
=============================================================================
