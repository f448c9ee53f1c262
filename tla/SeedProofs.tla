----------------------------- MODULE SeedProofs -----------------------------
(***************************************************************************)
(* What the seed script creates, rather than upserts, is never created     *)
(* twice, and only a run that is cut off in two places, or overtaken by    *)
(* the server, leaves it inconsistent.  Everything else is repaired by a   *)
(* run that completes.                                                     *)
(***************************************************************************)
EXTENDS Seed, TLAPS, FiniteSetTheorems

RowTypes ==
    /\ lock \in LockRow
    /\ raffle \in RaffleRow \cup {Null}
    /\ next \in Nat \ {0}

\* A stake exists at most once; only between stake.create and ledgerCreate, or after
\* a run was cut off there, it has no reward.
StakeInv ==
    /\ lock.stakes <= 1 /\ lock.rewards <= lock.stakes
    /\ at = "reward" => lock.stakes = 1 /\ lock.rewards = 0
    /\ ~disturbed /\ at # "reward" => lock.rewards = lock.stakes

\* While the script creates entries, their number is the loop counter; undisturbed,
\* they are the only ones and entryCount is still 0.
EntriesInv ==
    /\ at \in {"count", "entries", "counter"} => raffle # Null
    /\ raffle # Null => raffle.seeded <= SeedEntries
    /\ at = "entries" => raffle.seeded + 1 = next /\ next <= SeedEntries
    /\ at = "counter" => raffle.seeded = SeedEntries
    /\ ~disturbed /\ at \in {"entries", "counter"} => raffle.entered = 0 /\ raffle.entryCount = 0
    /\ ~disturbed /\ raffle # Null /\ at \notin {"entries", "counter"} =>
           raffle.entryCount = raffle.seeded + raffle.entered

SeedInv == RowTypes /\ StakeInv /\ EntriesInv

\* A statement that leaves stakes and raffle alone, and is not between two of theirs.
Quiet ==
    /\ lock' = lock /\ raffle' = raffle /\ disturbed' = disturbed
    /\ next' \in Nat \ {0}
    /\ at \notin {"reward", "entries", "counter"}
    /\ at' \notin {"reward", "count", "entries", "counter"}

\* The database starts empty.
LEMMA SeedInit == Init => SeedInv
<1> SUFFICES ASSUME Init PROVE SeedInv
  OBVIOUS
<1>1. RowTypes
  BY DEF Init, RowTypes, LockRow
<1>2. StakeInv
  BY DEF Init, StakeInv
<1>3. EntriesInv
  BY DEF Init, EntriesInv
<1> QED
  BY <1>1, <1>2, <1>3 DEF SeedInv

\* A quiet statement preserves the invariant.
LEMMA QuietStep == SeedInv /\ Quiet => SeedInv'
  BY DEF SeedInv, Quiet, RowTypes, StakeInv, EntriesInv

\* The statements about the catalogue, the users and the people are quiet
\* (seed.ts:45-144, 224-238).
LEMMA QuietStatements ==
  ASSUME SeedInv,
         \/ Start \/ Tenant \/ Trait \/ Link \/ Rank \/ SetRank \/ Person
         \/ User("demo", "demo", "second") \/ User("second", "second", "stake")
  PROVE  Quiet
<1> next \in Nat \ {0}
  BY DEF SeedInv, RowTypes
<1>1. CASE Start
  BY <1>1 DEF Start, Quiet, tables
<1>2. CASE Tenant
  BY <1>2 DEF Tenant, Quiet, Loop, Goto
<1>3. CASE Trait
  BY <1>3 DEF Trait, Quiet, Goto
<1>4. CASE Link
  BY <1>4 DEF Link, Quiet, Goto
<1>5. CASE Rank
  BY <1>5 DEF Rank, Quiet, Goto, tables
<1>6. CASE SetRank
  BY <1>6 DEF SetRank, Quiet, Loop, Goto
<1>7. CASE Person
  BY <1>7 DEF Person, Quiet
<1>8. CASE User("demo", "demo", "second") \/ User("second", "second", "stake")
  BY <1>8 DEF User, Quiet, Goto
<1> QED
  BY <1>1, <1>2, <1>3, <1>4, <1>5, <1>6, <1>7, <1>8

\* The stake and its reward (seed.ts:147-179).
LEMMA StakeStep == ASSUME SeedInv, Stake \/ Reward \/ StakeOwn PROVE SeedInv'
<1> USE DEF SeedInv, RowTypes, LockRow
<1>1. CASE Stake
  <2>1. RowTypes'
    BY <1>1 DEF Stake, Goto
  <2>2. StakeInv'
    BY <1>1 DEF Stake, Goto, StakeInv
  <2>3. EntriesInv'
    BY <1>1 DEF Stake, Goto, EntriesInv
  <2> QED
    BY <2>1, <2>2, <2>3
<1>2. CASE Reward
  <2>1. RowTypes'
    BY <1>2 DEF Reward, Goto
  <2>2. StakeInv'
    BY <1>2 DEF Reward, Goto, StakeInv
  <2>3. EntriesInv'
    BY <1>2 DEF Reward, Goto, EntriesInv
  <2> QED
    BY <2>1, <2>2, <2>3
<1>3. CASE StakeOwn
  <2>1. RowTypes'
    BY <1>3 DEF StakeOwn, script
  <2>2. StakeInv'
    BY <1>3 DEF StakeOwn, script, StakeInv
  <2>3. EntriesInv'
    BY <1>3 DEF StakeOwn, script, EntriesInv
  <2> QED
    BY <2>1, <2>2, <2>3
<1> QED
  BY <1>1, <1>2, <1>3

\* The raffle, its entries and its counter (seed.ts:183-222), and an entry that
\* comes from the server.
LEMMA RaffleStep ==
  ASSUME SeedInv, Raffle \/ CountEntries \/ CreateEntry \/ SetEntryCount \/ Enter
  PROVE  SeedInv'
<1> USE SeedAssumption, NullAssumption DEF SeedInv, RowTypes, RaffleRow
<1>1. CASE Raffle
  <2>1. RowTypes'
    BY <1>1 DEF Raffle, Goto
  <2>2. StakeInv'
    BY <1>1 DEF Raffle, Goto, StakeInv
  <2>3. EntriesInv'
    BY <1>1 DEF Raffle, Goto, EntriesInv
  <2> QED
    BY <2>1, <2>2, <2>3
<1>2. CASE CountEntries
  <2>1. RowTypes'
    BY <1>2 DEF CountEntries, Goto, tables
  <2>2. StakeInv'
    BY <1>2 DEF CountEntries, Goto, tables, StakeInv
  <2>3. EntriesInv'
    BY <1>2 DEF CountEntries, Goto, tables, EntriesInv
  <2> QED
    BY <2>1, <2>2, <2>3
<1>3. CASE CreateEntry
  <2>0. raffle \in RaffleRow /\ raffle' = [raffle EXCEPT !.seeded = @ + 1]
    BY <1>3 DEF CreateEntry, EntriesInv
  <2>1. RowTypes'
    BY <1>3, <2>0 DEF CreateEntry, Loop, Goto
  <2>2. StakeInv'
    BY <1>3 DEF CreateEntry, Loop, Goto, StakeInv
  <2>3. EntriesInv'
    BY <1>3, <2>0 DEF CreateEntry, Loop, Goto, EntriesInv
  <2> QED
    BY <2>1, <2>2, <2>3
<1>4. CASE SetEntryCount
  <2>0. raffle \in RaffleRow /\ raffle' = [raffle EXCEPT !.entryCount = SeedEntries]
    BY <1>4 DEF SetEntryCount, EntriesInv
  <2>1. RowTypes'
    BY <1>4, <2>0 DEF SetEntryCount, Goto
  <2>2. StakeInv'
    BY <1>4 DEF SetEntryCount, Goto, StakeInv
  <2>3. EntriesInv'
    BY <1>4, <2>0 DEF SetEntryCount, Goto, EntriesInv
  <2> QED
    BY <2>1, <2>2, <2>3
<1>5. CASE Enter
  <2>0. /\ raffle \in RaffleRow
        /\ raffle' = [entryCount |-> raffle.entryCount + 1, seeded |-> raffle.seeded,
                      entered |-> raffle.entered + 1]
        /\ lock' = lock /\ at' = at /\ next' = next
    BY <1>5 DEF Enter, script
  <2>1. ~disturbed' => ~disturbed /\ at \notin {"entries", "counter"}
    BY <1>5 DEF Enter
  <2>2. RowTypes'
    BY <2>0
  <2>3. StakeInv'
    BY <2>0, <2>1 DEF StakeInv
  <2>4. EntriesInv'
    BY <2>0, <2>1 DEF EntriesInv
  <2> QED
    BY <2>2, <2>3, <2>4
<1> QED
  BY <1>1, <1>2, <1>3, <1>4, <1>5

\* A run is cut off, before any statement.
LEMMA CutOffStep == ASSUME SeedInv, CutOff PROVE SeedInv'
<1> USE DEF SeedInv, RowTypes
<1>1. lock' = lock /\ raffle' = raffle /\ at' = "idle" /\ next' = 1
  BY DEF CutOff, tables
<1>2. ~disturbed' =>
          ~disturbed /\ at \notin {"reward", "counter"} /\ (at = "entries" => ~(next > 1))
  BY DEF CutOff
<1>3. RowTypes'
  BY <1>1
<1>4. StakeInv'
  BY <1>1, <1>2 DEF StakeInv
<1>5. EntriesInv'
  BY <1>1, <1>2 DEF EntriesInv, RaffleRow
<1> QED
  BY <1>3, <1>4, <1>5

\* Every step of the script and of the server preserves the invariant.
LEMMA SeedNext == SeedInv /\ [Next]_vars => SeedInv'
<1> SUFFICES ASSUME SeedInv, [Next]_vars PROVE SeedInv'
  OBVIOUS
<1>1. CASE \/ Start \/ Tenant \/ Trait \/ Link \/ Rank \/ SetRank \/ Person
           \/ User("demo", "demo", "second") \/ User("second", "second", "stake")
  BY <1>1, QuietStatements, QuietStep
<1>2. CASE Stake \/ Reward \/ StakeOwn
  BY <1>2, StakeStep
<1>3. CASE Raffle \/ CountEntries \/ CreateEntry \/ SetEntryCount \/ Enter
  BY <1>3, RaffleStep
<1>4. CASE CutOff
  BY <1>4, CutOffStep
<1>5. CASE UNCHANGED vars
  BY <1>5 DEF vars, SeedInv, RowTypes, StakeInv, EntriesInv
<1> QED
  BY <1>1, <1>2, <1>3, <1>4, <1>5 DEF Next

\* The invariant of the stake and the entries holds in every reachable state.
THEOREM SeedInvariant == Spec => []SeedInv
  BY SeedInit, SeedNext, PTL DEF Spec

\* However often the script is run and wherever it is cut off, the completed lock,
\* its reward and the entries exist at most once (seed.ts:6-7, 148-153, 205-207).
THEOREM Once == Spec => []NothingTwice
<1>1. SeedInv => NothingTwice
  BY DEF SeedInv, StakeInv, EntriesInv, NothingTwice
<1> QED
  BY <1>1, SeedInvariant, PTL

\* Between runs the lock is paid and entryCount is the number of entries, unless a
\* run was disturbed (seed.ts:155-178, 205-219).
THEOREM Sound == Spec => []SoundUnlessDisturbed
<1>1. SeedInv => SoundUnlessDisturbed
  BY DEF SeedInv, StakeInv, EntriesInv, SoundUnlessDisturbed
<1> QED
  BY <1>1, SeedInvariant, PTL
-----------------------------------------------------------------------------
(***************************************************************************)
(* What a completed run has repaired.  The invariant says, statement by    *)
(* statement, what the current run has already made sure of, whatever the  *)
(* runs before it left behind.                                             *)
(***************************************************************************)
\* The links the metadata calls for; nothing else is ever linked.
TrueLinks == {link \in Tokens \X Traits : link[2] \in AttributesOf[link[1]]}

\* A trait with its count and all its links.
Done(t) ==
    /\ trait[t] = CountOf(t)
    /\ \A token \in Tokens : t \in AttributesOf[token] => <<token, t>> \in nftTrait

\* A one-to-one ranking of all tenants, by falling score.
Ranking(order) ==
    /\ order \in [Tokens -> Tokens]
    /\ \A i, j \in Tokens :
           i < j => order[i] # order[j] /\ Score(order[i]) >= Score(order[j])

\* The statements after the tenants, the traits, the ranks and the two users.
Late == {"demo", "second", "stake", "reward", "raffle", "count", "entries", "counter", "people"}
Ranked == Late \cup (IF last = "completed" THEN {"idle"} ELSE {})
Linked == Ranked \cup {"rank", "ranks"}
Filled == Linked \cup {"traits", "links"}

\* Tenants appear in the order of their numbers, with the owner of the script, and
\* are never removed; what a trait's row says of it is true as soon as it exists.
RowsInv ==
    /\ nft \in [Tokens -> NftRow \cup {Null}]
    /\ trait \in [Traits -> Nat \cup {Null}]
    /\ at \in Statements
    /\ last \in {"never", "completed", "cut off"}
    /\ \A t \in Tokens : nft[t] # Null =>
           nft[t].ownerAddress = OwnerOf[t] /\ \A s \in 1 .. t : nft[s] # Null
    /\ \A t \in Traits : trait[t] # Null => trait[t] = CountOf(t)
    /\ nftTrait \subseteq TrueLinks
    /\ \A link \in nftTrait : trait[link[2]] # Null

TenantsInv ==
    /\ at = "tenants" => next <= TOTAL /\ \A t \in 1 .. next - 1 : nft[t] # Null
    /\ at \in Filled => \A t \in Tokens : nft[t] # Null

\* While a trait is being linked, the tenants that are not to do have their link.
TraitsInv ==
    /\ todo \subseteq Tokens
    /\ at \in {"traits", "links"} => next <= NumTraits /\ \A t \in 1 .. next - 1 : Done(t)
    /\ at = "links" =>
           /\ trait[next] = CountOf(next)
           /\ \A token \in Tokens :
                  next \in AttributesOf[token] /\ token \notin todo => <<token, next>> \in nftTrait
           /\ \A token \in todo : next \in AttributesOf[token]
    /\ at \in Linked => \A t \in Traits : Done(t)

\* The first next - 1 tenants of the ranking carry the rank they have in it.
RanksInv ==
    /\ at = "ranks" =>
           /\ next <= TOTAL /\ Ranking(scored)
           /\ \A i \in 1 .. next - 1 : nft[scored[i]].rarityRank = i
    /\ at \in Ranked => RanksFollowScores

\* Users, raffle and people, each from the statement that upserts it.
OthersInv ==
    /\ users \subseteq {"demo", "second"} /\ people \subseteq People
    /\ at \in Ranked \ {"demo"} => "demo" \in users
    /\ at \in Ranked \ {"demo", "second"} => "second" \in users
    /\ at \in Ranked \ {"demo", "second", "stake", "reward", "raffle"} => raffle # Null
    /\ at = "people" => next <= NumPeople /\ 1 .. next - 1 \subseteq people
    /\ at = "idle" /\ last = "completed" => people = People

RepairInv == RowsInv /\ TenantsInv /\ TraitsInv /\ RanksInv /\ OthersInv

\* A step that leaves tenants, traits and links alone leaves what is said of them.
Still == nft' = nft /\ trait' = trait /\ nftTrait' = nftTrait

LEMMA StillFacts ==
  ASSUME Still
  PROVE  /\ \A t \in Traits : Done(t)' <=> Done(t)
         /\ \A token \in Tokens : Score(token)' = Score(token)
         /\ RanksFollowScores' <=> RanksFollowScores
<1>1. \A t \in Traits : Done(t)' <=> Done(t)
  BY DEF Still, Done, CountOf
<1>2. \A token \in Tokens : Score(token)' = Score(token)
  BY DEF Still, Score
<1>3. RanksFollowScores' <=> RanksFollowScores
  BY <1>2 DEF Still, RanksFollowScores
<1> QED
  BY <1>1, <1>2, <1>3

\* How many tenants have a trait is a positive number (seed.ts:46, 58).
LEMMA CountType == \A t \in Traits : CountOf(t) \in Nat
<1> SUFFICES ASSUME NEW t \in Traits PROVE CountOf(t) \in Nat
  OBVIOUS
<1>1. IsFiniteSet(Tokens)
  BY SeedAssumption, FS_Interval DEF Tokens
<1>2. IsFiniteSet({token \in Tokens : t \in AttributesOf[token]})
  BY <1>1, FS_Subset
<1> QED
  BY <1>2, FS_CardinalityType DEF CountOf

\* The tables start empty and no run has begun.
LEMMA RepairInit == Init => RepairInv
<1> SUFFICES ASSUME Init PROVE RepairInv
  OBVIOUS
<1> USE DEF Init, Ranked, Linked, Filled, Late
<1>1. RowsInv
  BY DEF RowsInv, Statements
<1>2. TenantsInv
  BY DEF TenantsInv
<1>3. TraitsInv
  BY DEF TraitsInv
<1>4. RanksInv
  BY DEF RanksInv
<1>5. OthersInv
  BY DEF OthersInv
<1> QED
  BY <1>1, <1>2, <1>3, <1>4, <1>5 DEF RepairInv

TablesInv == RowsInv /\ TenantsInv /\ TraitsInv /\ RanksInv

\* nft.upsert (seed.ts:65-78).
LEMMA TenantStep == ASSUME SeedInv, RepairInv, Tenant PROVE TablesInv'
<1> USE SeedAssumption, NullAssumption DEF RepairInv, Tokens
<1> next \in 1 .. TOTAL
  BY DEF SeedInv, RowTypes, TenantsInv, Tenant
<1>0. /\ at = "tenants" /\ trait' = trait /\ nftTrait' = nftTrait /\ last' = last /\ todo' = todo
      /\ \/ next < TOTAL /\ at' = "tenants" /\ next' = next + 1
         \/ next = TOTAL /\ at' = "traits" /\ next' = 1
  BY DEF Tenant, Loop, Goto
<1>1. PICK row \in NftRow : /\ row.ownerAddress = OwnerOf[next]
                            /\ nft' = IF nft[next] # Null THEN nft ELSE [nft EXCEPT ![next] = row]
  <2>1. [ownerAddress |-> OwnerOf[next], rarityRank |-> Null] \in NftRow
    BY DEF NftRow
  <2> QED
    BY <2>1 DEF Tenant
<1>2. /\ nft' \in [Tokens -> NftRow \cup {Null}]
      /\ \A t \in 1 .. next : nft'[t] # Null
      /\ \A t \in Tokens : nft[t] # Null => nft'[t] = nft[t]
      /\ \A t \in Tokens : nft'[t] # Null =>
             nft'[t].ownerAddress = OwnerOf[t] /\ \A s \in 1 .. t : nft'[s] # Null
  <2>1. nft' \in [Tokens -> NftRow \cup {Null}]
    BY <1>1 DEF RowsInv
  <2>2. \A t \in Tokens : nft[t] # Null => nft'[t] = nft[t]
    BY <1>1 DEF RowsInv
  <2>3. nft'[next] # Null /\ nft'[next].ownerAddress = OwnerOf[next]
    BY <1>1 DEF RowsInv
  <2>4. \A t \in 1 .. next : nft'[t] # Null
    BY <1>0, <2>2, <2>3 DEF TenantsInv
  <2>5. \A t \in Tokens : t # next => nft'[t] = nft[t]
    BY <1>1 DEF RowsInv
  <2>6. \A t \in Tokens : nft'[t] # Null =>
            nft'[t].ownerAddress = OwnerOf[t] /\ \A s \in 1 .. t : nft'[s] # Null
    <3> SUFFICES ASSUME NEW t \in Tokens, nft'[t] # Null
                 PROVE  nft'[t].ownerAddress = OwnerOf[t] /\ \A s \in 1 .. t : nft'[s] # Null
      OBVIOUS
    <3>1. CASE t = next
      BY <3>1, <2>3, <2>4
    <3>2. CASE t # next
      <4>1. nft[t] # Null /\ nft'[t] = nft[t]
        BY <3>2, <2>5
      <4>2. nft[t].ownerAddress = OwnerOf[t] /\ \A s \in 1 .. t : nft[s] # Null
        BY <4>1 DEF RowsInv
      <4> QED
        BY <4>1, <4>2, <2>2
    <3> QED
      BY <3>1, <3>2
  <2> QED
    BY <2>1, <2>2, <2>4, <2>6
<1>3. RowsInv'
  BY <1>0, <1>2 DEF RowsInv, Statements, CountOf
<1>4. TenantsInv'
  BY <1>0, <1>2 DEF TenantsInv, Filled, Linked, Ranked, Late
<1>5. TraitsInv'
  BY <1>0 DEF TraitsInv, Linked, Ranked, Late
<1>6. RanksInv'
  BY <1>0 DEF RanksInv, Ranked, Late
<1> QED
  BY <1>3, <1>4, <1>5, <1>6 DEF TablesInv

\* trait.upsert and the findMany of its tenants (seed.ts:86-96).
LEMMA TraitStep == ASSUME SeedInv, RepairInv, Trait PROVE TablesInv'
<1> USE SeedAssumption, NullAssumption DEF RepairInv
<1> next \in Traits
  BY DEF SeedInv, RowTypes, TraitsInv, Trait, Traits
<1>0. /\ at = "traits" /\ at' = "links" /\ next' = next /\ nft' = nft /\ nftTrait' = nftTrait
      /\ last' = last /\ trait' = [trait EXCEPT ![next] = CountOf(next)]
      /\ \A token \in Tokens : token \in todo' <=> next \in AttributesOf[token]
      /\ todo' \subseteq Tokens
  BY DEF Trait, Goto, RowsInv, TenantsInv, Filled, Stored
<1>1. /\ trait' \in [Traits -> Nat \cup {Null}] /\ trait'[next] = CountOf(next) /\ CountOf(next) # Null
      /\ \A t \in Traits : t # next => trait'[t] = trait[t]
  BY <1>0, CountType DEF RowsInv
<1>2. \A t \in Traits : Done(t) => Done(t)'
  <2> SUFFICES ASSUME NEW t \in Traits, Done(t) PROVE Done(t)'
    OBVIOUS
  <2>1. trait'[t] = CountOf(t)
    BY <1>1 DEF Done
  <2> QED
    BY <1>0, <2>1 DEF Done
<1>3. RowsInv'
  <2>1. \A t \in Traits : trait'[t] # Null => trait'[t] = CountOf(t)
    BY <1>1 DEF RowsInv
  <2>2. \A link \in nftTrait : trait'[link[2]] # Null
    BY <1>1 DEF RowsInv, TrueLinks
  <2>3. /\ nft' \in [Tokens -> NftRow \cup {Null}]
        /\ \A t \in Tokens : nft'[t] # Null =>
               nft'[t].ownerAddress = OwnerOf[t] /\ \A s \in 1 .. t : nft'[s] # Null
    BY <1>0 DEF RowsInv
  <2>4. /\ at' \in Statements /\ last' \in {"never", "completed", "cut off"}
        /\ nftTrait' \subseteq TrueLinks
    BY <1>0 DEF RowsInv, Statements
  <2>5. trait' \in [Traits -> Nat \cup {Null}] /\ nftTrait' = nftTrait
    BY <1>0, <1>1
  <2> HIDE DEF RepairInv
  <2> QED
    BY <2>1, <2>2, <2>3, <2>4, <2>5 DEF RowsInv, CountOf, TrueLinks
<1>4. TenantsInv'
  BY <1>0 DEF TenantsInv, Filled, Linked, Ranked, Late
<1>5. TraitsInv'
  <2>1. next' <= NumTraits /\ \A t \in 1 .. next' - 1 : Done(t)'
    BY <1>0, <1>2 DEF TraitsInv, Traits
  <2> QED
    BY <1>0, <1>1, <2>1 DEF TraitsInv, Linked, Ranked, Late, CountOf
<1>6. RanksInv'
  BY <1>0 DEF RanksInv, Ranked, Late
<1> QED
  BY <1>3, <1>4, <1>5, <1>6 DEF TablesInv

\* nftTrait.upsert; the last one of a trait leaves no tenant of it without its link
\* (seed.ts:98-104).
LEMMA LinkStep == ASSUME SeedInv, RepairInv, Link PROVE TablesInv'
<1> USE SeedAssumption, NullAssumption DEF RepairInv
<1> next \in Traits
  BY DEF SeedInv, RowTypes, TraitsInv, Link, Traits
<1>0. PICK token \in todo : nftTrait' = nftTrait \cup {<<token, next>>} /\ todo' = todo \ {token}
  BY DEF Link
<1>1. /\ at = "links" /\ nft' = nft /\ trait' = trait /\ last' = last
      /\ \/ todo' # {} /\ at' = "links" /\ next' = next
         \/ todo' = {} /\ next < NumTraits /\ at' = "traits" /\ next' = next + 1
         \/ todo' = {} /\ next = NumTraits /\ at' = "rank" /\ next' = 1
  BY DEF Link, Goto, Traits
<1>2. \A t \in Traits : Done(t) => Done(t)'
  BY <1>0, <1>1 DEF Done
<1>3. \A other \in Tokens :
          next \in AttributesOf[other] /\ other \notin todo' => <<other, next>> \in nftTrait'
  BY <1>0, <1>1 DEF TraitsInv
<1>4. ASSUME todo' = {}, NEW t \in Traits, t = next PROVE Done(t)'
  BY <1>1, <1>3, <1>4 DEF Done, TraitsInv
<1>5. RowsInv'
  <2>1. token \in Tokens /\ next \in AttributesOf[token] /\ trait[next] # Null
    BY <1>0, <1>1, CountType DEF TraitsInv
  <2>2. nftTrait' \subseteq TrueLinks
    <3>1. <<token, next>> \in Tokens \X Traits /\ <<token, next>>[1] = token /\ <<token, next>>[2] = next
      BY <2>1
    <3>2. <<token, next>> \in TrueLinks
      BY <2>1, <3>1 DEF TrueLinks
    <3> QED
      BY <1>0, <3>2 DEF RowsInv
  <2>3. \A link \in nftTrait' : trait'[link[2]] # Null
    <3> SUFFICES ASSUME NEW link \in nftTrait' PROVE trait[link[2]] # Null
      BY <1>1
    <3>1. CASE link \in nftTrait
      BY <3>1 DEF RowsInv
    <3>2. CASE link = <<token, next>>
      BY <2>1, <3>2
    <3> QED
      BY <1>0, <3>1, <3>2
  <2> QED
    BY <1>1, <2>2, <2>3 DEF RowsInv, Statements, TrueLinks
<1>6. TenantsInv'
  BY <1>1 DEF TenantsInv, Filled, Linked, Ranked, Late
<1>7. TraitsInv'
  <2>1. \A t \in 1 .. next - 1 : Done(t)'
    BY <1>1, <1>2 DEF TraitsInv, Traits
  <2>2. ASSUME todo' = {}, NEW t \in Traits, t <= next PROVE Done(t)'
    BY <2>1, <2>2, <1>4 DEF Traits
  <2>3. CASE at' = "links"
    BY <1>0, <1>1, <1>3, <2>1, <2>3 DEF TraitsInv, Linked, Ranked, Late, Traits
  <2>4. CASE at' = "traits"
    BY <1>0, <1>1, <2>2, <2>4 DEF TraitsInv, Linked, Ranked, Late, Traits
  <2>5. CASE at' = "rank"
    BY <1>0, <1>1, <2>2, <2>5 DEF TraitsInv, Traits
  <2> QED
    BY <1>1, <2>3, <2>4, <2>5
<1>8. RanksInv'
  BY <1>1 DEF RanksInv, Ranked, Late
<1> QED
  BY <1>5, <1>6, <1>7, <1>8 DEF TablesInv

\* The sort: every tenant has one place in the ranking (seed.ts:112-118).
LEMMA RankStep == ASSUME SeedInv, RepairInv, Rank PROVE TablesInv'
<1> USE SeedAssumption, NullAssumption DEF RepairInv
<1>1. /\ at = "rank" /\ at' = "ranks" /\ next' = 1 /\ last' = last /\ todo' = todo
      /\ Still /\ scored' \in Rankings
  BY DEF Rank, Goto, tables, Still
<1>2. Stored = Tokens
  BY <1>1 DEF TenantsInv, Filled, Linked, Stored
<1>3. 1 .. Cardinality(Stored) = Tokens
  BY <1>2, FS_Interval DEF Tokens
<1>4. Ranking(scored)'
  <2>1. scored' \in [Tokens -> Tokens] /\ DOMAIN scored' = Tokens
    BY <1>1, <1>2, <1>3 DEF Rankings
  <2>2. ASSUME NEW i \in Tokens, NEW j \in Tokens, i < j
        PROVE  scored'[i] # scored'[j] /\ Score(scored'[i]) >= Score(scored'[j])
    BY <1>1, <2>1, <2>2 DEF Rankings
  <2>3. ASSUME NEW s \in Tokens, NEW t \in Tokens, Score(s) >= Score(t)
        PROVE  Score(s)' >= Score(t)'
    BY <1>1, <2>3, StillFacts
  <2> QED
    BY <2>1, <2>2, <2>3 DEF Ranking
<1>5. RowsInv'
  BY <1>1 DEF RowsInv, Statements, Still
<1>6. TenantsInv'
  BY <1>1 DEF TenantsInv, Filled, Linked, Ranked, Late, Still
<1>7. TraitsInv'
  BY <1>1, StillFacts DEF TraitsInv, Linked, Ranked, Late
<1>8. RanksInv'
  BY <1>1, <1>4 DEF RanksInv, Ranked, Late
<1> QED
  BY <1>5, <1>6, <1>7, <1>8 DEF TablesInv

\* A one-to-one ranking of 1 .. TOTAL tenants ranks all of them.
LEMMA RankingComplete ==
  ASSUME NEW order, Ranking(order)
  PROVE  \A t \in Tokens : \E i \in Tokens : order[i] = t
<1>1. IsFiniteSet(Tokens)
  BY SeedAssumption, FS_Interval DEF Tokens
<1>2. order \in Injection(Tokens, Tokens)
  <2>1. \A i, j \in Tokens : i # j => i < j \/ j < i
    BY SeedAssumption DEF Tokens
  <2>2. \A i, j \in Tokens : order[i] = order[j] => i = j
    BY <2>1 DEF Ranking
  <2> QED
    BY <2>2 DEF Ranking, Injection, IsInjective
<1>3. order \in Surjection(Tokens, Tokens)
  BY <1>1, <1>2, FS_Injection
<1> QED
  BY <1>3 DEF Surjection

\* nft.update; the last one completes the ranks (seed.ts:120-125).
LEMMA SetRankStep == ASSUME SeedInv, RepairInv, SetRank PROVE TablesInv'
<1> USE SeedAssumption, NullAssumption DEF RepairInv
<1>0. /\ at = "ranks" /\ trait' = trait /\ nftTrait' = nftTrait /\ last' = last /\ todo' = todo
      /\ Ranking(scored)
      /\ nft' = [nft EXCEPT ![scored[next]].rarityRank = next]
      /\ \A t \in Tokens : nft[t] # Null
  BY DEF SetRank, Loop, Goto, RanksInv, TenantsInv, Filled, Linked
<1>1. /\ next \in Tokens
      /\ \/ next < TOTAL /\ at' = "ranks" /\ next' = next + 1 /\ scored' = scored
         \/ next = TOTAL /\ at' = "demo" /\ next' = 1
  BY DEF SetRank, Loop, Goto, RanksInv, SeedInv, RowTypes, Tokens
<1>2. scored \in [Tokens -> Tokens] /\ \A i, j \in Tokens : i < j => scored[i] # scored[j]
  BY <1>0 DEF Ranking
<1>3. \A t \in Tokens : nft[t] \in NftRow /\ nft[t].ownerAddress = OwnerOf[t]
  BY <1>0 DEF RowsInv
<1>4. \A t \in Tokens :
          /\ nft'[t] \in NftRow
          /\ nft'[t].ownerAddress = OwnerOf[t]
          /\ nft'[t].rarityRank = IF t = scored[next] THEN next ELSE nft[t].rarityRank
  <2> SUFFICES ASSUME NEW t \in Tokens
               PROVE  /\ nft'[t] \in NftRow
                      /\ nft'[t].ownerAddress = OwnerOf[t]
                      /\ nft'[t].rarityRank = IF t = scored[next] THEN next ELSE nft[t].rarityRank
    OBVIOUS
  <2>1. nft \in [Tokens -> NftRow \cup {Null}] /\ scored[next] \in Tokens
    BY <1>1, <1>2 DEF RowsInv
  <2>2. CASE t = scored[next]
    <3>1. nft'[t] = [nft[t] EXCEPT !.rarityRank = next]
      BY <1>0, <2>1, <2>2
    <3>2. nft[t] \in NftRow /\ nft[t].ownerAddress = OwnerOf[t]
      BY <1>3
    <3> QED
      BY <1>1, <2>2, <3>1, <3>2 DEF NftRow
  <2>3. CASE t # scored[next]
    BY <1>0, <1>3, <2>1, <2>3
  <2> QED
    BY <2>2, <2>3
<1>5. nft' \in [Tokens -> NftRow \cup {Null}]
  <2>1. DOMAIN nft' = Tokens /\ nft' = [t \in DOMAIN nft' |-> nft'[t]]
    BY <1>0 DEF RowsInv
  <2> QED
    BY <1>4, <2>1
<1>6. \A t \in Tokens : nft'[t] # Null
  BY <1>4
<1>7. \A i \in 1 .. next : nft'[scored[i]].rarityRank = i
  <2>1. \A i \in 1 .. next - 1 : i \in Tokens /\ scored[i] # scored[next]
    BY <1>1, <1>2 DEF Tokens
  <2>2. \A i \in 1 .. next - 1 : nft'[scored[i]].rarityRank = i
    BY <2>1, <1>0, <1>2, <1>4 DEF RanksInv
  <2>3. nft'[scored[next]].rarityRank = next
    BY <1>1, <1>2, <1>4
  <2> QED
    BY <1>1, <2>2, <2>3 DEF Tokens
<1>8. RowsInv'
  <2>0. \A t \in Tokens : 1 .. t \subseteq Tokens
    BY DEF Tokens
  <2>1. \A t \in Tokens : nft'[t].ownerAddress = OwnerOf[t] /\ \A s \in 1 .. t : nft'[s] # Null
    BY <1>4, <1>6, <2>0
  <2> QED
    BY <1>0, <1>1, <1>5, <2>1 DEF RowsInv, Statements, TrueLinks
<1>9. TenantsInv'
  BY <1>1, <1>6 DEF TenantsInv
<1>10. TraitsInv'
  <2>1. \A t \in Traits : Done(t)'
    BY <1>0 DEF TraitsInv, Done, Linked
  <2> QED
    BY <1>0, <1>1, <2>1 DEF TraitsInv
<1>11. \A t \in Tokens : Score(t)' = Score(t)
  BY <1>0 DEF Score
<1>12. RanksInv'
  <2>1. CASE next < TOTAL
    <3>1. Ranking(scored)'
      BY <1>0, <1>1, <1>11, <2>1 DEF Ranking
    <3> QED
      BY <1>1, <1>7, <2>1, <3>1 DEF RanksInv, Ranked, Late, Tokens
  <2>2. CASE next = TOTAL
    <3>1. \A t \in Tokens : \E i \in Tokens : scored[i] = t
      BY <1>0, RankingComplete
    <3>2. \A i \in Tokens : nft'[scored[i]].rarityRank = i
      BY <1>7, <2>2 DEF Tokens
    <3>3. {nft'[t].rarityRank : t \in Tokens} = Tokens
      BY <3>1, <3>2, <1>2
    <3>4. ASSUME NEW s \in Tokens, NEW t \in Tokens, nft'[s].rarityRank < nft'[t].rarityRank
          PROVE  Score(s) >= Score(t)
      <4>1. PICK i \in Tokens, j \in Tokens : scored[i] = s /\ scored[j] = t
        BY <3>1
      <4>2. i < j
        BY <4>1, <3>2, <3>4
      <4> QED
        BY <4>1, <4>2, <1>0 DEF Ranking
    <3>5. RanksFollowScores'
      BY <3>3, <3>4, <1>11 DEF RanksFollowScores
    <3> QED
      BY <1>1, <2>2, <3>5 DEF RanksInv
  <2> QED
    BY <1>1, <2>1, <2>2 DEF Tokens
<1> QED
  BY <1>8, <1>9, <1>10, <1>12 DEF TablesInv

\* The statements after the ranks leave the catalogue alone (seed.ts:128-234).
LEMMA LateStep ==
  ASSUME SeedInv, RepairInv,
         \/ User("demo", "demo", "second") \/ User("second", "second", "stake")
         \/ Stake \/ Reward \/ Raffle \/ CountEntries \/ CreateEntry \/ SetEntryCount \/ Person
  PROVE  TablesInv'
<1> USE DEF RepairInv
<1>1. /\ Still /\ todo' = todo
      /\ at \in Late /\ at' \in Late \cup {"idle"}
      /\ last' \in {"never", "completed", "cut off"}
  <2>1. CASE User("demo", "demo", "second") \/ User("second", "second", "stake")
    BY <2>1 DEF User, Goto, Still, Late, RowsInv
  <2>2. CASE Stake \/ Reward
    BY <2>2 DEF Stake, Reward, Goto, Still, Late, RowsInv
  <2>3. CASE Raffle \/ CountEntries
    BY <2>3 DEF Raffle, CountEntries, Goto, tables, Still, Late, RowsInv
  <2>4. CASE CreateEntry \/ SetEntryCount
    BY <2>4 DEF CreateEntry, SetEntryCount, Loop, Goto, Still, Late, RowsInv
  <2>5. CASE Person
    BY <2>5 DEF Person, Still, Late, RowsInv
  <2> QED
    BY <2>1, <2>2, <2>3, <2>4, <2>5
<1>2. RowsInv'
  BY <1>1 DEF RowsInv, Still, Statements, Late
<1>3. TenantsInv'
  BY <1>1 DEF TenantsInv, Filled, Linked, Ranked, Late, Still
<1>4. TraitsInv'
  BY <1>1, StillFacts DEF TraitsInv, Linked, Ranked, Late
<1>5. RanksInv'
  BY <1>1, StillFacts DEF RanksInv, Ranked, Late
<1> QED
  BY <1>2, <1>3, <1>4, <1>5 DEF TablesInv

\* A run that starts, or is cut off, promises nothing yet, or any more.
LEMMA EdgeStep == ASSUME SeedInv, RepairInv, Start \/ CutOff PROVE TablesInv'
<1> USE SeedAssumption DEF RepairInv
<1>1. /\ Still /\ todo' \subseteq Tokens
      /\ \/ at' = "tenants" /\ next' = 1 /\ last' = last
         \/ at' = "idle" /\ last' = "cut off"
  BY DEF Start, CutOff, tables, Still, TraitsInv
<1>2. RowsInv'
  BY <1>1 DEF RowsInv, Still, Statements
<1>3. TenantsInv'
  <2>1. at' \notin Filled'
    BY <1>1 DEF Filled, Linked, Ranked, Late
  <2>2. at' = "tenants" => next' <= TOTAL /\ 1 .. next' - 1 = {}
    BY <1>1
  <2> QED
    BY <2>1, <2>2 DEF TenantsInv
<1>4. TraitsInv'
  BY <1>1 DEF TraitsInv, Linked, Ranked, Late
<1>5. RanksInv'
  BY <1>1 DEF RanksInv, Ranked, Late
<1> QED
  BY <1>2, <1>3, <1>4, <1>5 DEF TablesInv

\* The server writes stakes and raffles only, and leaves the script where it is.
LEMMA ServerStep ==
  ASSUME SeedInv, RepairInv, Enter \/ StakeOwn \/ UNCHANGED vars
  PROVE  TablesInv'
<1> USE DEF RepairInv
<1>1. Still /\ UNCHANGED <<at, next, todo, scored, last>>
  BY DEF Enter, StakeOwn, vars, script, Still
<1>2. RowsInv'
  BY <1>1 DEF RowsInv, Still
<1>3. TenantsInv'
  BY <1>1 DEF TenantsInv, Filled, Linked, Ranked, Still
<1>4. TraitsInv'
  <2>1. next \in Nat \ {0} /\ (next <= NumTraits => 1 .. next - 1 \subseteq Traits)
    BY SeedAssumption DEF SeedInv, RowTypes, Traits
  <2>2. \A t \in Traits : Done(t)' <=> Done(t)
    BY <1>1, StillFacts
  <2>3. at \in {"traits", "links"} => next <= NumTraits /\ \A t \in 1 .. next - 1 : Done(t)'
    BY <2>1, <2>2 DEF TraitsInv
  <2>4. at \in Linked => \A t \in Traits : Done(t)'
    BY <2>2 DEF TraitsInv
  <2>5. at = "links" => trait'[next] = CountOf(next)
    BY <1>1 DEF TraitsInv, Still
  <2>6. Linked' = Linked /\ CountOf(next)' = CountOf(next)
    BY <1>1 DEF Linked, Ranked, CountOf
  <2> QED
    BY <1>1, <2>3, <2>4, <2>5, <2>6 DEF TraitsInv, Still
<1>5. RanksInv'
  <2>1. Ranking(scored) => Ranking(scored)'
    BY <1>1, StillFacts DEF Ranking
  <2> QED
    BY <1>1, <2>1, StillFacts DEF RanksInv, Ranked, Still
<1> QED
  BY <1>2, <1>3, <1>4, <1>5 DEF TablesInv

\* Users, the raffle and the people are never removed, and the statements run in
\* their order.
LEMMA OthersStep == ASSUME SeedInv, RepairInv, [Next]_vars PROVE OthersInv'
<1> USE SeedAssumption, NullAssumption DEF RepairInv, Late, Ranked
<1> next \in Nat \ {0}
  BY DEF SeedInv, RowTypes
<1>1. CASE Tenant \/ Trait \/ Link \/ Rank \/ SetRank
  <2>1. /\ users' = users /\ people' = people
        /\ at' \in {"tenants", "traits", "links", "rank", "ranks", "demo"}
    BY <1>1 DEF Tenant, Trait, Link, Rank, SetRank, Loop, Goto, tables
  <2> QED
    BY <2>1 DEF OthersInv
<1>2. CASE User("demo", "demo", "second")
  BY <1>2 DEF User, Goto, OthersInv
<1>3. CASE User("second", "second", "stake")
  BY <1>3 DEF User, Goto, OthersInv
<1>4. CASE Stake \/ Reward
  BY <1>4 DEF Stake, Reward, Goto, OthersInv
<1>5. CASE Raffle \/ CountEntries \/ CreateEntry \/ SetEntryCount
  <2>1. /\ users' = users /\ people' = people /\ raffle' # Null
    BY <1>5 DEF Raffle, CountEntries, CreateEntry, SetEntryCount, tables, SeedInv, RowTypes,
                EntriesInv, RaffleRow
  <2>2. at' \in {"count", "entries", "counter", "people"} /\ (at' = "people" => next' = 1)
    BY <1>5 DEF Raffle, CountEntries, CreateEntry, SetEntryCount, Loop, Goto
  <2>3. at \in {"raffle", "count", "entries", "counter"}
    BY <1>5 DEF Raffle, CountEntries, CreateEntry, SetEntryCount
  <2> QED
    BY <2>1, <2>2, <2>3 DEF OthersInv
<1>6. CASE Person
  <2>1. at = "people" /\ users' = users /\ raffle' = raffle /\ next \in People
    BY <1>6 DEF Person, OthersInv, People
  <2>2. people' \subseteq People /\ 1 .. next \subseteq people'
    BY <1>6, <2>1 DEF Person, OthersInv, People
  <2>3. CASE next < NumPeople
    BY <1>6, <2>1, <2>2, <2>3 DEF Person, OthersInv
  <2>4. CASE next = NumPeople
    <3>1. people' = People /\ at' = "idle" /\ last' = "completed"
      <4>1. 1 .. next = People
        BY <2>4 DEF People
      <4>2. people' = People
        BY <2>2, <4>1
      <4> QED
        BY <1>6, <2>4, <4>2 DEF Person
    <3> QED
      BY <2>1, <3>1 DEF OthersInv
  <2> QED
    BY <2>1, <2>3, <2>4 DEF People
<1>7. CASE Start \/ CutOff
  <2>1. /\ users' = users /\ people' = people
        /\ at' = "tenants" \/ (at' = "idle" /\ last' = "cut off")
    BY <1>7 DEF Start, CutOff, tables
  <2> QED
    BY <2>1 DEF OthersInv
<1>8. CASE Enter
  <2>1. /\ raffle \in RaffleRow
        /\ raffle' = [entryCount |-> raffle.entryCount + 1, seeded |-> raffle.seeded,
                      entered |-> raffle.entered + 1]
    <3>1. raffle \in RaffleRow /\ raffle' = [raffle EXCEPT !.entered = @ + 1, !.entryCount = @ + 1]
      BY <1>8 DEF Enter, SeedInv, RowTypes
    <3> QED
      BY <3>1 DEF RaffleRow
  <2>2. raffle' # Null
    BY <2>1 DEF RaffleRow
  <2>3. users' = users /\ people' = people /\ at' = at /\ next' = next /\ last' = last
    BY <1>8 DEF Enter, script
  <2> QED
    BY <2>2, <2>3 DEF OthersInv
<1>9. CASE StakeOwn \/ UNCHANGED vars
  BY <1>9 DEF StakeOwn, script, vars, OthersInv
<1> QED
  BY <1>1, <1>2, <1>3, <1>4, <1>5, <1>6, <1>7, <1>8, <1>9 DEF Next

\* Every step of the script and of the server preserves what runs have made sure of.
LEMMA RepairNext == SeedInv /\ RepairInv /\ [Next]_vars => RepairInv'
<1> SUFFICES ASSUME SeedInv, RepairInv, [Next]_vars PROVE RepairInv'
  OBVIOUS
<1>1. TablesInv'
  BY TenantStep, TraitStep, LinkStep, RankStep, SetRankStep, LateStep, EdgeStep, ServerStep
     DEF Next
<1> QED
  BY <1>1, OthersStep DEF RepairInv, TablesInv

\* The invariant of the repair holds in every reachable state.
THEOREM RepairInvariant == Spec => []RepairInv
  BY RepairInit, RepairNext, SeedInvariant, PTL DEF Spec

\* A run that completes has repaired whatever earlier runs left half done: all
\* tenants, exactly their links, the counts, the ranks 1 .. TOTAL in the order of
\* the scores, users, raffle and people (seed.ts:6-7, 42-234).
THEOREM Repairs == Spec => []CompletedRunRepairs
<1>1. SeedInv /\ RepairInv => CompletedRunRepairs
  <2> SUFFICES ASSUME SeedInv, RepairInv, at = "idle", last = "completed"
               PROVE  /\ Stored = Tokens
                      /\ nftTrait = TrueLinks
                      /\ \A t \in Traits : trait[t] = Cardinality(LinkedTo(t))
                      /\ RanksFollowScores
                      /\ users = {"demo", "second"} /\ people = People /\ raffle # Null
    BY DEF CompletedRunRepairs, TrueLinks
  <2> USE DEF RepairInv, Filled, Linked, Ranked
  <2>1. Stored = Tokens
    BY DEF TenantsInv, Stored
  <2>2. \A t \in Traits : Done(t)
    BY DEF TraitsInv
  <2>3. TrueLinks \subseteq nftTrait
    BY <2>2 DEF Done, TrueLinks
  <2>4. ASSUME NEW t \in Traits PROVE LinkedTo(t) = {token \in Tokens : t \in AttributesOf[token]}
    <3>1. \A token \in Tokens : <<token, t>> \in TrueLinks <=> t \in AttributesOf[token]
      BY DEF TrueLinks
    <3> QED
      BY <3>1, <2>3 DEF LinkedTo, RowsInv
  <2>5. \A t \in Traits : trait[t] = Cardinality(LinkedTo(t))
    BY <2>2, <2>4 DEF Done, CountOf
  <2>6. users = {"demo", "second"} /\ people = People /\ raffle # Null
    BY DEF OthersInv
  <2> QED
    BY <2>1, <2>3, <2>5, <2>6 DEF RowsInv, RanksInv
<1> QED
  BY <1>1, SeedInvariant, RepairInvariant, PTL

\* The two flags of the model.
FlagsInv == runs \in 0 .. MaxRuns /\ disturbed \in BOOLEAN

\* Every row and every local variable of the script keeps its type: a rank, above
\* all, is a number from 1 to TOTAL or not yet there (seed.ts:118-125).
THEOREM SeedTypeCorrect == Spec => []TypeOK
<1>1. Init => FlagsInv
  <2>1. Init => runs \in 0 .. MaxRuns
    BY SeedAssumption DEF Init
  <2>2. Init => disturbed \in BOOLEAN
    BY Zenon DEF Init
  <2> QED
    BY <2>1, <2>2 DEF FlagsInv
<1>2. FlagsInv /\ [Next]_vars => FlagsInv'
  <2> SUFFICES ASSUME FlagsInv, [Next]_vars PROVE FlagsInv'
    OBVIOUS
  <2> USE SeedAssumption DEF FlagsInv
  <2>1. CASE Start
    BY <2>1 DEF Start
  <2>2. CASE Tenant \/ Trait \/ Link \/ Rank \/ SetRank
    BY <2>2 DEF Tenant, Trait, Link, Rank, SetRank, Loop, Goto
  <2>3. CASE User("demo", "demo", "second") \/ User("second", "second", "stake")
    BY <2>3 DEF User, Goto
  <2>4. CASE Stake \/ Reward \/ Raffle \/ CountEntries \/ CreateEntry \/ SetEntryCount
    BY <2>4 DEF Stake, Reward, Raffle, CountEntries, CreateEntry, SetEntryCount, Loop, Goto
  <2>5. CASE Person
    BY <2>5 DEF Person
  <2>6. CASE CutOff
    <3>1. runs' = runs /\ disturbed' \in BOOLEAN
      BY <2>6 DEF CutOff
    <3> QED
      BY <3>1
  <2>7. CASE Enter
    <3>1. runs' = runs /\ disturbed' \in BOOLEAN
      BY <2>7 DEF Enter, script
    <3> QED
      BY <3>1
  <2>8. CASE StakeOwn \/ UNCHANGED vars
    BY <2>8 DEF StakeOwn, script, vars
  <2> QED
    BY <2>1, <2>2, <2>3, <2>4, <2>5, <2>6, <2>7, <2>8 DEF Next
<1>3. SeedInv /\ RepairInv /\ FlagsInv => TypeOK
  BY DEF SeedInv, RowTypes, RepairInv, RowsInv, TraitsInv, OthersInv, FlagsInv, TypeOK, TrueLinks
<1> QED
  BY <1>1, <1>2, <1>3, SeedInvariant, RepairInvariant, PTL DEF Spec
=============================================================================
