-------------------------------- MODULE Seed --------------------------------
(***************************************************************************)
(* prisma/seed.ts, statement by statement.  The script uses no             *)
(* transaction: each statement commits on its own, the process may be cut  *)
(* off between any two of them, and it is then simply run again, while the *)
(* server may already be answering.  Runs do not overlap: it is started by *)
(* hand.                                                                   *)
(*                                                                         *)
(* Nothing else in the repository writes tenants, traits or ranks, so this *)
(* module owns these tables; module Catalogue reads them.                  *)
(***************************************************************************)
EXTENDS Integers, FiniteSets, FiniteSetsExt

CONSTANTS
    TOTAL,         \* tenants: 1 .. TOTAL
    NumTraits,     \* traits, numbered in the order of traitCounts
    AttributesOf,  \* the traits in the metadata of a tenant
    OwnerOf,       \* ownerAddress a tenant is created with, Null for none
    SeedEntries,   \* entries for the ticket strip (4)
    NumPeople,     \* artists and team
    MaxRuns,       \* bound: runs of the script
    MaxEntered,    \* bound: entries through the server
    Null

Tokens == 1 .. TOTAL
Traits == 1 .. NumTraits
People == 1 .. NumPeople

\* Every tenant has attributes, and a trait is counted when a tenant has it.
ASSUME SeedAssumption ==
    /\ TOTAL \in Nat \ {0} /\ NumTraits \in Nat \ {0}
    /\ AttributesOf \in [Tokens -> SUBSET Traits]
    /\ \A t \in Traits : \E token \in Tokens : t \in AttributesOf[token]
    /\ DOMAIN OwnerOf = Tokens
    /\ SeedEntries \in Nat \ {0} /\ NumPeople \in Nat \ {0}
    /\ MaxRuns \in Nat /\ MaxEntered \in Nat
    /\ Null \notin Nat

VARIABLES
    nft,       \* the row of a tenant, Null for none
    trait,     \* count of a trait's row, Null for none
    nftTrait,  \* rows of nft_traits
    users,     \* the seeded rows of users
    lock,      \* seeded stakes, the ledger rows that pay them, a stake of the demo wallet's own
    raffle,    \* the seeded raffle: its entryCount, its seeded and its other entries; or Null
    people,    \* rows of people
    at, next, todo, scored,  \* the statement a run is about to execute, and its local variables
    runs,      \* runs started
    last,      \* how the last run ended
    disturbed  \* a run was cut off, or overtaken by the server, where that leaves traces

tables == <<nft, trait, nftTrait, users, lock, raffle, people>>
script == <<at, next, todo, scored, runs, last>>
vars == <<nft, trait, nftTrait, users, lock, raffle, people,
          at, next, todo, scored, runs, last, disturbed>>
-----------------------------------------------------------------------------
NftRow == [ownerAddress : {OwnerOf[t] : t \in Tokens}, rarityRank : Tokens \cup {Null}]
LockRow == [stakes : Nat, rewards : Nat, own : BOOLEAN]
RaffleRow == [entryCount : Nat, seeded : Nat, entered : Nat]

ASSUME NullAssumption == Null \notin NftRow \cup RaffleRow

Statements == {"idle", "tenants", "traits", "links", "rank", "ranks", "demo", "second",
               "stake", "reward", "raffle", "count", "entries", "counter", "people"}

Stored == {t \in Tokens : nft[t] # Null}
LinkedTo(t) == {token \in Tokens : <<token, t>> \in nftTrait}

\* traitCounts: how many tenants the script gives a trait to
CountOf(t) == Cardinality({token \in Tokens : t \in AttributesOf[token]})

(***************************************************************************)
(* Rarity.  A tenant scores the sum of 1 / rarity = TOTAL / count over its *)
(* linked traits; the counts are those of the script, multiplied out here. *)
(***************************************************************************)
AllCounts == ProductSet({CountOf(t) : t \in Traits})
ScoreOf(token, links) == MapThenSumSet(LAMBDA t : AllCounts \div CountOf(t),
                                       {t \in Traits : <<token, t>> \in links})
Score(token) == ScoreOf(token, nftTrait)

\* sort by score: the rows come in no particular order, so ties end in any order
Rankings ==
    {ranking \in [1 .. Cardinality(Stored) -> Stored] :
        \A i, j \in DOMAIN ranking :
            i < j => ranking[i] # ranking[j] /\ Score(ranking[i]) >= Score(ranking[j])}
-----------------------------------------------------------------------------
Goto(statement, index) ==
    /\ at' = statement
    /\ next' = index
    /\ UNCHANGED <<runs, last, disturbed>>

\* One round of a loop over 1 .. size is done.
Loop(size, after) == IF next < size THEN Goto(at, next + 1) ELSE Goto(after, 1)

Start ==
    /\ at = "idle" /\ runs < MaxRuns
    /\ at' = "tenants" /\ next' = 1
    /\ runs' = runs + 1
    /\ UNCHANGED <<tables, todo, scored, last, disturbed>>

\* nft.upsert, with nothing to update
Tenant ==
    /\ at = "tenants"
    /\ nft' = IF nft[next] # Null THEN nft
              ELSE [nft EXCEPT ![next] = [ownerAddress |-> OwnerOf[next], rarityRank |-> Null]]
    /\ Loop(TOTAL, "traits")
    /\ UNCHANGED <<trait, nftTrait, users, lock, raffle, people, todo, scored>>

\* Mutant of Trait: a trait that is stored already is skipped with its links.
TraitOnce ==
    /\ at = "traits"
    /\ trait' = [trait EXCEPT ![next] = CountOf(next)]
    /\ IF trait[next] = Null
       THEN todo' = {token \in Stored : next \in AttributesOf[token]} /\ Goto("links", next)
       ELSE todo' = {} /\ Loop(NumTraits, "rank")
    /\ UNCHANGED <<nft, nftTrait, users, lock, raffle, people, scored>>

\* trait.upsert, which sets the count, and findMany of the tenants to link
Trait ==
    /\ at = "traits"
    /\ trait' = [trait EXCEPT ![next] = CountOf(next)]
    /\ todo' = {token \in Stored : next \in AttributesOf[token]}
    /\ Goto("links", next)
    /\ UNCHANGED <<nft, nftTrait, users, lock, raffle, people, scored>>

\* nftTrait.upsert, in the order findMany happened to answer
Link ==
    /\ at = "links"
    /\ \E token \in todo :
           /\ nftTrait' = nftTrait \cup {<<token, next>>}
           /\ todo' = todo \ {token}
    /\ IF todo' # {} THEN Goto("links", next)
       ELSE IF next < NumTraits THEN Goto("traits", next + 1) ELSE Goto("rank", 1)
    /\ UNCHANGED <<nft, trait, users, lock, raffle, people, scored>>

\* findMany with the traits, and the sort
Rank ==
    /\ at = "rank"
    /\ scored' \in Rankings
    /\ Goto("ranks", 1)
    /\ UNCHANGED <<tables, todo>>

\* Mutant of SetRank: the index is stored as the rank.
SetRankFromZero ==
    /\ at = "ranks"
    /\ nft' = [nft EXCEPT ![scored[next]].rarityRank = next - 1]
    /\ Loop(TOTAL, "demo")
    /\ scored' = IF next < TOTAL THEN scored ELSE Null
    /\ UNCHANGED <<trait, nftTrait, users, lock, raffle, people, todo>>

\* nft.update, one tenant after the other
SetRank ==
    /\ at = "ranks"
    /\ nft' = [nft EXCEPT ![scored[next]].rarityRank = next]
    /\ Loop(TOTAL, "demo")
    /\ scored' = IF next < TOTAL THEN scored ELSE Null
    /\ UNCHANGED <<trait, nftTrait, users, lock, raffle, people, todo>>

\* user.upsert, twice
User(wallet, from, to) ==
    /\ at = from
    /\ users' = users \cup {wallet}
    /\ Goto(to, 1)
    /\ UNCHANGED <<nft, trait, nftTrait, lock, raffle, people, todo, scored>>

\* findFirst: any stake of the demo wallet on tenant 1 counts; else stake.create.
\* The two are one step: the row has no activeNftId that could be refused, and a
\* stake the wallet makes between them leaves what it leaves just after them.
Stake ==
    /\ at = "stake"
    /\ IF lock.stakes > 0 \/ lock.own
       THEN UNCHANGED lock /\ Goto("raffle", 1)
       ELSE lock' = [lock EXCEPT !.stakes = @ + 1] /\ Goto("reward", 1)
    /\ UNCHANGED <<nft, trait, nftTrait, users, raffle, people, todo, scored>>

\* ticketLedger.create
Reward ==
    /\ at = "reward"
    /\ lock' = [lock EXCEPT !.rewards = @ + 1]
    /\ Goto("raffle", 1)
    /\ UNCHANGED <<nft, trait, nftTrait, users, raffle, people, todo, scored>>

\* raffle.upsert, with nothing to update
Raffle ==
    /\ at = "raffle"
    /\ raffle' = IF raffle # Null THEN raffle
                 ELSE [entryCount |-> 0, seeded |-> 0, entered |-> 0]
    /\ Goto("count", 1)
    /\ UNCHANGED <<nft, trait, nftTrait, users, lock, people, todo, scored>>

\* Mutant of CountEntries: the entries are created by every run.
CountEntriesNot ==
    /\ at = "count"
    /\ Goto("entries", 1)
    /\ UNCHANGED <<tables, todo, scored>>

\* Mutant of CountEntries: a run completes the entries of an earlier one.
CountEntriesFewer ==
    /\ at = "count"
    /\ Goto(IF raffle.seeded + raffle.entered < SeedEntries THEN "entries" ELSE "people", 1)
    /\ UNCHANGED <<tables, todo, scored>>

\* raffleEntry.count: entries are created only for a raffle that has none
CountEntries ==
    /\ at = "count"
    /\ Goto(IF raffle.seeded + raffle.entered = 0 THEN "entries" ELSE "people", 1)
    /\ UNCHANGED <<tables, todo, scored>>

\* raffleEntry.create
CreateEntry ==
    /\ at = "entries"
    /\ raffle' = [raffle EXCEPT !.seeded = @ + 1]
    /\ Loop(SeedEntries, "counter")
    /\ UNCHANGED <<nft, trait, nftTrait, users, lock, people, todo, scored>>

\* raffle.update: a number, not an increment
SetEntryCount ==
    /\ at = "counter"
    /\ raffle' = [raffle EXCEPT !.entryCount = SeedEntries]
    /\ Goto("people", 1)
    /\ UNCHANGED <<nft, trait, nftTrait, users, lock, people, todo, scored>>

\* person.upsert; after the last one the run is over
Person ==
    /\ at = "people"
    /\ people' = people \cup {next}
    /\ at' = IF next < NumPeople THEN "people" ELSE "idle"
    /\ next' = IF next < NumPeople THEN next + 1 ELSE 1
    /\ last' = IF next < NumPeople THEN last ELSE "completed"
    /\ UNCHANGED <<nft, trait, nftTrait, users, lock, raffle, todo, scored, runs, disturbed>>

\* The process ends, or a statement fails, and main is rejected.
CutOff ==
    /\ at # "idle"
    /\ at' = "idle" /\ next' = 1 /\ todo' = {} /\ scored' = Null
    /\ last' = "cut off"
    /\ disturbed' = (disturbed \/ at \in {"reward", "counter"} \/ (at = "entries" /\ next > 1))
    /\ UNCHANGED <<tables, runs>>
-----------------------------------------------------------------------------
(***************************************************************************)
(* The server, as far as it writes what the script reads.                  *)
(***************************************************************************)
\* An entry commits (module RaffleEntry): its row, and entryCount + 1.
Enter ==
    /\ raffle # Null /\ raffle.entered < MaxEntered
    /\ raffle' = [raffle EXCEPT !.entered = @ + 1, !.entryCount = @ + 1]
    /\ disturbed' = (disturbed \/ at \in {"entries", "counter"})
    /\ UNCHANGED <<nft, trait, nftTrait, users, lock, people, script>>

\* The demo wallet stakes tenant 1 itself (module Staking).
StakeOwn ==
    /\ "demo" \in users /\ nft[1] # Null /\ ~lock.own
    /\ lock' = [lock EXCEPT !.own = TRUE]
    /\ UNCHANGED <<nft, trait, nftTrait, users, raffle, people, script, disturbed>>
-----------------------------------------------------------------------------
Init ==
    /\ nft = [t \in Tokens |-> Null]
    /\ trait = [t \in Traits |-> Null]
    /\ nftTrait = {}
    /\ users = {}
    /\ lock = [stakes |-> 0, rewards |-> 0, own |-> FALSE]
    /\ raffle = Null
    /\ people = {}
    /\ at = "idle" /\ next = 1 /\ todo = {} /\ scored = Null
    /\ runs = 0
    /\ last = "never"
    /\ disturbed = FALSE

Next ==
    \/ Start
    \/ Tenant \/ Trait \/ Link \/ Rank \/ SetRank
    \/ User("demo", "demo", "second") \/ User("second", "second", "stake")
    \/ Stake \/ Reward
    \/ Raffle \/ CountEntries \/ CreateEntry \/ SetEntryCount
    \/ Person
    \/ CutOff
    \/ Enter \/ StakeOwn

Spec == Init /\ [][Next]_vars
-----------------------------------------------------------------------------
TypeOK ==
    /\ nft \in [Tokens -> NftRow \cup {Null}]
    /\ trait \in [Traits -> Nat \cup {Null}]
    /\ nftTrait \subseteq Tokens \X Traits
    /\ users \subseteq {"demo", "second"}
    /\ lock \in LockRow
    /\ raffle \in RaffleRow \cup {Null}
    /\ people \subseteq People
    /\ at \in Statements /\ next \in Nat \ {0} /\ todo \subseteq Tokens
    /\ runs \in 0 .. MaxRuns
    /\ last \in {"never", "completed", "cut off"}
    /\ disturbed \in BOOLEAN

\* seed.ts:6-7: "everything upserts, so npm run db:seed twice does not duplicate
\* rows".  The stake, its reward and the entries are created, not upserted: each
\* hangs on a read made some statements earlier, and still none comes twice,
\* wherever earlier runs were cut off.
NothingTwice ==
    /\ lock.stakes <= 1 /\ lock.rewards <= lock.stakes
    /\ raffle # Null => raffle.seeded <= SeedEntries

\* seed.ts:6: "Re-runnable": a run that completes repairs what earlier runs left
\* half done: every tenant with exactly its traits, traits with their counts, and
\* ranks 1 .. TOTAL in the order of the scores, also if the script was cut off
\* between two ranks.
RanksFollowScores ==
    /\ {nft[t].rarityRank : t \in Tokens} = Tokens
    /\ \A s, t \in Tokens : nft[s].rarityRank < nft[t].rarityRank => Score(s) >= Score(t)
CompletedRunRepairs ==
    at = "idle" /\ last = "completed" =>
        /\ Stored = Tokens
        /\ nftTrait = {link \in Tokens \X Traits : link[2] \in AttributesOf[link[1]]}
        /\ \A t \in Traits : trait[t] = Cardinality(LinkedTo(t))
        /\ RanksFollowScores
        /\ users = {"demo", "second"} /\ people = People /\ raffle # Null

\* What no later run repairs: a lock without its reward, a raffle whose counter is
\* not the number of its entries.  Between runs both are right, unless a run was
\* cut off in one of two places or the server took an entry while the script was
\* creating its own (seed.ts:155-178, 205-219).
SoundUnlessDisturbed ==
    at = "idle" /\ ~disturbed =>
        /\ lock.rewards = lock.stakes
        /\ raffle # Null => raffle.entryCount = raffle.seeded + raffle.entered
=============================================================================
