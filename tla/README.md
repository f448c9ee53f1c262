# Loud House backend: a verification project in TLA+

The program is a NestJS service over PostgreSQL. Holders of NFTs ("tenants")
lock them in a vault for a number of days and earn tickets; tickets buy entries
to raffles; an operator draws each raffle by a commit-reveal scheme that anyone
can verify. The state is a handful of tables; what is hard is that every request
is a sequence of awaited statements, that PostgreSQL runs at READ COMMITTED, and
that the owner of a tenant is decided on a chain the server can only read.

Paths are relative to the repository (`src/` below is the repository's own
`src/` directory, so `raffles.service.ts` is `src/modules/raffles/raffles.service.ts`).

## 1. Inventory

| Component | State | Operations | Interacts with | What makes it correct |
| --- | --- | --- | --- | --- |
| Ticket ledger, `tickets.service.ts` | `ticket_ledger`, append only | `getBalance`, `credit`, `debit`, `lockUser`, `getHistory` | called inside the transactions of the vault and the raffles | a balance is the sum of the rows and is never negative; one row per stake and per entry |
| Entering, `raffles.service.ts` `enter` | `raffle_entries`, `raffles.entryCount`, the sequence of `entryNumber`, row locks | `enter` | ledger (`debit`), chain (`assertHoldsAny`) | every entry is paid once, counted once, under its cap; no request waits forever |
| Draw, `raffles.service.ts` `create`, `runDraw`, `verifyDraw` and `draw.service.ts` | status, times, seed commitment and result columns of `raffles` | `create`, `runDraw`, `verifyDraw` | entries that still commit; the latest block of the chain | the winner is who the published hash selects, the result verifies unless a known race spoils it, and it appears in the end; the seed stays hidden while the raffle is open |
| Vault, `staking.service.ts` | `stakes` with the unique slot `activeNftId` | `stake`, `unstake` | chain (`assertOwns`), ledger (`credit`) | a tenant is in one active lock; a lock pays once, if it matured and is still held; no tenant is stranded |
| Chain gateway, `ownership.service.ts` | none | `assertOwns`, `assertHoldsAny`, `getLatestBlock` | vault, entering, draw | refuses when the node does not answer, except for the draw, which goes on without a block |
| Sign-in, `auth.service.ts`, `jwt.strategy.ts`, guards | nonce and expiry in `users`, bans, issued tokens | `issueNonce`, `verifySignature`, `validate` | every request | a signature that has signed in is refused by every verification that begins later; nonce and expiry belong together; a ban takes effect at the next request |
| Catalogue, `collection.service.ts`, `pagination.dto.ts` | none | `findAll`, `getTraitFilters`, `getStats`, `findByTokenId` | reads `nfts`, `traits`, `nft_traits` | the pages cover the listing; a page and its total fit together; a walk through the pages misses nothing |
| Seed script, `prisma/seed.ts` | the only writer of tenants, traits, links and ranks; a demo stake, a raffle with entries | `main`, run by hand and again | the server may already run | a run that is repeated duplicates nothing and repairs what was cut off |
| Other reads: `getVault`, `listHistory`, `getHistory`, `listRecentEntries`, `getMyEntries` | none | several queries per answer | all tables | figures were right at some moment |
| Exception filter | none | maps database errors to answers | all | a deadlock or a unique index becomes an answer the client may retry |
| Controllers, DTO validation, configuration | none | | | their bounds are assumptions on constants |

Hard behaviours: concurrent requests of one user (double click, two tabs); the
lock order of a transaction that locks a raffle and a user, directly and through
foreign keys; numbers taken from a sequence before the commit; state read before
an RPC call and used after it; updates by primary key that do not check again;
a crash between two statements; a node that does not answer; a clock that passes
`closesAt` and `endsAt` in the middle of a call; a script without transactions
that is cut off and run again; pages of a list that grows while they are turned. `PROJECT.json` lists each as a
hazard at its line, with the properties that watch it.

## 2. Modules

| Module | Models | Proofs | Model checking |
| --- | --- | --- | --- |
| `Tickets` | rows of the ledger, `getBalance`, the refusals of `debit` and `credit`, as operators | `TicketsProofs` | through its users |
| `RaffleEntry` | `enter` statement by statement | `RaffleEntryProofs` | `MCRaffleEntry` |
| `Staking` | `stake`, `unstake`, `assertOwns`, the chain | `StakingProofs` | `MCStaking` |
| `RaffleDraw` | `create`, `enter` as two steps, `runDraw`, `verifyDraw`, `getLatestBlock` | `RaffleDrawProofs` | `MCRaffleDraw` |
| `SignIn` | `issueNonce`, `verifySignature` | `SignInProofs` | `MCSignIn` |
| `EntryBook` | what `enter` promises: accounts and counters, each entry one step | `RaffleEntryProofs` | `MCRaffleEntry`, as a property |
| `Vault` | what `stake` and `unstake` promise, each one step | `StakingProofs` | `MCStaking`, as a property |
| `Seed` | `prisma/seed.ts` statement by statement | `SeedProofs` | `MCCatalogue` |
| `Catalogue` | `findAll` as two statements, beside `Seed` | `CatalogueProofs` | `MCCatalogue` |

Conventions. A variable named like a table holds its *committed* rows. A call is
a member of a set of concurrent calls; `pc` says which awaited statement it
executes next, and one action is one such statement together with everything the
code does until the next `await`. An operator with the comment *Mutant of X* is
`X` with a bug that somebody could introduce there; it is used by no
specification, and each property of a passing run comes with one that violates it.

### 2.1 RaffleEntry

A request goes through `idle -> (holder) -> begin -> limit -> eligible -> insert
-> parents -> lockUser -> spend -> commit -> idle`.

| Action | Code |
| --- | --- |
| `Enter` | `findUnique` and the checks of status and times, `raffles.service.ts:124-136` |
| `HolderConfirmed`, `HolderRefused` | `assertHoldsAny`, 147-154 |
| `LockRaffle` | `SELECT ... FOR UPDATE` on the raffle, 178 |
| `CheckLimit`, `CheckBalance` | 180-187, 190-195 |
| `InsertEntry`, `LockParents` | `raffleEntry.create`: `nextval`, then the foreign key's `FOR KEY SHARE` on the user, 197-199 |
| `LockUser`, `Debit` | `debit`: `FOR UPDATE` on the user, the balance read again, `tickets.service.ts:118-125` |
| `Commit` | the ledger row, `entryCount + 1` and COMMIT, 204-215 |
| `Rollback` | Prisma's time-out, a lost connection, a crash |
| `DeadlockAbort` | PostgreSQL's detector aborts a member of a cycle; the filter answers 409 |
| `Credit`, `Close` | what the vault and the clock do meanwhile |

Row locks are not variables: which locks a transaction holds follows from its
statement, and `WaitsFor` derives the wait-for graph from that. Writes of an
open transaction are invisible until `Commit`, so only the number it took from
the sequence (`num`) needs a variable; a number is never given back.

`accepting[r]` stands for the three conditions on status and time; it turns
false once. Costs, minima, caps, and who asks for what are constants.

### 2.2 Staking

A `stake` goes through `askStake -> insert`, an `unstake` through `askExit ->
update -> credit -> commit`. `Transfer` is a sale on the chain and may happen
at any moment. `UpdateStake` takes the row's lock and overwrites what it finds,
as the update by primary key does; `CreditReward` meets the unique index on
`stakeId`; `CommitUnstake` makes row and ledger visible together; `Crash` ends a
call anywhere. The ledger is a sequence, so that paying twice would show. A call
that was cut off, by a crash or because the node did not answer, ends in `failed`
and one that was answered in `idle`; the code does not tell them apart, the
fairness assumption does.

### 2.3 RaffleDraw

One raffle. `enter` is two steps here, its check (`Enter`) and its commit
(`CommitEntry`), for that is the window a draw can fall into; that a number above
all numbers of the raffle is committed is what `CommitsInNumberOrder` of
`RaffleEntry` shows. `runDraw` is four: read and check, latest block, winner,
publish. `Publish` writes the row by its key alone, and where the draw read no block it
leaves the block columns alone, as Prisma does with `undefined`: the row may then keep
the block of an overlapping draw. `DrawHash` maps each block, and the absence of one, to
`sha256(seed:block:raffle)`, for the seed is fixed at creation. `Verified` is the
answer of `verifyDraw`: it reads the raffle first and the entries later, and as
an entry never changes its position, the answer depends on the first read only.

### 2.4 SignIn

| Action | Code |
| --- | --- |
| `IssueNonce` | the upsert of `issueNonce`, `auth.service.ts:33-45` |
| `VerifySignature` | the row is read, the ban and the expiry are checked, 59-78 |
| `Verified`, `Refused` | `siwe.verify` answers, 80-90 |
| `BurnNonce` | `user.update` and the session, 92-116 |
| `Crash`, `SetBanned`, `Tick` | what else may happen in between |

A message is what `issueNonce` answered; its wallet may sign it, and send it, as
often as it likes. Nonces are numbered in the order of issue; the nonce that
`BurnNonce` stores is told to nobody and is `Null`. `at` and `after` in a reading
say when, and after how many logins, the row was read; only properties use them.

### 2.5 The abstract specifications

`EntryBook` says what the comment on `enter` promises (`raffles.service.ts:118-121`):
the debit, the entry and the counter together, or not at all. Its state is not
the program's: a user has a balance and a number of entries per raffle, there are
no rows, statements, locks or failures. `RaffleEntry` implements it under

    balance    <- the sum of the user's ledger rows
    bought     <- the number of the user's entries in the raffle
    entryCount <- the column
    paid       <- the stakes with a ledger row

`Commit` is a step `Enter` of the book, `Credit` is `Credit`, and every other
statement, lock, time-out and deadlock abort is a stutter. That `Enter`'s guards
(the balance covers the price, the cap is not reached) hold at `Commit` although the
code checked them statements earlier is the content of the refinement.

`Vault` does the same for the comment on `unstake` (`staking.service.ts:145-147`):
a lock is made, withdrawn with its ledger row, or cancelled without one. `InsertStake`
is `Lock`, `CommitUnstake` is `Withdraw` or `Cancel`; the start of a lock is a moment
not in the future, for the code reads the clock before the insert. The
vault keeps two things nobody promised, because the code does them: a withdrawn lock
that becomes cancelled (disagreement 2), and a cancelled lock that is then withdrawn and
paid, which two overlapping unstakes do when the tenant left the wallet and came back
between their answers from the chain.

### 2.6 Seed and Catalogue

`Seed` has one action per awaited statement of the script: `Tenant`, `Trait` (upsert
and `findMany`), `Link`, `Rank` (read and sort; ties in any order), `SetRank`, `User`
twice, `Stake`, `Reward`, `Raffle`, `CountEntries`, `CreateEntry`, `SetEntryCount`,
`Person`. `at`, `next`, `todo` and `scored` are its program counter and local
variables. `CutOff` ends a run before any statement; `Start` begins the next one.
`Enter` and `StakeOwn` are the server, as far as it writes what the script reads.
`Stake` is `findFirst` and `stake.create` in one step: what the server could write between
them leaves the same rows when it comes just after.
The stakes, ledger rows and entries of the fixtures differ in nothing, so their
numbers suffice. A score is the sum of the inverse frequencies of the traits, made
an integer by the product of all counts.

`Catalogue` extends it with one visitor: `Browse` chooses a query, `FindMany` and
`Count` are the two statements of `findAll`, `Turn` asks for the next page while
`hasMore` says there is one, `Leave` ends. `Matching` is `buildWhere`, `Before` is
`buildOrderBy`, `Listing` the sorted answer (the i-th row has `Place` i), `PageOf`, `Skip`, `HasMore` and `TotalPages` are the pagination. A
search term is a set of tenants whose names contain it and the number it parses to.

## 3. What the runs check

| Run | Instance | Result |
| --- | --- | --- |
| `entry_safety` | alice sends two requests for a raffle that costs 1 and is capped at 1, and one for an uncapped holders-only raffle that costs 2; bob competes for the first; a credit of 2 to each; the first raffle asks for a balance of 2 | 187,088 states; all properties hold |
| `entry_liveness` | alice's three requests | holds |
| `staking` | two calls, two users who trade one tenant, two keys, locks of 1 day, a clock of 2 days, fair server | 111,656 states; all properties hold |
| `draw` | two entrants, two overlapping draws, two blocks, numbers up to 3 | 150,976 states; all properties hold |
| `sign_in` | two calls, two wallets, three nonces, each valid for one of three moments | 802,621 states up to symmetry; all properties hold |
| `catalogue` | three tenants of which two are alike, three traits, two runs of the script, one entry through the server, six queries with pages of 1 and 2 | 285,379 states; all properties hold |
| `entry_deadlock`, `staking_cancelled`, `draw_twice`, `draw_late_entry`, `draw_kept_block`, `sign_in_twice` | as above, or smaller | each finds its counterexample |

Properties, by hazard:

* Double spending: `BalanceNeverNegative` needs `lockUser` *before* the second
  read of the balance; requests for one raffle are serialised by the raffle's
  lock anyway, so the instance has a second raffle.
* Payments: `EntriesPaidOnce` (entries and debits correspond one to one),
  `RewardsAreEarned` (a lock is paid once, to its user, what was promised, after
  it matured), `WithdrawnIsPaid`.
* All or nothing: `ImplementsBook` and `ImplementsVault` (section 2.5).
* Stale reads: `MinimumHeldInRaffle` (the minimum is read before the user is locked;
  only the user's entry to another raffle can undercut it), `EntropyNotStale`,
  `NonceLostWithCause` (whose login may take a valid nonce away).
* Counters and order: `CountMatchesEntries`, `LimitRespected`, and
  `CommitsInNumberOrder`, which the draw relies on.
* Waiting: `DeadlocksSpanRaffles` says exactly which deadlocks remain,
  `EveryRequestAnswered` that none of them lasts.
* The vault: `OneActiveLock`, `MaturedLockIsReleased`.
* The draw: `WinnerOfSomePrefix` (count, block and entry were read at three
  moments, and the winner is still who the published hash selects; the hash is of the
  block in the row or of none), `CountNeverDisagrees` (the branch for a
  missing entry is dead code), `PublishedResultVerifies` (a result verifies as it is
  published, with two exceptions only: disagreements 4 and 5), `SeedHiddenWhileOpen`,
  `ClosedRaffleIsDrawn`.
* Signing in: `ReplayRefused` (a signature serves no verification that begins after
  its login; overlapping ones are disagreement 6), `LoginsInTime`, `ExpiryOfNonce`
  (nonce and expiry, read once and used later, belong together).
* The script: `NothingTwice` (what is created, not upserted, is created once),
  `CompletedRunRepairs` (a run that completes leaves tenants, traits, links, ranks,
  users and people right, whatever earlier runs left), `SoundUnlessDisturbed` (and
  exactly what it does not repair).
* The catalogue: `PagesTile` says that in every state of the tables the pages
  together show what matches, each tenant once and in order, and nothing else;
  `PageWithinTotal`, `WalkMissesNothing` and `WalkRepeatsNothing` say what is left of
  "the same snapshot" when rows arrive between statements and between pages.
  `FilterNeverUnderstates` is about the stored rows in one state, whatever the script
  was cut off from: the count of a trait is there before its links.

### Disagreements found

Each is a run that expects a violation, with a finding in `PROJECT.json`.

1. `entry_deadlock`: the raffle lock removed one deadlock and left its twin. The
   insert shares the user's row (foreign key) and `debit` wants it exclusively, so
   one user entering two raffles at once deadlocks. `lockUser` before the insert
   would order it.
2. `staking_cancelled`: two overlapping unstakes around a sale leave a paid lock
   `CANCELLED`, which the schema describes as not credited.
3. `draw_twice`: two overlapping draws both publish; the winner changes.
4. `draw_late_entry`: an entry that was checked in time commits after the draw read
   the count. The draw is honest, but `verifyDraw` uses the new count and says it
   is not.
5. `draw_kept_block`: of two overlapping draws the first publishes with a block and the
   second, to which the node did not answer, without one. The row keeps the block of
   the first beside the hash of the second, and `verifyDraw` says `valid: false` with no
   late entry involved. `WinnerOfSomePrefix` says what is left: the hash is then the one
   made without a block, and still selects the winner.
6. `sign_in_twice`: a signature is said to be single-use, and a replay to be answered 401.
   Two overlapping verifications both read the nonce before either burns it, and both get
   a session. `ReplayRefused` says what is true: no verification that begins after the
   login is accepted.

Six more statements of the repository are not true and have no run of their
own; mostly a property says what is true instead.

* `draw.service.ts:30-31` says that the block is mined after the close. `runDraw` takes the
  latest block whenever `closesAt` has passed, also when none was mined since.
  `EntropyNotStale` says how old it can be: no other block followed it before the close.
* `schema.prisma:273` says of a `SCHEDULED` raffle that it does not accept entries *yet*.
  `create` computes the status once and no code turns `SCHEDULED` into `OPEN`, so a raffle
  created before its opening time never accepts any.
* `schema.prisma:371` calls `entryNumber` gapless; a sequence loses the number of
  every transaction that does not commit. `CommitsInNumberOrder` and
  `WinnerOfSomePrefix` do not need it.
* `API.md:166` says a nonce is refused as expired when it is older than ten minutes;
  a sign-in that read the row before the nonce was issued rotates it away earlier.
  `NonceLostWithCause` says when.
* `collection.service.ts:15-17` says that a page and its total come from one
  snapshot. At READ COMMITTED each statement has its own. `PageWithinTotal` shows
  that the disagreement goes one way only, except under a maximum rank: with
  `maxRarityRank` the page may show more tenants than the total counts.
* `seed.ts:6` calls the script re-runnable because "everything upserts". The stake,
  its ledger row and the entries are created. A run cut off between the first two
  leaves a lock that is never paid, one cut off among the entries leaves
  `entryCount` wrong for good. `SoundUnlessDisturbed` shows these are the only ways,
  next to an entry the server takes while the script creates its own.

And `minTicketsToEnter` is compared with a balance that is read before the user is
locked, so a request for another raffle can take the balance below it before this
entry commits; `MinimumHeldInRaffle` shows that nothing else can.

### Bounds, and why they are enough

* Two users and three requests of one of them: two requests for one raffle race
  for its cap and its lock, the third makes the cross-raffle races; a second user
  shows that users do not disturb each other. The proofs have no bound.
* `MaxNumber` is the number of requests in the instance; as requests may be sent
  again, the sequence also runs out, which `InsertEntry` reports.
* Two calls on one tenant: every race of the vault is between two calls. Two stake
  keys allow the lock after the lock, and with a clock of 2 days one that has matured
  beside one that has not. Tiers of different lengths are left to the proofs and to
  `staking_cancelled`, which has two.
* Two draws, two entrants, two blocks, and no block: the hashes are chosen so that
  counts 1, 2 and 3 select different entries and late entries change the index.
* Two calls of `verifySignature` and three nonces: the nonce a call has read, the
  one that replaced it, and one of another wallet or a third generation.
* Two runs of the script: everything it reads of an earlier run is there after one,
  cut off anywhere. Three tenants give a tie, a rank between two others and walks
  of three pages; two seeded entries give a run that is cut off between them.
* `CatalogueStatements`: while somebody browses, a run is not followed into the
  statements that have nothing to do with the catalogue. It may be cut off there and
  the next one may start, which to the visitor is the same as a run that completed.
* `SYMMETRY` is used in `staking_cancelled` (keys and calls) and `sign_in` (wallets
  and calls), where no constant tells the members apart; neither checks liveness.
* Deadlock checking is off in all runs: in each bounded instance everything can
  have happened (the clock at its end, the sequence used up, nobody asking), and a
  request that waits forever is what the liveness properties exclude.

### Fairness, and why the code justifies it

* `RaffleEntry`: a statement that needs no lock completes (weak); a lock that is
  free again and again is granted (strong), for PostgreSQL queues the waiters of a
  row; the detector runs (weak). Nobody has to enter, no credit has to come, no
  raffle has to close, and `Rollback` is not fair.
* `Staking`: the server's steps (weak); the user of a matured lock asks again
  (strong); node and database do not fail forever.
* `RaffleDraw`: strong fairness of `RunDraw`, `GetLatestBlock`, `PickWinner` and
  `Publish`, each over all draws: the operator draws again while it is possible,
  and no statement of a draw is cut off every time it is tried. Time need not
  pass, the node may be silent for good, and the chain need not grow.

## 4. What is proved

All proofs are checked by TLAPS, for any number of users, raffles, requests,
tenants, locks, calls, and any prices, caps and tiers the assumptions allow.

**Assumptions.** The named `ASSUME`s of the modules: prices, caps
and rewards are positive integers (DTO validation and `STAKE_TIERS`), and `Null`
differs from the values it stands beside. TLC evaluates them in every run.

**TicketsProofs.** The balance is a sum over a finite set, and the usual induction
over finite sets is not available (it takes an operator as a parameter). The
proof takes, instead, the smallest cardinality at which the sum fails to be
additive and refutes it. `BalanceAfterInsert` and `BalanceType` are what the other
proofs cite.

**RaffleEntryProofs.** Type correctness first; then `EntryInv`, in layers, each
inductive over the ones before it:

1. `LocksExclusive`: a raffle's lock has one holder; who spends shares the user
   with nobody. From this alone, `DeadlocksSpanRaffles`.
2. `NumbersStaged`: a staged number is fresh and above all numbers committed for
   its raffle. It needs layer 1, and gives `CommitsInNumberOrder`,
   `CountMatchesEntries` (the new row is new) and, with `DebitsHaveEntries`,
   `EntriesPaidOnce`.
3. `CommitAffordable`: what `debit` read under the lock is still true at `Commit`,
   for others who debit the user would have to hold its lock, and credits only add.
   `BalanceNeverNegative` is not inductive without it.
4. `CommitBelowLimit`: the same for the cap under the raffle's lock. It gives
   `LimitRespected`.

`MinimumHeld` adds that a request which has checked the minimum has a balance above
it as long as no entry of its user to another raffle exists: requests for the same
raffle are excluded by its lock, credits only add. `Implements` is the refinement of
`EntryBook`: `BookInit` maps the initial state, `BookStep` each action. At `Commit` it
uses `CommitAffordable` and `CommitBelowLimit` for the guards, and `OneCell`, that one
new entry changes the count of one user and one raffle by one.

**StakingProofs.** `TypeCorrect`; `SlotMirrorsStatus` with `OneActiveLock`, which
keep each other true (a row is inserted only if no row has its slot, and a row has
a slot exactly while it is ACTIVE); `CallsAreSound`, which says what is still true
of the row an unstake has read (its user, its end), that one transaction holds it,
and that a commit that pays finds no earlier payment; and from it
`RewardsAreEarned` and `WithdrawnIsPaid`. `Implements` is the refinement of `Vault`; it
needs one invariant more, `InsertsAreTimed`: what a call is about to insert ends the
days of a tier after a moment that is not in the future.

**RaffleDrawProofs.** First a fact about finite sets of numbers, `PositionExists`:
every index below the size of the set is the position of a member (by the smallest
bound with more than that many members below it). `DrawInv` says that `entryCount`
is the number of entries, that what a draw has read stays true of the entries
while it runs (a late entry gets the last position, `PositionStable`), that only a draw
puts a block into the row (`BlockOnlyOfDraws`), and holds two safety properties,
`WinnerOfSomePrefix` and `SeedHiddenWhileOpen`. With `PositionExists` it gives
`CountNeverDisagrees`, and with `PublishedRow` the action property
`PublishedResultVerifies`. `EntropyFresh` needs that a draw begins after the close and
reads the chain later still, so that what follows its block was not mined before the
close; and `BlockOnlyOfDraws`, for a block that a draw leaves in the row was fresh when an
earlier draw read it.

**SignInProofs.** `SignInInv`: nonces are answered once and a burnt one is in no row
that could be verified (`NoncesDistinct`), an expiry belongs to the nonce beside it
(`ExpiryOfNonce`), and what a call has read was true of the row when it read it
(`ReadingsSound`). `ReplayRefused` and `LoginsInTime` follow at each
`BurnNonce` from what that call had read. `NonceLost` adds that nonces only grow, so
that whatever replaces a nonce is younger (`NoncesGrow`), and looks at each action that
writes a row.

**SeedProofs.** Two invariants. `SeedInv` says where in the script a stake may be without
its reward (only before `Reward`), and that among the entries the loop counter is their
number and `entryCount` is still 0. Most statements touch none of this (`Quiet`); the
others are taken one by one. `Once` and `Sound` follow.

`RepairInv` is behind `Repairs` (`CompletedRunRepairs`). That a completed run has repaired
everything is not inductive: at the last statement nothing would be known of the first
ones. `RepairInv` says, statement by statement, what the *current* run has made sure of
whatever runs before it left: the tenants below the loop counter are stored
(`TenantsInv`), the traits below it have their count and all their links, and of the one
being linked all but the tenants still to do (`TraitsInv`), the first so many rows of the
ranking carry their rank (`RanksInv`), and users, raffle and people are there
(`OthersInv`). `RowsInv` is what no cut ever damages: tenants appear in the order of their
numbers, a trait's row is right from the start, no false link exists. The ranks cover all
tenants because a one-to-one ranking of a finite set misses nobody (`RankingComplete`).
The score stays folded behind `ScoreOf`: the proof needs only that it
depends on the links alone, not what the sum is. `SeedTypeCorrect` is type correctness.

**CatalogueProofs.** `CatalogueRunsSeed` shows that beside its readers the script takes only
steps of `Seed`, so that the invariants above hold here, too (`TablesInvariant`). Then:

* *The listing.* It is defined by places: the i-th row is the one that i - 1 rows come
  before. That each place is taken exactly once (`OrderPlaces`) holds for every strict
  order on a finite set, by counting an injection rather than by induction; that each of
  the four orders is one is `BeforeOrder` (ranks may be equal or missing, the token id
  settles it). `ListingPlaces` and `PageFacts` say which places a page shows, `PageOfPlace`
  and `PagesNeeded` are the page arithmetic. `Tiled` (`PagesTile`) is put together from
  these, for every state of the tables, every query and every limit.
* *A growing listing.* Tenants with their owners, counts and links only accumulate
  (`OnlyAccumulates`, an action property of the script and the server), so without a
  maximum rank what matches grows (`MatchingGrows`), no tenant's place gets smaller in token
  order (`PlacesGrow`), and in ascending order without a trait none changes
  (`PlacesStay`): a new tenant has a greater number than all stored ones, which is
  where `RowsInv` is needed.
* *The walk.* `WalkInv` relates what a visitor has seen to places: the rows of a page are
  within what matches now, not only within the total (`WithinInv`, for `WithinTotal`);
  what matched at first and was not shown yet has its place behind the page
  (`MissInv`, for `MissesNothing`); what was shown has its place before it
  (`RepeatInv`, for `RepeatsNothing`). None of the three properties is inductive alone, as
  they do not say where in the listing the walk stands.
* `NeverUnderstated` needs only `RowsInv`: the count is of the fixtures, and links are
  some of theirs.

That a query's limit is between 1 and 100 and its maximum rank an integer of either sign
is assumed (`QueryAssumption`); it is what the DTOs validate (`pagination.dto.ts`, `query-nfts.dto.ts`).

**Model-checked only.** The three liveness properties, `EveryRequestAnswered`,
`MaturedLockIsReleased` and `ClosedRaffleIsDrawn`: liveness under fairness, and `ENABLED`, are
beyond this prover. Induction over data is, too, where a library theorem takes an operator
as its parameter; the facts that would go by induction (the balance is additive,
every index is a position, every place is taken) go by a minimal counterexample or by
counting. Every invariant and every action property of the passing runs is a theorem.

## 5. What is not modelled, and why

* `sha256`, EIP-4361 and signature checks, RPC encoding: libraries, represented by
  their result.
* `Date` arithmetic beyond the order of moments; a clock step stands for any amount
  of time between two statements.
* Refunds, admin adjustments and cancelled raffles: the schema has values for them,
  no code writes them.
* Response shapes, logging, wording, DTO decorators, the names and times of fixtures.
* `JwtStrategy.validate` and the guards: each is one read followed by a refusal,
  with no state of its own; what they promise is what that read says.
* `getVault`, `getTiers`, `getStats`, `findByTokenId`, `getHistory`, `listRecentEntries`,
  `getMyEntries`: they read, by statements that are independent of one another, and
  decide nothing. Any mixture of older and newer figures is possible; that each was
  right at some moment is all there is to say, and it holds by construction.
  `listHistory` pages like `findAll`, without its filters.
* That the liveness of `SignIn` (a wallet that asks again is signed in once its older
  calls have ended) holds: it needs an instance without symmetry, which is too large.

## 6. Plan

Done: the abstract specifications and their refinements, the script and the catalogue,
and a theorem for each safety and action property of the passing runs. What is left:

1. Vault and raffles composed over one ledger, with `EntryBook` and `Vault` in place of
   the services, so that tickets spent never exceed rewards earned.
2. `RaffleDraw` over `EntryBook`: `CommitEntry` justified by a refinement too.
