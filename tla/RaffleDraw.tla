----------------------------- MODULE RaffleDraw -----------------------------
(***************************************************************************)
(* One raffle from its creation to the published draw: RafflesService      *)
(* create, enter, runDraw and verifyDraw, DrawService, and the block       *)
(* entropy that OwnershipService.getLatestBlock reads from the chain.      *)
(*                                                                         *)
(* No call here holds a lock between its statements.  enter is two steps,  *)
(* its check of status and time and the transaction that commits the       *)
(* entry; module RaffleEntry has that transaction statement by statement.  *)
(***************************************************************************)
EXTENDS Integers, FiniteSets, Sequences

CONSTANTS
    Requests,   \* concurrent calls of enter
    Draws,      \* concurrent calls of runDraw
    DrawHash,   \* sha256(seed:block:raffle) per block, or Null for none
    MaxTime,    \* bound: last moment of the clock
    MaxNumber,  \* bound: last entry number
    MaxBlocks,  \* bound: last block
    Null

Blocks == 1 .. MaxBlocks

ASSUME ConstantsAssumption ==
    /\ MaxTime \in Nat /\ MaxNumber \in Nat /\ MaxBlocks \in Nat
    /\ Null \notin Nat
    /\ DrawHash \in [Blocks \cup {Null} -> Nat]

VARIABLES
    now,       \* the clock
    mined,     \* the chain: when each block was mined
    raffle,    \* the row of raffles, Null before its creation
    entries,   \* entryNumber of each row of raffle_entries
    entering,  \* calls of enter that passed the check of status and time
    pc, seen   \* the next step of a call of runDraw, and what it has read

vars == <<now, mined, raffle, entries, entering, pc, seen>>
-----------------------------------------------------------------------------
Times == 0 .. MaxTime
Numbers == 1 .. MaxNumber

RaffleRow ==
    [status : {"SCHEDULED", "OPEN", "DRAWN"}, opensAt : Times, closesAt : Times,
     entryCount : Nat, winner : Numbers \cup {Null},
     block : Blocks \cup {Null}, drawHash : Nat \cup {Null}]

\* entryCount as read; then the block, and then the winning entry.
Reading == [entryCount : Nat, block : Blocks \cup {Null}, winner : Numbers \cup {Null}]

ASSUME NullAssumption == Null \notin RaffleRow \cup Reading

Created == raffle # Null
Closed == Created /\ raffle.closesAt <= now
Drawn == Created /\ raffle.status = "DRAWN"

\* The index of an entry among all entries sorted by entryNumber.
Position(number) == Cardinality({n \in entries : n < number})
\* Mutant of EntryAt: one entry too many is skipped.
EntryAfter(index) == {n \in entries : Position(n) = index + 1}

EntryAt(index) == {n \in entries : Position(n) = index}

\* selectWinner, where there are entries
WinningIndex(block, count) == DrawHash[block] % count
-----------------------------------------------------------------------------
\* create: the status is decided once, by whether opensAt has passed
Create(opensAt, closesAt) ==
    /\ ~Created
    /\ closesAt > opensAt
    /\ raffle' = [status |-> IF opensAt <= now THEN "OPEN" ELSE "SCHEDULED",
                  opensAt |-> opensAt, closesAt |-> closesAt, entryCount |-> 0,
                  winner |-> Null, block |-> Null, drawHash |-> Null]
    /\ UNCHANGED <<now, mined, entries, entering, pc, seen>>

\* enter, first part: the raffle is read and its status and time checked
Enter(t) ==
    /\ t \notin entering
    /\ Created
    /\ raffle.status = "OPEN"
    /\ raffle.opensAt <= now /\ now < raffle.closesAt
    /\ entering' = entering \cup {t}
    /\ UNCHANGED <<now, mined, raffle, entries, pc, seen>>

\* enter, second part: the transaction commits.  Under the raffle's lock the
\* sequence gave it a number above all numbers of the raffle.
CommitEntry(t) ==
    /\ t \in entering
    /\ \E number \in Numbers :
           /\ \A n \in entries : n < number
           /\ entries' = entries \cup {number}
    /\ raffle' = [raffle EXCEPT !.entryCount = @ + 1]
    /\ entering' = entering \ {t}
    /\ UNCHANGED <<now, mined, pc, seen>>

\* Mutant of RefuseEntry: the counter is not in the transaction of the entry.
RefuseEntryCounted(t) ==
    /\ t \in entering
    /\ entering' = entering \ {t}
    /\ raffle' = [raffle EXCEPT !.entryCount = @ + 1]
    /\ UNCHANGED <<now, mined, entries, pc, seen>>

\* enter, second part: refused, timed out or cut off
RefuseEntry(t) ==
    /\ t \in entering
    /\ entering' = entering \ {t}
    /\ UNCHANGED <<now, mined, raffle, entries, pc, seen>>
-----------------------------------------------------------------------------
DrawStep(d, from, to, reading) ==
    /\ pc[d] = from
    /\ pc' = [pc EXCEPT ![d] = to]
    /\ seen' = [seen EXCEPT ![d] = reading]
    /\ UNCHANGED <<now, mined, entries, entering>>

\* Mutant of RunDraw: the draw does not wait for the close.
RunDrawEarly(d) ==
    /\ Created /\ ~Drawn
    /\ raffle.entryCount # 0
    /\ DrawStep(d, "idle", "block",
                [entryCount |-> raffle.entryCount, block |-> Null, winner |-> Null])
    /\ UNCHANGED raffle

\* runDraw: the raffle is read and checked
RunDraw(d) ==
    /\ Closed /\ ~Drawn
    /\ raffle.entryCount # 0
    /\ DrawStep(d, "idle", "block",
                [entryCount |-> raffle.entryCount, block |-> Null, winner |-> Null])
    /\ UNCHANGED raffle

\* Mutant of GetLatestBlock: the draw waits for the RPC node's answer.
GetLatestBlockOrWait(d) ==
    /\ pc[d] = "block"
    /\ Len(mined) # 0
    /\ DrawStep(d, "block", "pick", [seen[d] EXCEPT !.block = Len(mined)])
    /\ UNCHANGED raffle

\* Mutant of GetLatestBlock: an empty chain answers with block 0.
GetBlockZero(d) ==
    /\ pc[d] = "block"
    /\ DrawStep(d, "block", "pick", [seen[d] EXCEPT !.block = Len(mined)])
    /\ UNCHANGED raffle

\* Mutant of GetLatestBlock: a block that was cached earlier answers, too.
GetCachedBlock(d) ==
    /\ pc[d] = "block"
    /\ \E block \in (1 .. Len(mined)) \cup {Null} :
           DrawStep(d, "block", "pick", [seen[d] EXCEPT !.block = block])
    /\ UNCHANGED raffle

\* getLatestBlock: the latest block, or null when the RPC node does not answer
GetLatestBlock(d) ==
    /\ pc[d] = "block"
    /\ \E block \in {Len(mined), Null} \ {0} :
           DrawStep(d, "block", "pick", [seen[d] EXCEPT !.block = block])
    /\ UNCHANGED raffle

\* What selectWinner selects with what was read, among the entries as of now.
Winning(d) == EntryAt(WinningIndex(seen[d].block, seen[d].entryCount))

\* selectWinner, and the winning entry is read; without one the call ends
PickWinner(d) ==
    /\ pc[d] = "pick"
    /\ IF Winning(d) = {}
       THEN DrawStep(d, "pick", "idle", Null)
       ELSE \E number \in Winning(d) :
                DrawStep(d, "pick", "publish", [seen[d] EXCEPT !.winner = number])
    /\ UNCHANGED raffle

\* Mutant of Publish: the block is written only where none is published yet.
PublishFirstBlock(d) ==
    /\ pc[d] = "publish"
    /\ DrawStep(d, "publish", "idle", Null)
    /\ raffle' = [raffle EXCEPT !.status = "DRAWN", !.winner = seen[d].winner,
                                !.block = IF @ = Null THEN seen[d].block ELSE @,
                                !.drawHash = DrawHash[seen[d].block]]

\* raffle.update by primary key alone: the result is published.  Where no block
\* was read, block?.hash is undefined and Prisma leaves the column as it is: the
\* block of an earlier result stays, beside a hash that does not use it.
Publish(d) ==
    /\ pc[d] = "publish"
    /\ DrawStep(d, "publish", "idle", Null)
    /\ raffle' = [raffle EXCEPT !.status = "DRAWN", !.winner = seen[d].winner,
                                !.block = IF seen[d].block = Null THEN @ ELSE seen[d].block,
                                !.drawHash = DrawHash[seen[d].block]]

\* A lost connection, a crash of the server
DrawFails(d) ==
    /\ pc[d] # "idle"
    /\ DrawStep(d, pc[d], "idle", Null)
    /\ UNCHANGED raffle
-----------------------------------------------------------------------------
\* verifyDraw on the drawn raffle.  It reads the raffle first and the entries
\* later; the position of an entry never changes, so the answer is this one.
Verified ==
    /\ raffle.drawHash = DrawHash[raffle.block]
    /\ WinningIndex(raffle.block, raffle.entryCount) = Position(raffle.winner)

\* toPublicDto shows the seed; listOpen offers the raffle to entrants.
SeedPublic == Drawn
ListedOpen ==
    Created /\ raffle.status = "OPEN" /\ raffle.opensAt <= now /\ now < raffle.closesAt

Tick ==
    /\ now < MaxTime
    /\ now' = now + 1
    /\ UNCHANGED <<mined, raffle, entries, entering, pc, seen>>

\* The chain grows.
MineBlock ==
    /\ Len(mined) < MaxBlocks
    /\ mined' = Append(mined, now)
    /\ UNCHANGED <<now, raffle, entries, entering, pc, seen>>

Init ==
    /\ now = 0
    /\ mined = <<>>
    /\ raffle = Null
    /\ entries = {}
    /\ entering = {}
    /\ pc = [d \in Draws |-> "idle"]
    /\ seen = [d \in Draws |-> Null]

Server(d) == GetLatestBlock(d) \/ PickWinner(d) \/ Publish(d)

Next ==
    \/ \E opensAt, closesAt \in Times : Create(opensAt, closesAt)
    \/ \E t \in Requests : Enter(t) \/ CommitEntry(t) \/ RefuseEntry(t)
    \/ \E d \in Draws : RunDraw(d) \/ Server(d) \/ DrawFails(d)
    \/ Tick
    \/ MineBlock

Spec == Init /\ [][Next]_vars

(***************************************************************************)
(* The operator runs the draw again and again as long as it is possible,   *)
(* and no statement of a draw is cut off every time it is tried.  The RPC  *)
(* node may stay silent for good.                                          *)
(***************************************************************************)
Fairness ==
    /\ SF_vars(\E d \in Draws : RunDraw(d))
    /\ SF_vars(\E d \in Draws : GetLatestBlock(d))
    /\ SF_vars(\E d \in Draws : PickWinner(d))
    /\ SF_vars(\E d \in Draws : Publish(d))

FairSpec == Spec /\ Fairness
-----------------------------------------------------------------------------
TypeOK ==
    /\ now \in Times
    /\ mined \in Seq(Times) /\ Len(mined) <= MaxBlocks
    /\ raffle \in RaffleRow \cup {Null}
    /\ entries \subseteq Numbers
    /\ entering \subseteq Requests
    /\ pc \in [Draws -> {"idle", "block", "pick", "publish"}]
    /\ seen \in [Draws -> Reading \cup {Null}]

\* Whatever entries commit and whatever other draws run while a draw runs, the
\* published hash is of the published block or of none (a draw that the RPC node
\* did not answer leaves an earlier result's block in the row), and the winner is
\* who this hash selects among the first so many entries, at least one: the count,
\* the block and the entry a draw read at three moments fit together.
WinnerOfSomePrefix ==
    Drawn =>
        /\ raffle.winner \in entries
        /\ \E block \in {raffle.block, Null}, count \in 1 .. raffle.entryCount :
               /\ raffle.drawHash = DrawHash[block]
               /\ Position(raffle.winner) = WinningIndex(block, count)

\* runDraw's "Entry count and stored entries disagree" (raffles.service.ts:314)
\* is dead code: no entry that the count a draw read stands for can be missing.
CountNeverDisagrees == \A d \in Draws : pc[d] = "pick" => Winning(d) # {}

\* A result verifies at the moment it is published, also over an earlier one,
\* with the two exceptions the code has: an entry was committed since its draw
\* read the count, or its draw read no block and the row keeps an earlier one.
PublishedResultVerifies ==
    [][\A d \in Draws :
           /\ pc[d] = "publish" /\ pc'[d] = "idle" /\ Drawn'
           /\ seen[d].entryCount = raffle.entryCount
           /\ seen[d].block # Null \/ raffle.block = Null
           /\ raffle' # raffle
           => Verified']_vars

\* raffles.service.ts:278: the seed is not revealed "while entries were still
\* open": once it is public the raffle is listed nowhere as open, no enter passes
\* its check, and its closing time has come, whatever draws overlap.
SeedHiddenWhileOpen ==
    /\ SeedPublic => Closed /\ ~ListedOpen
    /\ \A d \in Draws : pc[d] # "idle" => Closed

\* raffles.service.ts:275: "we fetch block entropy AFTER closing".  The block may
\* have been mined before the close, but only if it was the last such block: no
\* draw uses, and no result keeps, a block that another had followed while the
\* raffle was open, whatever is mined while draws run and whichever publishes last.
NotOvertaken(block) ==
    block # Null =>
        /\ block \in 1 .. Len(mined)
        /\ \A later \in block + 1 .. Len(mined) : mined[later] >= raffle.closesAt
EntropyNotStale ==
    /\ Drawn => NotOvertaken(raffle.block)
    /\ \A d \in Draws : pc[d] \in {"pick", "publish"} => NotOvertaken(seen[d].block)

\* A raffle that has closed with entries is drawn, even if the chain never
\* answers.
ClosedRaffleIsDrawn == (Closed /\ raffle.entryCount > 0) ~> Drawn

(***************************************************************************)
(* The inductive invariant behind the safety properties.                   *)
(***************************************************************************)
\* The counter follows the entries, and nothing comes before the raffle.
CountFollowsEntries ==
    IF Created THEN raffle.entryCount = Cardinality(entries)
               ELSE /\ entries = {} /\ entering = {}
                    /\ \A d \in Draws : pc[d] = "idle"

\* What a draw has read stays true of the entries while it runs.
ReadingsSound ==
    \A d \in Draws : pc[d] # "idle" =>
        /\ seen[d] \in Reading
        /\ Closed
        /\ seen[d].entryCount \in 1 .. raffle.entryCount
        /\ pc[d] = "publish" =>
               /\ seen[d].winner \in entries
               /\ Position(seen[d].winner) = WinningIndex(seen[d].block, seen[d].entryCount)

\* The block that a draw may leave in the row is one that a draw put there.
BlockOnlyOfDraws == Created /\ ~Drawn => raffle.block = Null

DrawInv ==
    /\ CountFollowsEntries
    /\ ReadingsSound
    /\ BlockOnlyOfDraws
    /\ WinnerOfSomePrefix
    /\ SeedHiddenWhileOpen

(***************************************************************************)
(* What the repository says of a draw, and does not hold.                  *)
(***************************************************************************)
\* API.md:707: a raffle that is "Already drawn" answers 409; its result stays.
DrawnOnce == [][Drawn => raffle'.winner = raffle.winner]_vars

\* draw.service.ts:37-38: "the whole draw is reproducible by a third party".  An
\* entry that commits after the count was read breaks this with a single draw.
DrawnVerifies == Drawn => Verified

\* raffles.service.ts:387 and API.md:636 tell how to verify a result: "drawHash =
\* sha256(`${serverSeed}:${entropyBlockHash}:${raffleId}`)", of the block that is
\* published beside it.
HashOfPublishedBlock ==
    Drawn /\ raffle.block # Null => raffle.drawHash = DrawHash[raffle.block]
=============================================================================
