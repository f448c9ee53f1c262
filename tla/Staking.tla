------------------------------ MODULE Staking ------------------------------
(***************************************************************************)
(* The vault: StakingService.stake and unstake, the OwnershipService they  *)
(* ask, and the tokens' owners on the chain, which the server can only     *)
(* read.  Calls run concurrently; the database is PostgreSQL at READ       *)
(* COMMITTED.                                                              *)
(*                                                                         *)
(* stake, ledger: committed rows.  The transaction of an unstake shows in  *)
(* pc: from "credit" on it has updated the stake row and holds its lock.   *)
(***************************************************************************)
EXTENDS Tickets, Sequences

CONSTANTS
    Users,      \* users, each with its wallet
    Outsiders,  \* wallets that never signed in
    Nfts,       \* tenants of the collection
    StakeIds,   \* primary keys of the stakes table
    Calls,      \* concurrent calls of stake and unstake
    Tiers,      \* durations offered
    Days, TicketsOf,   \* STAKE_TIERS: days and tickets of a tier
    DemoMode,   \* DEMO_MODE: the server trusts every claim of ownership
    MaxTime,    \* bound: last day of the clock
    Null

ASSUME ConstantsAssumption ==
    /\ Days \in [Tiers -> Nat \ {0}] /\ TicketsOf \in [Tiers -> Nat \ {0}]
    /\ DemoMode \in BOOLEAN
    /\ MaxTime \in Nat
    /\ Null \notin Nfts

VARIABLES
    stake,     \* the stakes table: a row or Null for each key
    ledger,    \* ticket_ledger: its rows in the order of their commits
    owner,     \* ownerOf on the chain
    now,       \* the clock
    pc,        \* what a call does next
    call       \* arguments and local variables of a call, Null when it has ended

vars == <<stake, ledger, owner, now, pc, call>>
-----------------------------------------------------------------------------
Statuses == {"ACTIVE", "WITHDRAWN", "CANCELLED"}

StakeRow ==
    [userId : Users, nftId : Nfts, activeNftId : Nfts \cup {Null},
     status : Statuses, ticketsEarned : Nat, endsAt : Nat]

StakeCall == [userId : Users, nftId : Nfts, tier : Tiers, endsAt : Nat]
UnstakeCall == [userId : Users, id : StakeIds, stillOwns : BOOLEAN]

ASSUME NullAssumption == Null \notin StakeRow

Steps == {"idle", "failed", "askStake", "insert", "askExit", "update", "credit", "commit"}
Exiting == {"askExit", "update", "credit", "commit"}   \* the steps of unstake

Stored == {id \in StakeIds : stake[id] # Null}
HasStatus(status) == {id \in Stored : stake[id].status = status}
Credits(id) == {i \in DOMAIN ledger : ledger[i].source = id}
Rows == {ledger[i] : i \in DOMAIN ledger}

\* Transactions that hold the lock of a stake row.
LockedBy(id) == {c \in Calls : pc[c] \in {"credit", "commit"} /\ call[c].id = id}

\* assertOwns, when the RPC node answers: in demo mode it is not asked.
Owns(user, nft) == DemoMode \/ owner[nft] = user

\* A call ends, with an answer of the service or with an error of what it
\* stands on; the next call may begin after either.
Ready(c) == pc[c] \in {"idle", "failed"}

End(c, how) ==
    /\ pc' = [pc EXCEPT ![c] = how]
    /\ call' = [call EXCEPT ![c] = Null]
Answer(c) == End(c, "idle")
Fail(c) == End(c, "failed")

Goto(c, step) == pc' = [pc EXCEPT ![c] = step]
-----------------------------------------------------------------------------
\* stake: the tenant exists; assertOwns is called
Stake(c, user, nft, tier) ==
    /\ Ready(c)
    /\ Goto(c, "askStake")
    /\ call' = [call EXCEPT ![c] =
                   [userId |-> user, nftId |-> nft, tier |-> tier, endsAt |-> 0]]
    /\ UNCHANGED <<stake, ledger, owner, now>>

\* Mutant of StakeOwnership: the lock ends before it begins.
StakeOwnershipBackdated(c) ==
    /\ pc[c] = "askStake"
    /\ \/ /\ Owns(call[c].userId, call[c].nftId)
          /\ Goto(c, "insert")
          /\ call' = [call EXCEPT ![c].endsAt = now - Days[call[c].tier]]
       \/ ~Owns(call[c].userId, call[c].nftId) /\ Answer(c)
    /\ UNCHANGED <<stake, ledger, owner, now>>

\* assertOwns answers, and the time is read; a refusal ends the call
StakeOwnership(c) ==
    /\ pc[c] = "askStake"
    /\ \/ /\ Owns(call[c].userId, call[c].nftId)
          /\ Goto(c, "insert")
          /\ call' = [call EXCEPT ![c].endsAt = now + Days[call[c].tier]]
       \/ ~Owns(call[c].userId, call[c].nftId) /\ Answer(c)
    /\ UNCHANGED <<stake, ledger, owner, now>>

NewStake(c) ==
    [userId |-> call[c].userId, nftId |-> call[c].nftId, activeNftId |-> call[c].nftId,
     status |-> "ACTIVE", ticketsEarned |-> TicketsOf[call[c].tier],
     endsAt |-> call[c].endsAt]

\* The unique index on activeNftId; no row in the slot.
SlotFree(nft) == \A id \in Stored : stake[id].activeNftId # nft

\* Mutant of InsertStake: no unique index on activeNftId.
InsertStakeAnySlot(c) ==
    /\ pc[c] = "insert"
    /\ IF Stored = StakeIds
       THEN UNCHANGED stake
       ELSE \E id \in StakeIds \ Stored : stake' = [stake EXCEPT ![id] = NewStake(c)]
    /\ Answer(c)
    /\ UNCHANGED <<ledger, owner, now>>

\* stake.create: refused with P2002 while another row has the slot; it waits
\* for a transaction that is about to free it.  (It fails, too, when the bound
\* StakeIds leaves no key.)
InsertStake(c) ==
    /\ pc[c] = "insert"
    /\ \A id \in Stored : stake[id].activeNftId = call[c].nftId => LockedBy(id) = {}
    /\ \/ /\ SlotFree(call[c].nftId)
          /\ \E id \in StakeIds \ Stored : stake' = [stake EXCEPT ![id] = NewStake(c)]
       \/ /\ ~SlotFree(call[c].nftId) \/ Stored = StakeIds
          /\ UNCHANGED stake
    /\ Answer(c)
    /\ UNCHANGED <<ledger, owner, now>>

\* unstake: the row is read and checked; assertOwns is called
Unstake(c, user, id) ==
    /\ Ready(c)
    /\ id \in HasStatus("ACTIVE")
    /\ stake[id].userId = user
    /\ stake[id].endsAt <= now
    /\ Goto(c, "askExit")
    /\ call' = [call EXCEPT ![c] = [userId |-> user, id |-> id, stillOwns |-> FALSE]]
    /\ UNCHANGED <<stake, ledger, owner, now>>

\* assertOwns answers: the wallet still holds the tenant, or not
ExitOwnership(c) ==
    /\ pc[c] = "askExit"
    /\ Goto(c, "update")
    /\ call' = [call EXCEPT ![c].stillOwns = Owns(call[c].userId, stake[call[c].id].nftId)]
    /\ UNCHANGED <<stake, ledger, owner, now>>

\* assertOwns throws: the RPC node does not answer (503)
OwnershipUnavailable(c) ==
    /\ pc[c] \in {"askStake", "askExit"} /\ ~DemoMode
    /\ Fail(c)
    /\ UNCHANGED <<stake, ledger, owner, now>>

\* Mutant of UpdateStake: the row is not locked.
UpdateStakeUnlocked(c) ==
    /\ pc[c] = "update"
    /\ Goto(c, IF call[c].stillOwns THEN "credit" ELSE "commit")
    /\ UNCHANGED <<stake, ledger, owner, now, call>>

\* BEGIN and stake.update by primary key alone: it waits for the row's lock,
\* and overwrites whatever status it then finds
UpdateStake(c) ==
    /\ pc[c] = "update"
    /\ LockedBy(call[c].id) = {}
    /\ Goto(c, IF call[c].stillOwns THEN "credit" ELSE "commit")
    /\ UNCHANGED <<stake, ledger, owner, now, call>>

\* Mutant of CreditReward: no unique index on the ledger's stakeId.
CreditRewardAgain(c) ==
    /\ pc[c] = "credit"
    /\ Goto(c, "commit")
    /\ UNCHANGED <<stake, ledger, owner, now, call>>

\* Mutant of CreditReward: the update is not in the transaction of the credit.
CreditRewardAfterUpdate(c) ==
    LET id == call[c].id
    IN  /\ pc[c] = "credit"
        /\ Goto(c, "commit")
        /\ stake' = [stake EXCEPT ![id].status = "WITHDRAWN", ![id].activeNftId = Null]
        /\ UNCHANGED <<ledger, owner, now, call>>

\* credit: refused when the stake has a ledger row, which aborts the update too
CreditReward(c) ==
    LET id == call[c].id
        payable == CanCredit(Rows, stake[id].ticketsEarned, id)
    IN  /\ pc[c] = "credit"
        /\ IF payable THEN Goto(c, "commit") /\ UNCHANGED call ELSE Answer(c)
        /\ UNCHANGED <<stake, ledger, owner, now>>

Released(row, stillOwns) ==
    [row EXCEPT !.status = IF stillOwns THEN "WITHDRAWN" ELSE "CANCELLED",
                !.activeNftId = Null]

\* Mutant of CommitUnstake: a lock whose tenant was sold is not released.
CommitUnstakeOwned(c) ==
    LET id == call[c].id
        row == stake[id]
        owns == call[c].stillOwns
    IN  /\ pc[c] = "commit"
        /\ stake' = IF owns THEN [stake EXCEPT ![id] = Released(row, owns)] ELSE stake
        /\ ledger' = IF owns
                     THEN Append(ledger, CreditRow(call[c].userId, row.ticketsEarned, id))
                     ELSE ledger
        /\ Answer(c)
        /\ UNCHANGED <<owner, now>>

\* COMMIT: the new status and the ledger row appear together
CommitUnstake(c) ==
    LET id == call[c].id
        row == stake[id]
    IN  /\ pc[c] = "commit"
        /\ stake' = [stake EXCEPT ![id] = Released(row, call[c].stillOwns)]
        /\ ledger' = IF call[c].stillOwns
                     THEN Append(ledger, CreditRow(call[c].userId, row.ticketsEarned, id))
                     ELSE ledger
        /\ Answer(c)
        /\ UNCHANGED <<owner, now>>

\* Prisma's transaction timeout, a lost connection, a crash of the server
Crash(c) ==
    /\ ~Ready(c)
    /\ Fail(c)
    /\ UNCHANGED <<stake, ledger, owner, now>>
-----------------------------------------------------------------------------
\* A sale on the chain: the server has no part in it.
Transfer(nft, wallet) ==
    /\ owner[nft] # wallet
    /\ owner' = [owner EXCEPT ![nft] = wallet]
    /\ UNCHANGED <<stake, ledger, now, pc, call>>

Tick ==
    /\ now < MaxTime
    /\ now' = now + 1
    /\ UNCHANGED <<stake, ledger, owner, pc, call>>

Init ==
    /\ stake = [id \in StakeIds |-> Null]
    /\ ledger = <<>>
    /\ owner \in [Nfts -> Users \cup Outsiders]
    /\ now = 0
    /\ pc = [c \in Calls |-> "idle"]
    /\ call = [c \in Calls |-> Null]

Server(c) ==
    \/ StakeOwnership(c) \/ InsertStake(c)
    \/ ExitOwnership(c) \/ UpdateStake(c) \/ CreditReward(c) \/ CommitUnstake(c)

Next ==
    \/ \E c \in Calls, u \in Users, n \in Nfts, tier \in Tiers : Stake(c, u, n, tier)
    \/ \E c \in Calls, u \in Users, id \in StakeIds : Unstake(c, u, id)
    \/ \E c \in Calls : Server(c) \/ OwnershipUnavailable(c) \/ Crash(c)
    \/ \E n \in Nfts, w \in Users \cup Outsiders : Transfer(n, w)
    \/ Tick

Spec == Init /\ [][Next]_vars

(***************************************************************************)
(* A step of the server happens once it can; the user of a matured lock    *)
(* asks again until it is released; and the RPC node and the database do   *)
(* not fail forever.  Nobody is obliged to stake or to sell.               *)
(***************************************************************************)
Fairness ==
    /\ \A c \in Calls : WF_vars(Server(c))
    /\ \A id \in StakeIds : SF_vars(\E c \in Calls, u \in Users : Unstake(c, u, id))
    /\ <>[][\A c \in Calls : ~Crash(c) /\ ~OwnershipUnavailable(c)]_vars

FairSpec == Spec /\ Fairness
-----------------------------------------------------------------------------
TypeOK ==
    /\ stake \in [StakeIds -> StakeRow \cup {Null}]
    /\ ledger \in Seq(LedgerRow(Users, StakeIds))
    /\ owner \in [Nfts -> Users \cup Outsiders]
    /\ now \in 0 .. MaxTime
    /\ pc \in [Calls -> Steps]
    /\ call \in [Calls -> StakeCall \cup UnstakeCall \cup {Null}]
    /\ \A c \in Calls :
           /\ pc[c] \in {"askStake", "insert"} => call[c] \in StakeCall
           /\ pc[c] \in Exiting => call[c] \in UnstakeCall /\ call[c].id \in Stored

\* A tenant is in at most one lock at a time: two calls that both found it
\* free, or a call that releases an older lock of it, do not change that.
OneActiveLock ==
    \A i, j \in HasStatus("ACTIVE") : stake[i].nftId = stake[j].nftId => i = j

\* Concurrent, repeated and interrupted calls of unstake pay a lock once, to
\* the user who made it, what it was promised, after it matured.
RewardsAreEarned ==
    \A i \in DOMAIN ledger :
        LET row == ledger[i]
            lock == stake[row.source]
        IN  /\ row.reason = "STAKE_REWARD" /\ row.source \in Stored
            /\ row.userId = lock.userId /\ row.delta = lock.ticketsEarned
            /\ lock.endsAt <= now /\ lock.status # "ACTIVE"
            /\ Credits(row.source) = {i}

\* schema.prisma:159: a WITHDRAWN lock's tickets have been credited, also when
\* a second call met the unique index of the ledger or a crash came between.
WithdrawnIsPaid == \A id \in HasStatus("WITHDRAWN") : Credits(id) # {}

\* No tenant is stranded in the vault: a matured lock whose user keeps asking
\* is released, even if the tenant was sold meanwhile.
MaturedLockIsReleased ==
    \A id \in StakeIds :
        (id \in HasStatus("ACTIVE") /\ stake[id].endsAt <= now) ~> id \notin HasStatus("ACTIVE")

(***************************************************************************)
(* The inductive invariant behind the safety properties.                   *)
(***************************************************************************)
\* activeNftId mirrors nftId while the lock is ACTIVE, and is NULL after.
SlotMirrorsStatus ==
    \A id \in Stored :
        stake[id].activeNftId = IF stake[id].status = "ACTIVE" THEN stake[id].nftId ELSE Null

\* An unstake that is under way is the user's own, of a lock that has matured;
\* one transaction at a time holds the row, and what its credit found is still
\* true when it commits.
CallsAreSound ==
    \A c \in Calls : pc[c] \in Exiting =>
        LET id == call[c].id
        IN  /\ stake[id].userId = call[c].userId
            /\ stake[id].endsAt <= now
            /\ pc[c] \in {"credit", "commit"} => LockedBy(id) = {c}
            /\ pc[c] = "commit" /\ call[c].stillOwns =>
                   CanCredit(Rows, stake[id].ticketsEarned, id)

VaultInv ==
    /\ SlotMirrorsStatus
    /\ OneActiveLock
    /\ CallsAreSound
    /\ RewardsAreEarned
    /\ WithdrawnIsPaid

\* The lock that an insert is about to store began at a moment that has passed.
InsertsAreTimed ==
    \A c \in Calls : pc[c] = "insert" =>
        \E startsAt \in 0 .. now : call[c].endsAt = startsAt + Days[call[c].tier]

(***************************************************************************)
(* What the service promises: module Vault.  An insert that finds the slot *)
(* free is its Lock, the commit of an unstake its Withdraw or its Cancel,  *)
(* the clock its Tick; every other step of this module changes nothing     *)
(* that it can see.                                                        *)
(***************************************************************************)
Promise == INSTANCE Vault

\* staking.service.ts:145-147: "the stake flips to WITHDRAWN and the ledger row is
\* written together, or neither happens", however calls interleave, crash, fail
\* on the RPC node and begin again: each lock is made at once, for a free
\* tenant, and ends at once, after its term, with its one payment or with none.
ImplementsVault == Promise!Spec

(***************************************************************************)
(* What the repository says of a lock, and does not hold.                  *)
(***************************************************************************)
\* schema.prisma:161-162: CANCELLED means that "no tickets" were "credited".
CancelledIsUnpaid == \A id \in HasStatus("CANCELLED") : Credits(id) = {}
=============================================================================
