---------------------------- MODULE RaffleEntry ----------------------------
(***************************************************************************)
(* RafflesService.enter with the TicketsService.debit it calls, statement  *)
(* by statement, run by any number of concurrent requests on one           *)
(* PostgreSQL database at READ COMMITTED.                                  *)
(*                                                                         *)
(* The variables hold committed rows.  What an open transaction has        *)
(* written is invisible to the others until Commit, so it needs no         *)
(* variable but num, the number its raffle_entries row took from the       *)
(* sequence.  The row locks a transaction holds follow from its statement: *)
(* FOR UPDATE on the raffle from the first statement on, FOR KEY SHARE on  *)
(* the user since its raffle_entries row was inserted (the foreign key),   *)
(* FOR UPDATE on the user since lockUser.  All are released at the end.    *)
(***************************************************************************)
EXTENDS Tickets

CONSTANTS
    Users,              \* rows of users
    Raffles,            \* rows of raffles
    Requests,           \* concurrent POST /raffles/:slug/enter calls
    Stakes,             \* matured stakes, each of which pays once
    EntryCost,          \* raffles.entryCost, per raffle
    MinTicketsToEnter,  \* raffles.minTicketsToEnter, per raffle
    MaxEntriesPerUser,  \* raffles.maxEntriesPerUser, per raffle, Null for none
    HoldersOnly,        \* raffles.holdersOnly, per raffle
    UserOf, RaffleOf,   \* who sends a request, and for which raffle
    StakeOwner, StakeTickets,
    MaxNumber,          \* last value of the entryNumber sequence
    Null

ASSUME ConstantsAssumption ==
    /\ EntryCost \in [Raffles -> Nat \ {0}]
    /\ MinTicketsToEnter \in [Raffles -> Nat]
    /\ MaxEntriesPerUser \in [Raffles -> (Nat \ {0}) \cup {Null}]
    /\ Null \notin Nat
    /\ HoldersOnly \in [Raffles -> BOOLEAN]
    /\ UserOf \in [Requests -> Users]
    /\ RaffleOf \in [Requests -> Raffles]
    /\ StakeOwner \in [Stakes -> Users]
    /\ StakeTickets \in [Stakes -> Nat \ {0}]
    /\ MaxNumber \in Nat

VARIABLES
    ledger,      \* ticket_ledger
    entries,     \* raffle_entries
    entryCount,  \* raffles.entryCount
    nextNumber,  \* the sequence of raffle_entries.entryNumber
    accepting,   \* status = OPEN and opensAt <= now < closesAt, per raffle
    pc,          \* the statement a request is about to execute
    num          \* entryNumber of the row a transaction inserted, 0 if none

vars == <<ledger, entries, entryCount, nextNumber, accepting, pc, num>>
-----------------------------------------------------------------------------
(***************************************************************************)
(* Statements, in the order of the code, and the locks held while a        *)
(* request is about to execute one.                                        *)
(***************************************************************************)
Spending == {"spend", "commit"}               \* FOR UPDATE on the user
Charging == {"lockUser"} \cup Spending        \* FOR KEY SHARE on the user
Numbered == {"parents"} \cup Charging         \* raffle_entries row inserted
Locked   == {"limit", "eligible", "insert"} \cup Numbered  \* FOR UPDATE on the raffle
InTx     == {"begin"} \cup Locked
Statements == {"idle", "holder"} \cup InTx

Entry == [entryNumber : Nat, raffleId : Raffles, userId : Users]

EntriesOf(raffle) == {e \in entries : e.raffleId = raffle}
EntriesBy(user, raffle) == {e \in EntriesOf(raffle) : e.userId = user}
Balance(user) == GetBalance(ledger, user)

RaffleLockedBy(t) == {x \in Requests \ {t} : RaffleOf[x] = RaffleOf[t] /\ pc[x] \in Locked}
UserSharedBy(t)   == {x \in Requests \ {t} : UserOf[x] = UserOf[t] /\ pc[x] \in Charging}
UserLockedBy(t)   == {x \in Requests \ {t} : UserOf[x] = UserOf[t] /\ pc[x] \in Spending}

\* The transactions whose end t is waiting for.
WaitsFor(t) ==
    CASE pc[t] = "begin"    -> RaffleLockedBy(t)
      [] pc[t] = "parents"  -> UserLockedBy(t)
      [] pc[t] = "lockUser" -> UserSharedBy(t)
      [] OTHER              -> {}

\* Nobody in group can go on before somebody in group does.
Deadlocked(group) ==
    /\ group # {}
    /\ \A t \in group : WaitsFor(t) \cap group # {}

\* t is on a cycle of the wait-for graph: group is a union of such cycles
\* exactly when it is deadlocked and needs each of its members for that.
OnWaitCycle(t) ==
    \E group \in SUBSET Requests :
        /\ t \in group
        /\ Deadlocked(group)
        /\ \A x \in group : ~Deadlocked(group \ {x})
-----------------------------------------------------------------------------
Goto(t, statement) == pc' = [pc EXCEPT ![t] = statement]

\* The request ends; its transaction's writes, if any, are gone.
Answer(t) ==
    /\ Goto(t, "idle")
    /\ num' = [num EXCEPT ![t] = 0]
    /\ UNCHANGED <<ledger, entries, entryCount, nextNumber, accepting>>

Step(t, from, to) ==
    /\ pc[t] = from
    /\ Goto(t, to)
    /\ UNCHANGED <<ledger, entries, entryCount, nextNumber, accepting, num>>

\* findUnique and the checks of status, opensAt and closesAt
Enter(t) ==
    /\ accepting[RaffleOf[t]]
    /\ Step(t, "idle", IF HoldersOnly[RaffleOf[t]] THEN "holder" ELSE "begin")

\* assertHoldsAny: the wallet holds a tenant (or the server runs in demo mode)
HolderConfirmed(t) == Step(t, "holder", "begin")

\* assertHoldsAny: it holds none, or the RPC call failed
HolderRefused(t) == pc[t] = "holder" /\ Answer(t)

\* Mutant of LockRaffle: the raffle is read without FOR UPDATE.
LockRaffleNot(t) == Step(t, "begin", "limit")

\* SELECT ... FROM raffles FOR UPDATE
LockRaffle(t) ==
    /\ RaffleLockedBy(t) = {}
    /\ Step(t, "begin", "limit")

BelowLimit(t) ==
    LET limit == MaxEntriesPerUser[RaffleOf[t]]
    IN  limit # Null => Cardinality(EntriesBy(UserOf[t], RaffleOf[t])) < limit

CheckLimit(t) ==
    \/ BelowLimit(t) /\ Step(t, "limit", "eligible")
    \/ ~BelowLimit(t) /\ pc[t] = "limit" /\ Answer(t)

\* The balance is read with no lock on the user.
CheckBalance(t) ==
    LET eligible == Balance(UserOf[t]) >= MinTicketsToEnter[RaffleOf[t]]
    IN  \/ eligible /\ Step(t, "eligible", "insert")
        \/ ~eligible /\ pc[t] = "eligible" /\ Answer(t)

\* Mutant of InsertEntry: the number is not taken from a bounded sequence.
InsertEntryUnbounded(t) ==
    /\ pc[t] = "insert"
    /\ num' = [num EXCEPT ![t] = nextNumber]
    /\ nextNumber' = nextNumber + 1
    /\ Goto(t, "parents")
    /\ UNCHANGED <<ledger, entries, entryCount, accepting>>

\* raffleEntry.create: nextval is never undone; past its last value it raises
InsertEntry(t) ==
    /\ pc[t] = "insert"
    /\ \/ /\ nextNumber <= MaxNumber
          /\ num' = [num EXCEPT ![t] = nextNumber]
          /\ nextNumber' = nextNumber + 1
          /\ Goto(t, "parents")
          /\ UNCHANGED <<ledger, entries, entryCount, accepting>>
       \/ nextNumber > MaxNumber /\ Answer(t)

\* Mutant of LockParents: the foreign key takes no lock on the user.
LockParentsNot(t) == Step(t, "parents", "lockUser")

\* The foreign key check of that insert: FOR KEY SHARE on the user
LockParents(t) ==
    /\ UserLockedBy(t) = {}
    /\ Step(t, "parents", "lockUser")

\* Mutant of LockUser: debit reads the balance without locking the user.
LockUserNot(t) == Step(t, "lockUser", "spend")

\* debit's lockUser: FOR UPDATE on the user, which this transaction and
\* possibly others hold FOR KEY SHARE
LockUser(t) ==
    /\ UserSharedBy(t) = {}
    /\ Step(t, "lockUser", "spend")

\* Mutant of Debit: the ledger row is written outside of the transaction.
DebitOutside(t) ==
    LET funded == CanDebit(ledger, UserOf[t], EntryCost[RaffleOf[t]])
    IN  /\ pc[t] = "spend"
        /\ Goto(t, IF funded THEN "commit" ELSE "idle")
        /\ num' = IF funded THEN num ELSE [num EXCEPT ![t] = 0]
        /\ ledger' = IF funded
                     THEN ledger \cup {DebitRow(UserOf[t], EntryCost[RaffleOf[t]], num[t])}
                     ELSE ledger
        /\ UNCHANGED <<entries, entryCount, nextNumber, accepting>>

\* Mutant of Debit: a request that cannot pay waits until it can.
DebitWaits(t) ==
    CanDebit(ledger, UserOf[t], EntryCost[RaffleOf[t]]) /\ Step(t, "spend", "commit")

\* debit: the balance is read again under the lock
Debit(t) ==
    LET funded == CanDebit(ledger, UserOf[t], EntryCost[RaffleOf[t]])
    IN  \/ funded /\ Step(t, "spend", "commit")
        \/ ~funded /\ pc[t] = "spend" /\ Answer(t)

\* Mutant of Commit: the entry's number serves as the count.
CommitNumberAsCount(t) ==
    LET user == UserOf[t]
        raffle == RaffleOf[t]
    IN  /\ pc[t] = "commit"
        /\ entries' = entries \cup
               {[entryNumber |-> num[t], raffleId |-> raffle, userId |-> user]}
        /\ ledger' = ledger \cup {DebitRow(user, EntryCost[raffle], num[t])}
        /\ entryCount' = [entryCount EXCEPT ![raffle] = num[t]]
        /\ Goto(t, "idle")
        /\ num' = [num EXCEPT ![t] = 0]
        /\ UNCHANGED <<nextNumber, accepting>>

\* entryCount + 1 and COMMIT: the entry, its ledger row and the counter appear
Commit(t) ==
    LET user == UserOf[t]
        raffle == RaffleOf[t]
    IN  /\ pc[t] = "commit"
        /\ entries' = entries \cup
               {[entryNumber |-> num[t], raffleId |-> raffle, userId |-> user]}
        /\ ledger' = ledger \cup {DebitRow(user, EntryCost[raffle], num[t])}
        /\ entryCount' = [entryCount EXCEPT ![raffle] = @ + 1]
        /\ Goto(t, "idle")
        /\ num' = [num EXCEPT ![t] = 0]
        /\ UNCHANGED <<nextNumber, accepting>>

\* Prisma's 5 s transaction timeout, a lost connection, a crash of the server
Rollback(t) == pc[t] \in InTx /\ Answer(t)

\* PostgreSQL's deadlock detector picks a member of the cycle (40P01)
DeadlockAbort(t) == OnWaitCycle(t) /\ Answer(t)

(***************************************************************************)
(* The rest of the system, as far as entering can notice it.               *)
(***************************************************************************)
\* unstake commits its credit; the insert needs FOR KEY SHARE on the user
Credit(s) ==
    /\ CanCredit(ledger, StakeTickets[s], s)
    /\ \A t \in Requests : UserOf[t] = StakeOwner[s] => pc[t] \notin Spending
    /\ ledger' = ledger \cup {CreditRow(StakeOwner[s], StakeTickets[s], s)}
    /\ UNCHANGED <<entries, entryCount, nextNumber, accepting, pc, num>>

\* closesAt passes
Close(r) ==
    /\ accepting[r]
    /\ accepting' = [accepting EXCEPT ![r] = FALSE]
    /\ UNCHANGED <<ledger, entries, entryCount, nextNumber, pc, num>>
-----------------------------------------------------------------------------
Init ==
    /\ ledger = {}
    /\ entries = {}
    /\ entryCount = [r \in Raffles |-> 0]
    /\ nextNumber = 1
    /\ accepting = [r \in Raffles |-> TRUE]
    /\ pc = [t \in Requests |-> "idle"]
    /\ num = [t \in Requests |-> 0]

\* A statement that never waits for another transaction.
Local(t) ==
    \/ HolderConfirmed(t) \/ HolderRefused(t)
    \/ CheckLimit(t) \/ CheckBalance(t) \/ InsertEntry(t) \/ Debit(t) \/ Commit(t)

Acquire(t) == LockRaffle(t) \/ LockParents(t) \/ LockUser(t)

Next ==
    \/ \E t \in Requests :
           Enter(t) \/ Local(t) \/ Acquire(t) \/ Rollback(t) \/ DeadlockAbort(t)
    \/ \E s \in Stakes : Credit(s)
    \/ \E r \in Raffles : Close(r)

Spec == Init /\ [][Next]_vars

(***************************************************************************)
(* A statement that needs no lock completes; a lock that is free again and *)
(* again is granted, for PostgreSQL queues the waiters of a row; the       *)
(* detector looks at every transaction that waits for longer than 1 s.     *)
(* Nothing obliges a user to enter, a stake to pay, or a raffle to close,  *)
(* and no liveness is drawn from the timeouts behind Rollback.             *)
(***************************************************************************)
Fairness ==
    \A t \in Requests :
        /\ WF_vars(Local(t))
        /\ SF_vars(Acquire(t))
        /\ WF_vars(DeadlockAbort(t))

FairSpec == Spec /\ Fairness
-----------------------------------------------------------------------------
TypeOK ==
    /\ ledger \subseteq LedgerRow(Users, Stakes \cup Nat) /\ IsFiniteSet(ledger)
    /\ entries \subseteq Entry /\ IsFiniteSet(entries)
    /\ entryCount \in [Raffles -> Nat]
    /\ nextNumber \in 1 .. MaxNumber + 1
    /\ accepting \in [Raffles -> BOOLEAN]
    /\ pc \in [Requests -> Statements]
    /\ num \in [Requests -> 0 .. MaxNumber]

\* However the requests of a user interleave, nobody spends a ticket twice:
\* this is what lockUser followed by the second read of the balance is for.
BalanceNeverNegative == \A u \in Users : Balance(u) >= 0

\* No entry that was not paid for, no ticket burned for no entry: the entries
\* and the debits of the ledger correspond one to one, user by user and price
\* by price.
Debits == {row \in ledger : row.reason = "RAFFLE_ENTRY"}
EntriesPaidOnce ==
    /\ \A e \in entries :
           DebitRow(e.userId, EntryCost[e.raffleId], e.entryNumber) \in ledger
    /\ Cardinality(Debits) = Cardinality(entries)

\* raffles.entryCount, by which the draw reduces its hash, is the number of
\* stored entries, at every moment another transaction can look.
CountMatchesEntries == \A r \in Raffles : entryCount[r] = Cardinality(EntriesOf(r))

\* The cap is counted before the insert it allows, and still holds after the
\* commits of all requests that passed the count.
LimitRespected ==
    \A u \in Users, r \in Raffles :
        MaxEntriesPerUser[r] # Null =>
            Cardinality(EntriesBy(u, r)) <= MaxEntriesPerUser[r]

\* Entries to one raffle become visible in the order of their numbers, so a
\* position that exists never moves when another entry commits.
CommitsInNumberOrder ==
    [][\A e \in entries' \ entries :
           \A f \in EntriesOf(e.raffleId) : f.entryNumber < e.entryNumber]_vars

\* raffles.service.ts:189-195: the minimum is checked with no lock on the user,
\* so the balance may fall below it before the commit, but never by a double
\* click: only an entry of the same user to another raffle can undercut it.
MinimumHeldInRaffle ==
    \A t \in Requests :
        pc[t] \in Locked \ {"limit", "eligible"}
            /\ Balance(UserOf[t]) < MinTicketsToEnter[RaffleOf[t]] =>
                \E e \in entries : e.userId = UserOf[t] /\ e.raffleId # RaffleOf[t]

\* What taking the raffle lock first does achieve: requests to one raffle
\* never deadlock, nor do requests of different users.  Every deadlock has two
\* requests of one user for two raffles, both waiting for the user's row.
DeadlocksSpanRaffles ==
    \A group \in SUBSET Requests : Deadlocked(group) =>
        \E t, x \in group :
            /\ UserOf[t] = UserOf[x] /\ RaffleOf[t] # RaffleOf[x]
            /\ pc[t] = "lockUser" /\ pc[x] = "lockUser"

\* Every request that is under way is answered: no lock is waited for in vain.
EveryRequestAnswered == \A t \in Requests : pc[t] # "idle" ~> pc[t] = "idle"

(***************************************************************************)
(* The inductive invariant behind the safety properties, in layers.        *)
(***************************************************************************)
\* A raffle row has one FOR UPDATE holder; who spends shares the user's row
\* with nobody.
LocksExclusive ==
    \A t \in Requests :
        /\ pc[t] \in Locked => RaffleLockedBy(t) = {}
        /\ pc[t] \in Spending => UserSharedBy(t) = {}

\* A staged number belongs to one transaction, was taken from the sequence,
\* and is above every number committed for the raffle.
NumbersStaged ==
    /\ \A e \in entries : e.entryNumber \in 1 .. nextNumber - 1
    /\ \A t \in Requests :
           IF pc[t] \in Numbered
           THEN /\ num[t] \in 1 .. nextNumber - 1
                /\ \A e \in entries : e.entryNumber # num[t]
                /\ \A e \in EntriesOf(RaffleOf[t]) : e.entryNumber < num[t]
                /\ \A x \in Requests \ {t} : pc[x] \in Numbered => num[x] # num[t]
           ELSE num[t] = 0

\* Every debit in the ledger pays for the entry whose number it carries.
DebitsHaveEntries ==
    \A row \in Debits : \E e \in entries :
        row = DebitRow(e.userId, EntryCost[e.raffleId], e.entryNumber)

\* What debit read under the lock is still true when the transaction commits.
CommitAffordable ==
    \A t \in Requests : pc[t] = "commit" => Balance(UserOf[t]) >= EntryCost[RaffleOf[t]]

\* So is what the limit check counted.
CommitBelowLimit ==
    \A t \in Requests : pc[t] \in Locked \ {"limit"} => BelowLimit(t)

EntryInv ==
    /\ LocksExclusive
    /\ NumbersStaged
    /\ DebitsHaveEntries
    /\ CommitAffordable
    /\ CommitBelowLimit

(***************************************************************************)
(* What the service promises: module EntryBook.  An account is the sum of  *)
(* a user's ledger rows.  Commit is its Enter, and Credit its Credit; no   *)
(* other step changes an account.                                          *)
(***************************************************************************)
PaidStakes == {s \in Stakes : \E row \in ledger : row.reason = "STAKE_REWARD" /\ row.source = s}

Promise == INSTANCE EntryBook WITH
    balance <- [u \in Users |-> Balance(u)],
    bought <- [u \in Users |-> [r \in Raffles |-> Cardinality(EntriesBy(u, r))]],
    paid <- PaidStakes

\* raffles.service.ts:118-121: "Everything below happens in one transaction: the
\* ticket debit, the entry row, and the denormalised counter": whatever requests,
\* locks, aborts and credits come between its statements, an entry is bought at
\* once, by a user who can pay at that moment and is below the cap.
ImplementsBook == Promise!Spec

(***************************************************************************)
(* What the repository says of this transaction, and does not hold.        *)
(***************************************************************************)
\* raffles.service.ts:169: "Acquiring the strongest lock up front removes the
\* cycle"; README.md:274-275: "transactions touching the same rows must take
\* locks in the same order, strongest first".
NoWaitCycle == \A t \in Requests : ~OnWaitCycle(t)
=============================================================================
