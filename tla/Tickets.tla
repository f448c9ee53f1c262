------------------------------ MODULE Tickets ------------------------------
(***************************************************************************)
(* TicketsService (src/modules/tickets/tickets.service.ts): a user's       *)
(* balance is not a column, it is the sum of the rows of an append-only    *)
(* ledger.  A ledger is a finite set of rows; every row the service writes *)
(* is justified by one stake or by one raffle entry, and the unique        *)
(* indexes on stakeId and raffleEntryId make that reference its key.       *)
(* These operators are pure: the modules that use them decide which        *)
(* transaction evaluates them, and when its rows become visible.           *)
(***************************************************************************)
EXTENDS Integers, FiniteSets, FiniteSetsExt

(***************************************************************************)
(* Rows.  `source' is stakeId for a STAKE_REWARD, raffleEntryId for a      *)
(* RAFFLE_ENTRY; the column of the other reason is NULL.                   *)
(***************************************************************************)
Reasons == {"STAKE_REWARD", "RAFFLE_ENTRY"}

LedgerRow(users, sources) ==
    [userId : users, delta : Int, reason : Reasons, source : sources]

CreditRow(user, amount, stake) ==
    [userId |-> user, delta |-> amount, reason |-> "STAKE_REWARD", source |-> stake]

DebitRow(user, amount, entry) ==
    [userId |-> user, delta |-> -amount, reason |-> "RAFFLE_ENTRY", source |-> entry]

RowsOf(ledger, user) == {row \in ledger : row.userId = user}

SumDelta(rows) == MapThenSumSet(LAMBDA row : row.delta, rows)

\* getBalance: SELECT SUM(delta) WHERE userId, NULL read as 0
GetBalance(ledger, user) == SumDelta(RowsOf(ledger, user))

\* debit's two refusals, evaluated on what the transaction sees after lockUser
CanDebit(ledger, user, amount) ==
    /\ amount > 0
    /\ GetBalance(ledger, user) >= amount

\* credit's refusal, and the unique index on stakeId
CanCredit(ledger, amount, stake) ==
    /\ amount > 0
    /\ \A row \in ledger : ~(row.reason = "STAKE_REWARD" /\ row.source = stake)
=============================================================================
