----------------------------- MODULE EntryBook -----------------------------
(***************************************************************************)
(* What entering a raffle promises, in the words of the comment on enter   *)
(* (raffles.service.ts:118-121): the ticket debit, the entry row and the   *)
(* counter happen together, or not at all.  A user has an account here,    *)
(* not a ledger, and a number of entries, not entries; there are no        *)
(* statements, no locks, no deadlocks and no timeouts.  Module RaffleEntry *)
(* has all of those, and implements this.                                  *)
(***************************************************************************)
EXTENDS Integers

CONSTANTS
    Users, Raffles, Stakes,
    EntryCost, MaxEntriesPerUser,   \* columns of raffles
    StakeOwner, StakeTickets,
    Null

VARIABLES
    balance,     \* the tickets a user can spend
    bought,      \* how many entries a user has, per raffle
    entryCount,  \* how many entries a raffle has
    paid         \* the stakes that have paid

vars == <<balance, bought, entryCount, paid>>
-----------------------------------------------------------------------------
\* A user who can pay and is below the raffle's cap buys one entry.
Enter(user, raffle) ==
    /\ balance[user] >= EntryCost[raffle]
    /\ MaxEntriesPerUser[raffle] # Null =>
           bought[user][raffle] < MaxEntriesPerUser[raffle]
    /\ balance' = [balance EXCEPT ![user] = @ - EntryCost[raffle]]
    /\ bought' = [bought EXCEPT ![user][raffle] = @ + 1]
    /\ entryCount' = [entryCount EXCEPT ![raffle] = @ + 1]
    /\ UNCHANGED paid

\* A matured stake pays its tickets, once.
Credit(s) ==
    /\ s \notin paid
    /\ balance' = [balance EXCEPT ![StakeOwner[s]] = @ + StakeTickets[s]]
    /\ paid' = paid \cup {s}
    /\ UNCHANGED <<bought, entryCount>>
-----------------------------------------------------------------------------
Init ==
    /\ balance = [u \in Users |-> 0]
    /\ bought = [u \in Users |-> [r \in Raffles |-> 0]]
    /\ entryCount = [r \in Raffles |-> 0]
    /\ paid = {}

Next ==
    \/ \E user \in Users, raffle \in Raffles : Enter(user, raffle)
    \/ \E s \in Stakes : Credit(s)

Spec == Init /\ [][Next]_vars
=============================================================================
