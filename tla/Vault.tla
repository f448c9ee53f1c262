------------------------------- MODULE Vault -------------------------------
(***************************************************************************)
(* What the vault promises, in the words of the comment on unstake         *)
(* (staking.service.ts:145-147): a lock is made, and later withdrawn       *)
(* together with its ledger row, or cancelled without one, each in a       *)
(* single step.  There are no calls, no row locks, no chain and no         *)
(* failures here: module Staking has those, and implements this.           *)
(*                                                                         *)
(* Two things are kept that nobody promised, for unstake updates the row   *)
(* by its key and whatever its status (staking.service.ts:179): a lock     *)
(* that was withdrawn may become cancelled, and keep its ledger row; and a *)
(* lock that was cancelled may still be withdrawn, and paid, when two      *)
(* calls overlap and the tenant is back in the wallet for the second.      *)
(***************************************************************************)
EXTENDS Tickets, Sequences

CONSTANTS Users, Nfts, StakeIds, Tiers, Days, TicketsOf, Null

VARIABLES stake, ledger, now

vars == <<stake, ledger, now>>
-----------------------------------------------------------------------------
Stored == {id \in StakeIds : stake[id] # Null}
Matured(id) == id \in Stored /\ stake[id].endsAt <= now
Locked(nft) == \E id \in Stored : stake[id].status = "ACTIVE" /\ stake[id].nftId = nft
Paid(id) == \E i \in DOMAIN ledger : ledger[i].source = id

Released(id, status) ==
    stake' = [stake EXCEPT ![id].status = status, ![id].activeNftId = Null]

\* A tenant that is in no lock is locked, for the days and the reward of one
\* tier, counted from a moment that is not in the future.
Lock(id, user, nft, tier, startsAt) ==
    /\ id \notin Stored
    /\ ~Locked(nft)
    /\ stake' = [stake EXCEPT ![id] =
           [userId |-> user, nftId |-> nft, activeNftId |-> nft, status |-> "ACTIVE",
            ticketsEarned |-> TicketsOf[tier], endsAt |-> startsAt + Days[tier]]]
    /\ UNCHANGED <<ledger, now>>

\* A matured lock, also one that was cancelled, is withdrawn and its tickets are
\* credited, once.
Withdraw(id) ==
    /\ Matured(id)
    /\ ~Paid(id)
    /\ Released(id, "WITHDRAWN")
    /\ ledger' = Append(ledger, CreditRow(stake[id].userId, stake[id].ticketsEarned, id))
    /\ UNCHANGED now

\* A matured lock is cancelled; nothing is credited.
Cancel(id) ==
    /\ Matured(id)
    /\ Released(id, "CANCELLED")
    /\ UNCHANGED <<ledger, now>>

Tick == now' = now + 1 /\ UNCHANGED <<stake, ledger>>
-----------------------------------------------------------------------------
Init ==
    /\ stake = [id \in StakeIds |-> Null]
    /\ ledger = <<>>
    /\ now = 0

Next ==
    \/ \E id \in StakeIds, user \in Users, nft \in Nfts, tier \in Tiers, startsAt \in 0 .. now :
           Lock(id, user, nft, tier, startsAt)
    \/ \E id \in StakeIds : Withdraw(id) \/ Cancel(id)
    \/ Tick

Spec == Init /\ [][Next]_vars
=============================================================================
