--------------------------- MODULE MCRaffleEntry ---------------------------
(***************************************************************************)
(* A small instance: alice double-clicks on one raffle while a third tab   *)
(* of hers enters another, bob competes for the first one.  The first one  *)
(* costs 1 ticket and asks for 2, the other costs 2 and asks for 1.        *)
(***************************************************************************)
EXTENDS RaffleEntry, TLC

CONSTANTS alice, bob, gold, silver, a1, a2, a3, b1, s1, s2

MCEntryCost == (gold :> 1) @@ (silver :> 2)
MCMinTicketsToEnter == (gold :> 2) @@ (silver :> 1)
MCMaxEntriesPerUser == (gold :> 1) @@ (silver :> Null)
MCHoldersOnly == (gold :> FALSE) @@ (silver :> TRUE)
MCUserOf == [t \in Requests |-> IF t = b1 THEN bob ELSE alice]
MCRaffleOf == [t \in Requests |-> IF t = a3 THEN silver ELSE gold]
MCStakeOwner == [s \in Stakes |-> IF s = s2 THEN bob ELSE alice]
MCStakeTickets == [s \in Stakes |-> 2]
=============================================================================
