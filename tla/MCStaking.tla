----------------------------- MODULE MCStaking -----------------------------
(***************************************************************************)
(* A small instance: alice and bob trade one tenant while two calls run;   *)
(* a lock of one day is worth 1 ticket, one of two days 2.                 *)
(***************************************************************************)
EXTENDS Staking, TLC

CONSTANTS alice, bob, short, long

MCDays == [tier \in Tiers |-> IF tier = long THEN 2 ELSE 1]
MCTicketsOf == MCDays
KeySymmetry == Permutations(StakeIds) \cup Permutations(Calls)
=============================================================================
