------------------------------ MODULE MCSignIn ------------------------------
(***************************************************************************)
(* A small instance: two tabs of one wallet, or of two wallets.            *)
(***************************************************************************)
EXTENDS SignIn, TLC

CONSTANTS alice, bob, c1, c2

WalletSymmetry == Permutations({alice, bob}) \cup Permutations({c1, c2})
=============================================================================
