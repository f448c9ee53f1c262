---------------------------- MODULE MCRaffleDraw ----------------------------
(***************************************************************************)
(* A small instance: of two entries the hash of the first block selects    *)
(* the second, and the other hashes the first; of three entries they       *)
(* select the second and the third.                                        *)
(***************************************************************************)
EXTENDS RaffleDraw

MCDrawHash == [block \in Blocks \cup {Null} |-> IF block = Null THEN 2 ELSE 6 + block]
=============================================================================
