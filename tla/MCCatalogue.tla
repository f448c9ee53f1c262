---------------------------- MODULE MCCatalogue ----------------------------
(***************************************************************************)
(* Three tenants, two of them alike; queries that differ in order, filter  *)
(* and page size.                                                          *)
(***************************************************************************)
EXTENDS Catalogue

CONSTANTS demo, second

MCAttributesOf == <<{1, 3}, {2, 3}, {1, 3}>>
MCOwnerOf == <<demo, second, Null>>
MCBackgroundOf == <<"Pink", "Lime", "Pink">>

\* "2" is read as a number, "tenant" is in every name, "#0003" is both.
MCNameContains == [term \in {"2", "tenant", "#0003"} |->
    IF term = "tenant" THEN Tokens ELSE IF term = "2" THEN {} ELSE {3}]
MCNumberIn == [term \in {"2", "tenant", "#0003"} |->
    IF term = "tenant" THEN Null ELSE IF term = "2" THEN 2 ELSE 3]

Default == [sort |-> "tokenId:asc", limit |-> 1, background |-> Null, owner |-> Null,
            maxRarityRank |-> 0, trait |-> Null, search |-> Null]
MCQueries ==
    {[Default EXCEPT !.limit = 2],
     [Default EXCEPT !.sort = "tokenId:desc"],
     [Default EXCEPT !.sort = "rarity:asc", !.maxRarityRank = 2],
     [Default EXCEPT !.sort = "rarity:desc", !.background = "Pink"],
     [Default EXCEPT !.trait = 3, !.limit = 2],
     [Default EXCEPT !.search = "2", !.owner = second]}
=============================================================================
