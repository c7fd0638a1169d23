-------------------------- MODULE MCAssetRegistry --------------------------
(* An app of two files and a single file, in two orders and two versions. *)
EXTENDS AssetRegistry

MCCatalogues == {<<<<"app", "1">>>>, <<<<"wad", "1">>, <<"app", "2">>>>}
MCCount == [a \in {"app", "wad"} |-> IF a = "app" THEN 2 ELSE 0]
OneSized == {<<"app", 1>>, <<"wad", 1>>}
=============================================================================
