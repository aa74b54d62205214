------------------------------ MODULE MCKvCache ------------------------------
(* Two goroutines read a key over five releases: it is changed, deleted and   *)
(* changed back.                                                             *)
EXTENDS KvCache

CONSTANTS a, b, x, y, z

MCGetters == {a, b}
MCContents == {x, y, z}
MCContent == <<x, y, Missing, x, z>>
=============================================================================
