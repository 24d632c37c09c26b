---- MODULE MCMetadataCache ----
(* Constants of MetadataCache for TLC. *)
EXTENDS MetadataCache
OneTwoThree == {1, 2, 3}
JustOne == {1}
====
