------------------------------ MODULE MCShards ------------------------------
(* Shards on small data sets: too small for both processes, with and       *)
(* without a tail, with an even and an odd number of blocks.               *)
EXTENDS Shards
=============================================================================
