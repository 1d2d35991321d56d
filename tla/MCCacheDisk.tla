---------------------------- MODULE MCCacheDisk ----------------------------
(* The disk tier of the cache with bodies of one and two bytes.  Two       *)
(* processes share two keys and room for one large body or two small ones, *)
(* so that each of them finds the cap exceeded by the other's row; for a   *)
(* torn body one process and three keys suffice.                           *)
EXTENDS CacheDisk

MCBody == {[size |-> n] : n \in 1..2}
MCSymmetry == Permutations(DiskKey) \cup Permutations(Proc)
============================================================================
