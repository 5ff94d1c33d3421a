----------------------------- MODULE MCCacheDir -----------------------------
(* A small instance of the cache: a directory whose second version has a   *)
(* listing one chunk shorter than the first.                               *)
EXTENDS CacheDir, TLC

CONSTANTS old, new

MCLength == old :> 2 @@ new :> 1

Symmetry == Permutations(Threads) \cup Permutations(Inodes)
=============================================================================
