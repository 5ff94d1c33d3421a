---------------------------- MODULE MCThreadPool ----------------------------
(* Small instances of the server process.                                  *)
EXTENDS ThreadPool, TLC

Symmetry == Permutations(Threads) \cup Permutations(Fds)
=============================================================================
