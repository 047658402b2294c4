----------------------------- MODULE MCPageMgr -----------------------------
(* The buffer pool on small instances.                                     *)
EXTENDS PageMgrInv, TLC

Symmetry == Permutations(Threads) \cup Permutations(Pages)
============================================================================
