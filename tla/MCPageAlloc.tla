---------------------------- MODULE MCPageAlloc ----------------------------
(* The page allocator and the superblock on small instances.               *)
EXTENDS PageAlloc
============================================================================
