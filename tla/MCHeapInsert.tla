---------------------------- MODULE MCHeapInsert ----------------------------
(* Model checking of module HeapInsert on a small table. *)
EXTENDS HeapInsert
=============================================================================
