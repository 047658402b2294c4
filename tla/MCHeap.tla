------------------------------- MODULE MCHeap -------------------------------
(* Model checking of module Heap on scaled-down pages. *)
EXTENDS Heap
=============================================================================
