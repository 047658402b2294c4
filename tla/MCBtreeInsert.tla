--------------------------- MODULE MCBtreeInsert ---------------------------
(* Model checking of module BtreeInsert with small leaves and pages. *)
EXTENDS BtreeInsert
=============================================================================
