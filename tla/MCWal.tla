------------------------------- MODULE MCWal -------------------------------
(* Model checking of module Wal on small rings and pages. *)
EXTENDS Wal
=============================================================================
