------------------------------- MODULE MCProc -------------------------------
(* Model checking of module Proc with the three procs the system registers. *)
EXTENDS Proc
=============================================================================
