------------------------------ MODULE MCDshell -----------------------------
(* The command shell on small instances.                                   *)
EXTENDS Dshell
============================================================================
