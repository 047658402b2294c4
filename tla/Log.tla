-------------------------------- MODULE Log --------------------------------
(***************************************************************************)
(* What the write-ahead log promises its callers (kds_wal.h): records are  *)
(* appended in one order, the disk always holds a prefix of that order,    *)
(* and what kds_wal_flush reports as flushed is on disk.  The three        *)
(* variables count bytes of the log.                                       *)
(***************************************************************************)
EXTENDS Integers

VARIABLES appended,  \* bytes handed to kds_wal_append
          durable,   \* bytes a reader of the disk finds, from the first one on
          reported   \* bytes the log says are flushed

vars == <<appended, durable, reported>>

Init == appended = 0 /\ durable = 0 /\ reported = 0

(* A record enters the log at its end. *)
Append ==
  /\ appended' \in Nat
  /\ appended' > appended
  /\ UNCHANGED <<durable, reported>>

(* More of the log reaches the disk; nothing on disk is ever lost again. *)
Persist ==
  /\ durable' \in durable + 1 .. appended
  /\ UNCHANGED <<appended, reported>>

(* The log reports progress, of what is on disk and of nothing else. *)
Report ==
  /\ reported' \in reported + 1 .. durable
  /\ UNCHANGED <<appended, durable>>

Next == Append \/ Persist \/ Report

Spec == Init /\ [][Next]_vars
=============================================================================
