-------------------------------- MODULE Lists --------------------------------
(* The kernel's linked lists, <linux/list.h>, as sequences: list_add_tail  *)
(* is Append.                                                              *)
EXTENDS Integers, Sequences

\* list_del of the entry at index i: the others keep their order.
ListDel(s, i) ==
    [j \in 1 .. Len(s) - 1 |-> IF j < i THEN s[j] ELSE s[j + 1]]
==============================================================================
