----------------------------- MODULE PageStore -----------------------------
(***************************************************************************)
(* What page_mgr.c promises to the layers above it: one copy of every      *)
(* page, whatever happens to it between the disk and the pool. A page      *)
(* comes into being zero-filled, and from then on its contents change only *)
(* when a thread opens it for writing. A thread that has a page open       *)
(* has it alone, until it closes it.                                       *)
(***************************************************************************)
CONSTANTS Threads, Pages, Vals, Zero, Absent

VARIABLES
    store,      \* page id -> contents, or Absent before its allocation
    access      \* thread -> <<mode, page>> it has open, or << >>

vars == <<store, access>>

Init ==
    /\ store \in [Pages -> Vals \cup {Absent}]
    /\ access = [t \in Threads |-> << >>]

Create(p) ==
    /\ store[p] = Absent
    /\ store' = [store EXCEPT ![p] = Zero]
    /\ UNCHANGED access

Open(t, mode, p) ==
    /\ access[t] = << >>
    /\ store[p] # Absent
    /\ \A u \in Threads : access[u] \notin {<<"read", p>>, <<"write", p>>}
    /\ access' = [access EXCEPT ![t] = <<mode, p>>]

Read(t, p) ==
    /\ Open(t, "read", p)
    /\ UNCHANGED store

Write(t, p, v) ==
    /\ Open(t, "write", p)
    /\ store' = [store EXCEPT ![p] = v]

Close(t) ==
    /\ access[t] # << >>
    /\ access' = [access EXCEPT ![t] = << >>]
    /\ UNCHANGED store

Next ==
    \/ \E p \in Pages : Create(p)
    \/ \E t \in Threads : Close(t)
    \/ \E t \in Threads, p \in Pages : Read(t, p) \/ \E v \in Vals : Write(t, p, v)

Spec == Init /\ [][Next]_vars
============================================================================
