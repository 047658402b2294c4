---------------------------- MODULE BtreeInsert ----------------------------
(***************************************************************************)
(* Inserts into a B-tree table: the executor of exec_btree_insert.c and    *)
(* the node operations of btree.c it ends in.                              *)
(*                                                                         *)
(* A table starts as one leaf that is also its root.  It never grows: the  *)
(* insert that would split the leaf stops the kernel (Split below), so the *)
(* leaf is the whole tree in every state the program can be in.  A node is *)
(* a run of words, keys[MaxKeys] then slots[MaxKeys + 1] then next, since  *)
(* an insert into a full node writes past the arrays.                      *)
(*                                                                         *)
(* As in module HeapInsert, the dshell proc runs the executors one slice   *)
(* at a time, and executors are numbered by their position in its list.    *)
(***************************************************************************)
EXTENDS Integers, Sequences, FiniteSets

CONSTANTS NExecs,      \* clients with an insert executor
          Pks,         \* primary keys, in order
          MaxKeys,     \* BTREE_MAX_KEYS
          PageCap,     \* rows a heap page has room for
          MaxInserts,  \* bound on the inserts submitted
          MaxMissed,   \* bound on the records the log refuses
          MaxFails     \* bound on the pages a split fails to get

ASSUME BtreeInsertAssumption ==
  /\ {NExecs, PageCap, MaxInserts} \subseteq Nat \ {0}
  /\ MaxKeys \in Nat /\ MaxKeys > 1
  /\ {MaxMissed, MaxFails} \subseteq Nat
  /\ Pks \subseteq Nat \ {0}

Execs == 1 .. NExecs

(* Page ids: 0 is no page, Root the leaf, Sibling the page of a split. *)
Root == 1

HeapPages == 2 .. MaxInserts + 1

Sibling == MaxInserts + 2

(* The words of a node. *)
Cells == 0 .. 2 * MaxKeys + 1

SlotCell(i) == MaxKeys + i

NextCell == 2 * MaxKeys + 1

VARIABLES leaf,      \* the root's page in the buffer pool
          pins,      \* its pin count
          rows,      \* the heap pages' rows
          free,      \* heap pages the allocator has to give
          exec,      \* the executors
          cur,       \* the one the dshell proc is running, 0 for none
          log,       \* INSERT records in the log, per key
          missed,    \* appends the log refused
          fails,     \* splits that got no page
          stopped,   \* the kernel has stopped: BUG_ON or panic
          overlap,   \* two inserts have been under way at once
          inserts

tree == <<leaf, stopped>>
bounds == <<fails, overlap, inserts>>
vars == <<tree, pins, rows, free, exec, cur, log, missed, bounds>>

(* btree_init_root_kpage on a zeroed page. *)
EmptyNode == [n |-> 0, mem |-> [c \in Cells |-> 0]]

NoExec == [phase |-> "idle", pk |-> 0, node |-> EmptyNode, pos |-> 0,
           target |-> 0, new |-> 0, grow |-> FALSE]

Init ==
  /\ leaf = EmptyNode
  /\ pins = 0
  /\ rows = [p \in HeapPages |-> <<>>]
  /\ free = HeapPages
  /\ exec = [e \in Execs |-> NoExec]
  /\ cur = 0
  /\ log = [k \in Pks |-> 0]
  /\ missed = 0
  /\ fails = 0
  /\ stopped = FALSE
  /\ overlap = FALSE
  /\ inserts = 0

(***************************************************************************)
(* Nodes.                                                                  *)
(***************************************************************************)
(* The first position whose key is not below `key'. *)
SearchPosition(node, key) ==
  CHOOSE i \in 0 .. node.n :
    /\ \A j \in 0 .. i - 1 : key > node.mem[j]
    /\ i < node.n => key <= node.mem[i]

InsertAtUnshifted(node, pos, key, slot) ==
  [node EXCEPT !.mem = [@ EXCEPT ![pos] = key, ![SlotCell(pos + 1)] = slot], !.n = node.n + 1]

(* btree_node_insert_at.  keys[MaxKeys] is slots[0], slots[MaxKeys + 1] is *)
(* next; the value goes to the right of its key.                           *)
InsertAt(node, pos, key, slot) ==
  [n |-> node.n + 1,
   mem |-> [c \in Cells |->
     IF c = SlotCell(pos + 1) THEN slot
     ELSE IF c = pos THEN key
     ELSE IF c \in pos + 1 .. node.n \union {SlotCell(i) : i \in pos + 2 .. node.n + 1}
     THEN node.mem[c - 1]
     ELSE node.mem[c]]]

(***************************************************************************)
(* The dshell proc.                                                        *)
(***************************************************************************)
Submit(e, pk) ==
  /\ exec[e].phase = "idle"
  /\ inserts < MaxInserts
  /\ inserts' = inserts + 1
  /\ overlap' = (overlap \/ \E f \in Execs : exec[f].phase # "idle")
  /\ exec' = [exec EXCEPT ![e] = [NoExec EXCEPT !.phase = "search", !.pk = pk]]
  /\ UNCHANGED <<tree, pins, rows, free, cur, log, missed, fails>>

Pick(e) ==
  /\ cur = 0 /\ ~ stopped
  /\ exec[e].phase # "idle"
  /\ \A f \in 1 .. e - 1 : exec[f].phase = "idle"
  /\ cur' = e
  /\ UNCHANGED <<tree, pins, rows, free, exec, log, missed, bounds>>

At(phase) == cur # 0 /\ ~ stopped /\ exec[cur].phase = phase

(* KDS_EXEC_CONTINUE, before HEAP_INSERT or before BTREE_INSERT. *)
Expire ==
  /\ At("heap") \/ At("btree")
  /\ cur' = 0
  /\ UNCHANGED <<tree, pins, rows, free, exec, log, missed, bounds>>

Finish == exec' = [exec EXCEPT ![cur] = NoExec] /\ cur' = 0

Goto(phase) == exec' = [exec EXCEPT ![cur].phase = phase] /\ UNCHANGED cur

(***************************************************************************)
(* SEARCH_AND_PREPARE: the leaf is pinned and copied into the cursor, and  *)
(* the heap page to its key's left is probed.  Where the slot is 0 that is *)
(* the root itself, whose level 0 reads as a heap page without rows and    *)
(* without room.                                                           *)
(***************************************************************************)
Target(pk) ==
  LET page == leaf.mem[SlotCell(SearchPosition(leaf, pk))]
  IN IF page = 0 THEN Root ELSE page

Holds(page, pk) ==
  page \in HeapPages /\ \E i \in DOMAIN rows[page] : rows[page][i] = pk

HasSpace(page) == page \in HeapPages /\ Len(rows[page]) < PageCap

SearchFindsDupUnpins ==
  /\ At("search")
  /\ Holds(Target(exec[cur].pk), exec[cur].pk)
  /\ pins' = pins - 1
  /\ Finish
  /\ UNCHANGED <<tree, rows, free, log, missed, bounds>>

(* A duplicate: the cursor is cleaned up, the leaf's pin with it. *)
SearchFindsDup ==
  /\ At("search")
  /\ Holds(Target(exec[cur].pk), exec[cur].pk)
  /\ Finish
  /\ UNCHANGED <<tree, pins, rows, free, log, missed, bounds>>

SearchUnlogged ==
  /\ At("search")
  /\ ~ Holds(Target(exec[cur].pk), exec[cur].pk)
  /\ LET pk == exec[cur].pk
         grow == ~ HasSpace(Target(pk))
     IN exec' = [exec EXCEPT ![cur] = [@ EXCEPT !.phase = IF grow THEN "walinit" ELSE "heap",
                                                !.node = leaf,
                                                !.pos = SearchPosition(leaf, pk),
                                                !.target = Target(pk), !.grow = grow]]
  /\ pins' = pins + 1
  /\ UNCHANGED <<tree, rows, free, cur, log, missed, bounds>>

Search ==
  /\ At("search")
  /\ ~ Holds(Target(exec[cur].pk), exec[cur].pk)
  /\ LET pk == exec[cur].pk
         grow == ~ HasSpace(Target(pk))
     IN exec' = [exec EXCEPT ![cur] = [@ EXCEPT !.phase = IF grow THEN "walinit" ELSE "walinsert",
                                                !.node = leaf,
                                                !.pos = SearchPosition(leaf, pk),
                                                !.target = Target(pk), !.grow = grow]]
  /\ pins' = pins + 1
  /\ UNCHANGED <<tree, rows, free, cur, log, missed, bounds>>

(***************************************************************************)
(* The three WAL phases.  A record the log refuses is a warning.           *)
(***************************************************************************)
WalInitPage ==
  /\ At("walinit")
  /\ Goto("walinsert")
  /\ UNCHANGED <<tree, pins, rows, free, log, missed, bounds>>

WalNext == Goto(IF exec[cur].grow THEN "walbtree" ELSE "heap")

WalInsert ==
  /\ At("walinsert")
  /\ WalNext
  /\ log' = [log EXCEPT ![exec[cur].pk] = @ + 1]
  /\ UNCHANGED <<tree, pins, rows, free, missed, bounds>>

WalInsertFails ==
  /\ At("walinsert")
  /\ missed < MaxMissed
  /\ missed' = missed + 1
  /\ WalNext
  /\ UNCHANGED <<tree, pins, rows, free, log, bounds>>

WalBtree ==
  /\ At("walbtree")
  /\ Goto("heap")
  /\ UNCHANGED <<tree, pins, rows, free, log, missed, bounds>>

(***************************************************************************)
(* HEAP_INSERT.                                                            *)
(***************************************************************************)
HeapInsert ==
  /\ At("heap")
  /\ ~ exec[cur].grow
  /\ HasSpace(exec[cur].target)
  /\ rows' = [rows EXCEPT ![exec[cur].target] = Append(@, exec[cur].pk)]
  /\ pins' = pins - 1
  /\ Finish
  /\ UNCHANGED <<tree, free, log, missed, bounds>>

(* The room found by the search is gone, or the allocator has no page: the *)
(* executor returns the error and leaves its cursor as it is.              *)
HeapInsertFails ==
  /\ At("heap")
  /\ exec[cur].grow \/ ~ HasSpace(exec[cur].target)
  /\ Finish
  /\ UNCHANGED <<tree, pins, rows, free, log, missed, bounds>>

HeapGrow ==
  /\ At("heap")
  /\ exec[cur].grow
  /\ \E p \in free :
       /\ \A q \in free : p <= q
       /\ free' = free \ {p}
       /\ rows' = [rows EXCEPT ![p] = <<exec[cur].pk>>]
       /\ exec' = [exec EXCEPT ![cur] = [@ EXCEPT !.phase = "btree", !.new = p]]
  /\ UNCHANGED <<tree, pins, cur, log, missed, bounds>>

(***************************************************************************)
(* BTREE_INSERT: kds_btree_cursor_insert on the cursor's copy of the leaf. *)
(***************************************************************************)
Inserted == InsertAt(exec[cur].node, exec[cur].pos, exec[cur].pk, exec[cur].new)

BtreeInsertForgets ==
  /\ At("btree")
  /\ exec[cur].node.n < MaxKeys
  /\ pins' = pins - 1
  /\ Finish
  /\ UNCHANGED <<tree, rows, free, log, missed, bounds>>

BtreeInsert ==
  /\ At("btree")
  /\ exec[cur].node.n < MaxKeys
  /\ leaf' = Inserted
  /\ pins' = pins - 1
  /\ Finish
  /\ UNCHANGED <<rows, free, log, missed, stopped, bounds>>

(* The leaf is full: the entry is written past its arrays, over `next',    *)
(* and btree_split_node keeps the lower half.  It then loads the page that *)
(* `next' now names, a heap page, and load_btree_node stops the kernel, as *)
(* btree_propagate_split would for want of a new root.                     *)
Split ==
  /\ At("btree")
  /\ exec[cur].node.n >= MaxKeys
  /\ leaf' = [Inserted EXCEPT !.n = MaxKeys \div 2, !.mem[NextCell] = Sibling]
  /\ stopped' = TRUE
  /\ UNCHANGED <<pins, rows, free, exec, cur, log, missed, bounds>>

(* btree_alloc_new_page gets no page: an error, before anything is stored. *)
SplitFails ==
  /\ At("btree")
  /\ exec[cur].node.n >= MaxKeys
  /\ fails < MaxFails
  /\ fails' = fails + 1
  /\ pins' = pins - 1
  /\ Finish
  /\ UNCHANGED <<tree, rows, free, log, missed, overlap, inserts>>

Phases ==
  \/ SearchFindsDup \/ Search
  \/ WalInitPage \/ WalInsert \/ WalInsertFails \/ WalBtree
  \/ HeapInsert \/ HeapInsertFails \/ HeapGrow
  \/ BtreeInsert \/ Split \/ SplitFails

Next ==
  \/ \E e \in Execs, pk \in Pks : Submit(e, pk)
  \/ \E e \in Execs : Pick(e)
  \/ Expire \/ Phases

Spec == Init /\ [][Next]_vars

-----------------------------------------------------------------------------
Nodes == [n : 0 .. MaxKeys, mem : [Cells -> Nat]]

TypeOK ==
  /\ leaf \in Nodes
  /\ pins \in Nat
  /\ \A p \in HeapPages : Len(rows[p]) <= PageCap
  /\ free \subseteq HeapPages
  /\ \A e \in Execs : /\ exec[e].pos \in 0 .. MaxKeys
                      /\ exec[e].target \in {0, Root} \union HeapPages
                      /\ exec[e].node \in Nodes
  /\ cur \in 0 .. NExecs
  /\ log \in [Pks -> Nat]

(* Until the kernel stops, the leaf stays sorted and its values stay heap  *)
(* pages of the table, each of them once, however the slices of the        *)
(* executors interleave: each stores a copy made before the others' steps, *)
(* but a whole one.                                                        *)
LeafWellFormed ==
  /\ TypeOK
  /\ ~ stopped =>
       /\ leaf.mem[SlotCell(0)] = 0
       /\ \A i \in 1 .. leaf.n - 1 : leaf.mem[i - 1] <= leaf.mem[i]
       /\ \A i \in 1 .. leaf.n : /\ leaf.mem[SlotCell(i)] \in HeapPages \ free
                                 /\ \A j \in 1 .. i - 1 :
                                      leaf.mem[SlotCell(i)] # leaf.mem[SlotCell(j)]

RowsOf(pk) ==
  {s \in HeapPages \X (1 .. PageCap) : s[2] <= Len(rows[s[1]]) /\ rows[s[1]][s[2]] = pk}

Count(pk) == Cardinality(RowsOf(pk))

(* A row reaches a heap page only after its INSERT record was handed to    *)
(* the log, and is in the log unless the log refused it.                   *)
RowsAreLogged ==
  \A pk \in Pks : Count(pk) <= log[pk] + missed

(* While no insert is under way, every heap page with rows is in the leaf: *)
(* one that is not is out of reach of every later search.  A split that    *)
(* gets no page leaves one out, and so do inserts that overlap, since each *)
(* stores the copy of the leaf its own search made.                        *)
PagesIndexed ==
  (~ stopped /\ ~ overlap /\ fails = 0 /\ \A e \in Execs : exec[e].phase = "idle")
  => \A p \in HeapPages : rows[p] # <<>> =>
       \E i \in 1 .. leaf.n : leaf.mem[SlotCell(i)] = p

(* The leaf stays pinned for as long as a cursor points into it: no exit   *)
(* of one executor releases the pin of another.                            *)
CursorIsPinned ==
  pins >= Cardinality({e \in Execs : exec[e].phase \notin {"idle", "search"}})
=============================================================================
