------------------------- MODULE BtreeInsertProofs -------------------------
(***************************************************************************)
(* Inserts into a B-tree table, for every number of executors, keys, rows  *)
(* to a page and entries to a node: BInv is inductive.  An executor's copy *)
(* of the leaf is a sound node whatever the others have stored since, its  *)
(* position is right for that copy, and the heap page it has taken is in   *)
(* no copy, so what it stores is a sound node again.                       *)
(***************************************************************************)
EXTENDS BtreeInsert, WellFoundedInduction, FiniteSetTheorems, TLAPS

PhaseNames == {"idle", "search", "walinit", "walinsert", "walbtree", "heap", "btree"}

Records ==
  [phase : PhaseNames, pk : Pks \union {0}, node : Nodes, pos : 0 .. MaxKeys,
   target : {0, Root} \union HeapPages, new : {0} \union HeapPages, grow : BOOLEAN]

\* The types of the state, the pins apart.
Types ==
  /\ leaf \in Nodes
  /\ rows \in [HeapPages -> Seq(Pks)]
  /\ \A p \in HeapPages : Len(rows[p]) <= PageCap
  /\ free \subseteq HeapPages
  /\ exec \in [Execs -> Records]
  /\ \A e \in Execs : exec[e].phase # "idle" => exec[e].pk \in Pks
  /\ cur \in 0 .. NExecs
  /\ log \in [Pks -> Nat]
  /\ missed \in Nat /\ fails \in Nat
  /\ stopped \in BOOLEAN /\ overlap \in BOOLEAN

\* The cursor of an executor is open: its search has been done.
Open(x) == x.phase \notin {"idle", "search"}

Cursors == {e \in Execs : Open(exec[e])}

\* p is a value of the node.
Slotted(node, p) == \E i \in 1 .. node.n : node.mem[SlotCell(i)] = p

\* A node whose keys are in order and whose values are pages of S, once each.
Sound(node, S) ==
  /\ node.mem[SlotCell(0)] = 0
  /\ \A i \in 1 .. node.n - 1 : node.mem[i - 1] <= node.mem[i]
  /\ \A i \in 1 .. node.n : node.mem[SlotCell(i)] \in S
  /\ \A i \in 1 .. node.n : \A j \in 1 .. i - 1 :
       node.mem[SlotCell(i)] # node.mem[SlotCell(j)]

\* key belongs at position pos of the node.
Fits(node, pos, key) ==
  /\ pos \in 0 .. node.n
  /\ \A j \in 0 .. pos - 1 : node.mem[j] <= key
  /\ pos < node.n => key <= node.mem[pos]

Taken == HeapPages \ free

LeafSound == ~ stopped => Sound(leaf, Taken)

\* Every open cursor has a sound copy of the leaf and the right position in it.
CopiesSound ==
  \A e \in Execs : Open(exec[e]) =>
    /\ Sound(exec[e].node, Taken)
    /\ Fits(exec[e].node, exec[e].pos, exec[e].pk)

\* A page waiting to be put into the tree is in no copy, nor waits twice.
NewIsFresh ==
  \A e \in Execs : exec[e].phase = "btree" =>
    /\ exec[e].new \in Taken
    /\ ~ stopped => ~ Slotted(leaf, exec[e].new)
    /\ \A f \in Execs : Open(exec[f]) => ~ Slotted(exec[f].node, exec[e].new)
    /\ \A f \in Execs : f # e /\ exec[f].phase = "btree" => exec[f].new # exec[e].new

\* Inserts of pk that are past the log and have not stored their row.
Logged(pk) == {e \in Execs : exec[e].phase \in {"walbtree", "heap"} /\ exec[e].pk = pk}

RowsInLog ==
  \A pk \in Pks : Count(pk) + Cardinality(Logged(pk)) <= log[pk] + missed

\* Without overlap one insert at most is under way, on the leaf as it is.
Alone ==
  ~ overlap => \A e, f \in Execs : exec[e].phase # "idle" /\ exec[f].phase # "idle" => e = f

Calm == ~ stopped /\ ~ overlap /\ fails = 0

CopyIsLeaf ==
  Calm => \A e \in Execs : Open(exec[e]) =>
            /\ exec[e].node = leaf
            /\ exec[e].target \in HeapPages => Slotted(leaf, exec[e].target)

RowsIndexed ==
  Calm => \A p \in HeapPages : rows[p] # <<>> =>
            \/ Slotted(leaf, p)
            \/ \E e \in Execs : exec[e].phase = "btree" /\ exec[e].new = p

PinsInv == pins \in Nat /\ CursorIsPinned

TreeInv == LeafSound /\ CopiesSound /\ NewIsFresh

IndexInv == Alone /\ CopyIsLeaf /\ RowsIndexed

BInv == Types /\ PinsInv /\ TreeInv /\ RowsInLog /\ IndexInv

-----------------------------------------------------------------------------
(* Constants, and the counting of finite sets. *)

\* What the assumption on the constants says of the page ids and executors.
LEMMA Numbers ==
  /\ MaxKeys \in Nat /\ MaxKeys > 1 /\ PageCap \in Nat \ {0} /\ NExecs \in Nat
  /\ HeapPages \subseteq Nat /\ 0 \notin HeapPages /\ Root \notin HeapPages
  /\ Pks \subseteq Nat \ {0}
  /\ 0 \notin Execs /\ 0 .. NExecs = Execs \union {0}
  /\ Sibling \in Nat
BY BtreeInsertAssumption DEF HeapPages, Root, Execs, Sibling

\* The executors and the places for rows are finitely many.
LEMMA Finite ==
  /\ IsFiniteSet(Execs)
  /\ IsFiniteSet(HeapPages \X (1 .. PageCap))
<1>1. IsFiniteSet(1 .. NExecs)
  BY FS_Interval, Numbers
<1>2. IsFiniteSet(2 .. MaxInserts + 1)
  <2>1. MaxInserts + 1 \in Int
    BY BtreeInsertAssumption
  <2>. QED  BY FS_Interval, <2>1
<1>3. IsFiniteSet(1 .. PageCap)
  BY FS_Interval, Numbers
<1>. QED  BY Zenon, <1>1, <1>2, <1>3, FS_Product DEF Execs, HeapPages

\* A part of a finite set is no larger.
LEMMA Fewer ==
  ASSUME NEW S, IsFiniteSet(S), NEW T, T \subseteq S
  PROVE  Cardinality(T) \in Nat /\ Cardinality(S) \in Nat /\ Cardinality(T) <= Cardinality(S)
BY Zenon, FS_Subset, FS_CardinalityType

\* One element more.
LEMMA OneMore ==
  ASSUME NEW S, IsFiniteSet(S), NEW x, NEW T, T \subseteq S \union {x}
  PROVE  Cardinality(T) \in Nat /\ Cardinality(S) \in Nat /\ Cardinality(T) <= Cardinality(S) + 1
<1>1. /\ IsFiniteSet(S \union {x})
      /\ Cardinality(S \union {x}) \in {Cardinality(S), Cardinality(S) + 1}
  BY Zenon, FS_AddElement
<1>2. /\ Cardinality(T) \in Nat /\ Cardinality(S) \in Nat
      /\ Cardinality(T) <= Cardinality(S \union {x})
  BY Zenon, <1>1, Fewer, FS_CardinalityType
<1>. QED  BY <1>1, <1>2

\* One element less.
LEMMA OneLess ==
  ASSUME NEW S, IsFiniteSet(S), NEW x \in S, NEW T, T \subseteq S \ {x}
  PROVE  Cardinality(T) \in Nat /\ Cardinality(S) \in Nat /\ Cardinality(T) + 1 <= Cardinality(S)
<1>1. IsFiniteSet(S \ {x}) /\ Cardinality(S \ {x}) = Cardinality(S) - 1
  BY Zenon, FS_RemoveElement
<1>2. /\ Cardinality(T) \in Nat /\ Cardinality(S) \in Nat
      /\ Cardinality(T) <= Cardinality(S \ {x})
  BY Zenon, <1>1, Fewer, FS_CardinalityType
<1>. QED  BY <1>1, <1>2

-----------------------------------------------------------------------------
(* The node operations of btree.c. *)

\* A nonempty set of numbers has a least one.
LEMMA Least ==
  ASSUME NEW T, T \subseteq Nat, T # {}
  PROVE  \E x \in T : \A y \in T : x <= y
<1>1. IsWellFoundedOn(OpToRel(<, Nat), Nat)
  BY Zenon, NatLessThanWellFounded
<1>2. PICK x \in T : \A y \in T : ~ (<<y, x>> \in OpToRel(<, Nat))
  BY Zenon, <1>1, WFMin
<1>3. \A y \in T : ~ (y < x)
  BY Zenon, <1>2 DEF OpToRel
<1>. QED  BY <1>3

\* The search of a node finds where the key belongs.
LEMMA SearchFits ==
  ASSUME NEW node \in Nodes, NEW key \in Nat
  PROVE  Fits(node, SearchPosition(node, key), key)
<1>. DEFINE T == {i \in 0 .. node.n : i < node.n => key <= node.mem[i]}
<1>1. node.n \in Nat /\ node.n <= MaxKeys /\ node.mem \in [Cells -> Nat]
  BY Numbers DEF Nodes
<1>2. T \subseteq Nat /\ node.n \in T
  BY <1>1
<1>3. PICK x \in T : \A y \in T : x <= y
  BY Zenon, <1>2, Least
<1>4. \A j \in 0 .. x - 1 : key > node.mem[j]
  <2>1. ASSUME NEW j \in 0 .. x - 1 PROVE key > node.mem[j]
    <3>1. j \notin T /\ j \in 0 .. node.n /\ j \in Cells
      BY SMTT(20), Z3T(20), <1>1, <1>2, <1>3, <2>1, Numbers DEF Cells
    <3>2. node.mem[j] \in Nat /\ ~ (key <= node.mem[j])
      BY Zenon, <3>1, <1>1
    <3>. QED  BY <3>2
  <2>. QED  BY Zenon, <2>1
<1>5. \E i \in 0 .. node.n : /\ \A j \in 0 .. i - 1 : key > node.mem[j]
                             /\ i < node.n => key <= node.mem[i]
  BY Zenon, <1>3, <1>4
<1>6. PICK i \in 0 .. node.n : /\ \A j \in 0 .. i - 1 : key > node.mem[j]
                               /\ i < node.n => key <= node.mem[i]
                               /\ i = SearchPosition(node, key)
  BY Zenon, <1>5 DEF SearchPosition
<1>7. \A j \in 0 .. i - 1 : node.mem[j] <= key
  <2>1. ASSUME NEW j \in 0 .. i - 1 PROVE node.mem[j] <= key
    <3>1. j \in Cells
      BY <1>1, Numbers DEF Cells
    <3>2. node.mem[j] \in Nat /\ key > node.mem[j]
      BY Zenon, <3>1, <1>1, <1>6
    <3>. QED  BY <3>2
  <2>. QED  BY Zenon, <2>1
<1>. QED  BY Zenon, <1>6, <1>7 DEF Fits

\* x is a node with n keys, were there room for them.
IsNode(x, n) == \E M \in [Cells -> Nat] : x = [n |-> n, mem |-> M]

\* btree_node_insert_at writes words of the node only, into a full node too.
LEMMA InsertAtTypes ==
  ASSUME NEW node \in Nodes, NEW pos \in 0 .. MaxKeys, NEW key \in Nat, NEW slot \in Nat
  PROVE  /\ InsertAt(node, pos, key, slot).n = node.n + 1
         /\ InsertAt(node, pos, key, slot).mem \in [Cells -> Nat]
         /\ IsNode(InsertAt(node, pos, key, slot), node.n + 1)
<1>1. node.n \in Nat /\ node.n <= MaxKeys /\ node.mem \in [Cells -> Nat]
  BY Numbers DEF Nodes
<1>2. ASSUME NEW c \in Cells,
             c \in pos + 1 .. node.n \union {SlotCell(i) : i \in pos + 2 .. node.n + 1}
      PROVE  node.mem[c - 1] \in Nat
  <2>1. c - 1 \in Cells
    BY SMTT(20), Z3T(20), <1>1, <1>2, Numbers DEF Cells, SlotCell
  <2>. QED  BY Zenon, <2>1, <1>1
<1>3. \A c \in Cells : node.mem[c] \in Nat
  BY Zenon, <1>1
<1>4. /\ InsertAt(node, pos, key, slot).n = node.n + 1
      /\ InsertAt(node, pos, key, slot).mem \in [Cells -> Nat]
  BY <1>2, <1>3 DEF InsertAt
<1>5. InsertAt(node, pos, key, slot) =
        [n |-> node.n + 1, mem |-> InsertAt(node, pos, key, slot).mem]
  BY DEF InsertAt
<1>. QED  BY Zenon, <1>4, <1>5 DEF IsNode

\* The words m are those of the node, shifted for key and slot.
Shifted(m, node, pos, key, slot) ==
  /\ \A c \in 0 .. pos - 1 : m[c] = node.mem[c]
  /\ m[pos] = key
  /\ \A c \in pos + 1 .. node.n : m[c] = node.mem[c - 1]
  /\ \A i \in 0 .. pos : m[SlotCell(i)] = node.mem[SlotCell(i)]
  /\ m[SlotCell(pos + 1)] = slot
  /\ \A i \in pos + 2 .. node.n + 1 : m[SlotCell(i)] = node.mem[SlotCell(i - 1)]

\* Where btree_node_insert_at puts the words of a node with room.
LEMMA InsertAtCells ==
  ASSUME NEW node \in Nodes, node.n < MaxKeys, NEW pos \in 0 .. node.n,
         NEW key \in Nat, NEW slot \in Nat
  PROVE  Shifted(InsertAt(node, pos, key, slot).mem, node, pos, key, slot)
<1>. PICK m : m = InsertAt(node, pos, key, slot).mem
  OBVIOUS
<1>1. node.n \in Nat /\ MaxKeys \in Nat
  BY Numbers DEF Nodes
<1>2. \A c \in Cells : m[c] =
        IF c = SlotCell(pos + 1) THEN slot
        ELSE IF c = pos THEN key
        ELSE IF c \in pos + 1 .. node.n \union {SlotCell(i) : i \in pos + 2 .. node.n + 1}
        THEN node.mem[c - 1]
        ELSE node.mem[c]
  BY Zenon DEF InsertAt
<1>. HIDE DEF InsertAt
<1>3. \A c \in 0 .. pos - 1 : m[c] = node.mem[c]
  BY <1>1, <1>2 DEF SlotCell, Cells
<1>4. m[pos] = key
  BY <1>1, <1>2 DEF SlotCell, Cells
<1>5. \A c \in pos + 1 .. node.n : m[c] = node.mem[c - 1]
  BY <1>1, <1>2 DEF SlotCell, Cells
<1>6. \A i \in 0 .. pos : m[SlotCell(i)] = node.mem[SlotCell(i)]
  BY <1>1, <1>2 DEF SlotCell, Cells
<1>7. m[SlotCell(pos + 1)] = slot
  BY <1>1, <1>2 DEF SlotCell, Cells
<1>8. \A i \in pos + 2 .. node.n + 1 : m[SlotCell(i)] = node.mem[SlotCell(i - 1)]
  BY <1>1, <1>2 DEF SlotCell, Cells
<1>. QED  BY Zenon, <1>3, <1>4, <1>5, <1>6, <1>7, <1>8 DEF Shifted

\* btree_node_insert_at adds the page to the values of a node, and no other.
LEMMA InsertAtSlots ==
  ASSUME NEW node \in Nodes, node.n < MaxKeys, NEW pos \in 0 .. node.n,
         NEW key \in Nat, NEW slot \in Nat, NEW p
  PROVE  Slotted(InsertAt(node, pos, key, slot), p) <=> Slotted(node, p) \/ p = slot
<1>. PICK m : m = InsertAt(node, pos, key, slot).mem
  OBVIOUS
<1>0. node.n \in Nat /\ pos \in 0 .. MaxKeys
  BY Numbers DEF Nodes
<1>1. node.n \in Nat /\ InsertAt(node, pos, key, slot).n = node.n + 1
  BY ZenonT(20), <1>0, InsertAtTypes
<1>2. /\ \A i \in 0 .. pos : m[SlotCell(i)] = node.mem[SlotCell(i)]
      /\ m[SlotCell(pos + 1)] = slot
      /\ \A i \in pos + 2 .. node.n + 1 : m[SlotCell(i)] = node.mem[SlotCell(i - 1)]
  <2>1. Shifted(m, node, pos, key, slot)
    BY Zenon, InsertAtCells
  <2>. QED  BY Zenon, <2>1 DEF Shifted
<1>3. (\E i \in 1 .. node.n + 1 : m[SlotCell(i)] = p) <=> Slotted(node, p) \/ p = slot
  <2>1. ASSUME NEW i \in 1 .. node.n + 1, m[SlotCell(i)] = p
        PROVE  Slotted(node, p) \/ p = slot
    <3>1. CASE i \in 0 .. pos
      <4>1. i \in 1 .. node.n
        BY <1>1, <3>1
      <4>. QED  BY Zenon, <2>1, <3>1, <4>1, <1>2 DEF Slotted
    <3>2. CASE i = pos + 1
      BY Zenon, <2>1, <3>2, <1>2
    <3>3. CASE i \in pos + 2 .. node.n + 1
      <4>1. i - 1 \in 1 .. node.n
        BY <1>1, <3>3
      <4>. QED  BY Zenon, <2>1, <3>3, <4>1, <1>2 DEF Slotted
    <3>. QED  BY <1>1, <3>1, <3>2, <3>3
  <2>2. ASSUME p = slot PROVE \E i \in 1 .. node.n + 1 : m[SlotCell(i)] = p
    <3>1. pos + 1 \in 1 .. node.n + 1
      BY <1>1
    <3>. QED  BY Zenon, <2>2, <3>1, <1>2
  <2>3. ASSUME NEW i \in 1 .. node.n, node.mem[SlotCell(i)] = p
        PROVE  \E k \in 1 .. node.n + 1 : m[SlotCell(k)] = p
    <3>1. CASE i <= pos
      <4>1. i \in 0 .. pos /\ i \in 1 .. node.n + 1
        BY <1>1, <3>1
      <4>. QED  BY Zenon, <2>3, <4>1, <1>2
    <3>2. CASE i > pos
      <4>1. i + 1 \in pos + 2 .. node.n + 1 /\ i + 1 \in 1 .. node.n + 1 /\ (i + 1) - 1 = i
        BY <1>1, <3>2
      <4>2. m[SlotCell(i + 1)] = node.mem[SlotCell((i + 1) - 1)]
        BY Zenon, <4>1, <1>2
      <4>. QED  BY Zenon, <2>3, <4>1, <4>2
    <3>. QED  BY <1>1, <3>1, <3>2
  <2>. QED  BY Zenon, <2>1, <2>2, <2>3 DEF Slotted
<1>. QED  BY Zenon, <1>1, <1>3 DEF Slotted

\* btree_node_insert_at keeps a node sound: what it stores is sorted again.
LEMMA InsertAtSound ==
  ASSUME NEW node \in Nodes, node.n < MaxKeys, NEW S, S \subseteq Nat, Sound(node, S),
         NEW pos, NEW key \in Nat, Fits(node, pos, key),
         NEW slot \in S, ~ Slotted(node, slot)
  PROVE  Sound(InsertAt(node, pos, key, slot), S)
<1>. PICK m : m = InsertAt(node, pos, key, slot).mem
  OBVIOUS
<1>1. /\ node.n \in Nat /\ MaxKeys \in Nat /\ pos \in 0 .. node.n /\ pos \in 0 .. MaxKeys
      /\ slot \in Nat
  BY Numbers DEF Nodes, Fits
<1>2. InsertAt(node, pos, key, slot).n = node.n + 1
  BY ZenonT(40), <1>1, InsertAtTypes
<1>3. /\ \A c \in 0 .. pos - 1 : m[c] = node.mem[c]
      /\ m[pos] = key
      /\ \A c \in pos + 1 .. node.n : m[c] = node.mem[c - 1]
      /\ \A i \in 0 .. pos : m[SlotCell(i)] = node.mem[SlotCell(i)]
      /\ m[SlotCell(pos + 1)] = slot
      /\ \A i \in pos + 2 .. node.n + 1 : m[SlotCell(i)] = node.mem[SlotCell(i - 1)]
  <2>1. Shifted(m, node, pos, key, slot)
    BY Zenon, <1>1, InsertAtCells
  <2>. QED  BY Zenon, <2>1 DEF Shifted
<1>4. m[SlotCell(0)] = 0
  <2>1. 0 \in 0 .. pos
    BY <1>1
  <2>. QED  BY Zenon, <2>1, <1>3 DEF Sound
<1>5. ASSUME NEW i \in 1 .. node.n PROVE m[i - 1] <= m[i]
  <2>1. CASE i < pos
    <3>1. i - 1 \in 0 .. pos - 1 /\ i \in 0 .. pos - 1 /\ i \in 1 .. node.n - 1
      BY <1>1, <2>1
    <3>. QED  BY ZenonT(20), <3>1, <1>3 DEF Sound
  <2>2. CASE i = pos
    <3>1. i - 1 \in 0 .. pos - 1
      BY <1>1, <2>2
    <3>. QED  BY Zenon, <3>1, <2>2, <1>3 DEF Fits
  <2>3. CASE i = pos + 1
    <3>1. i - 1 = pos /\ i \in pos + 1 .. node.n /\ pos < node.n
      BY <1>1, <2>3
    <3>. QED  BY Zenon, <3>1, <1>3 DEF Fits
  <2>4. CASE i > pos + 1
    <3>1. /\ i - 1 \in pos + 1 .. node.n /\ i \in pos + 1 .. node.n
          /\ i - 1 \in 1 .. node.n - 1
      BY <1>1, <2>4
    <3>. QED  BY Zenon, <3>1, <1>3 DEF Sound
  <2>. QED  BY <1>1, <2>1, <2>2, <2>3, <2>4
<1>6. ASSUME NEW i \in 1 .. node.n + 1
      PROVE  \/ i \in 1 .. node.n /\ i <= pos /\ m[SlotCell(i)] = node.mem[SlotCell(i)]
             \/ i = pos + 1 /\ m[SlotCell(i)] = slot
             \/ /\ i - 1 \in 1 .. node.n /\ i > pos + 1
                /\ m[SlotCell(i)] = node.mem[SlotCell(i - 1)]
  <2>1. CASE i <= pos
    <3>1. i \in 0 .. pos /\ i \in 1 .. node.n
      BY <1>1, <2>1
    <3>. QED  BY Zenon, <2>1, <3>1, <1>3
  <2>2. CASE i = pos + 1
    BY Zenon, <2>2, <1>3
  <2>3. CASE i > pos + 1
    <3>1. i \in pos + 2 .. node.n + 1 /\ i - 1 \in 1 .. node.n
      BY <1>1, <2>3
    <3>. QED  BY Zenon, <2>3, <3>1, <1>3
  <2>. QED  BY <1>1, <2>1, <2>2, <2>3
<1>7. \A i \in 1 .. node.n + 1 : m[SlotCell(i)] \in S
  BY Zenon, <1>6 DEF Sound
<1>8. \A i, j \in 1 .. node.n : i # j => node.mem[SlotCell(i)] # node.mem[SlotCell(j)]
  <2>1. \A i \in 1 .. node.n : \A j \in 1 .. node.n :
          i = j \/ i \in 1 .. j - 1 \/ j \in 1 .. i - 1
    BY <1>1
  <2>. QED  BY Zenon, <2>1 DEF Sound
<1>9. ASSUME NEW i \in 1 .. node.n + 1, NEW j \in 1 .. i - 1
      PROVE  m[SlotCell(i)] # m[SlotCell(j)]
  <2>1. j \in 1 .. node.n + 1 /\ j # i
    BY <1>1
  <2>2. \A k \in 1 .. node.n : node.mem[SlotCell(k)] # slot
    BY Zenon DEF Slotted
  <2>3. /\ i <= pos => j # pos + 1 /\ ~ (j > pos + 1)
        /\ i = pos + 1 => j # pos + 1 /\ ~ (j > pos + 1)
        /\ j <= pos /\ i > pos + 1 => j # i - 1
        /\ j > pos + 1 => i - 1 # j - 1
    BY <1>1
  <2>. QED  BY ZenonT(40), <1>6, <1>8, <2>1, <2>2, <2>3
<1>. QED
  <2>1. (node.n + 1) - 1 = node.n
    BY <1>1
  <2>. QED  BY Zenon, <1>2, <1>4, <1>5, <1>7, <1>9, <2>1 DEF Sound

-----------------------------------------------------------------------------
(* What a step does to the executors. *)

\* Only executor e moves.
OnlyMoves(e) ==
  exec' \in [Execs -> Records] /\ \A f \in Execs : f # e => exec'[f] = exec[f]

\* If e has a cursor after the step, it is the one it had before.
KeepsCursor(e) ==
  Open(exec'[e]) =>
    /\ Open(exec[e])
    /\ exec'[e].node = exec[e].node /\ exec'[e].pos = exec[e].pos
    /\ exec'[e].pk = exec[e].pk /\ exec'[e].target = exec[e].target

\* The phases run for an executor of the list.
LEMMA AtCur ==
  ASSUME Types, NEW ph, At(ph)
  PROVE  cur \in Execs /\ ~ stopped /\ exec[cur].phase = ph /\ exec[cur] \in Records
<1>1. cur \in Execs
  BY Zenon, Numbers DEF Types, At
<1>. QED  BY Zenon, <1>1 DEF Types, At

\* An executor that is not running has the record of none.
LEMMA NoExecType == NoExec \in Records /\ NoExec.phase = "idle" /\ NoExec.pk = 0
<1>1. EmptyNode \in Nodes
  BY Numbers DEF EmptyNode, Nodes
<1>. QED  BY <1>1, Numbers DEF NoExec, Records, PhaseNames

\* The executor ends.
LEMMA FinishEffect ==
  ASSUME Types, cur \in Execs, Finish
  PROVE  /\ OnlyMoves(cur) /\ KeepsCursor(cur)
         /\ exec'[cur].phase = "idle" /\ ~ Open(exec'[cur]) /\ cur' = 0
<1>1. exec' \in [Execs -> Records] /\ exec'[cur] = NoExec
  BY Zenon, NoExecType DEF Finish, Types
<1>2. \A f \in Execs : f # cur => exec'[f] = exec[f]
  BY Zenon DEF Finish, Types
<1>3. exec'[cur].phase = "idle" /\ ~ Open(exec'[cur])
  BY Zenon, <1>1, NoExecType DEF Open
<1>. QED  BY Zenon, <1>1, <1>2, <1>3 DEF OnlyMoves, KeepsCursor, Finish

\* The executor goes to a phase with its cursor as it is.
LEMMA GotoEffect ==
  ASSUME Types, cur \in Execs, NEW ph \in PhaseNames, Goto(ph), Open(exec[cur])
  PROVE  /\ OnlyMoves(cur) /\ KeepsCursor(cur)
         /\ exec'[cur].phase = ph /\ exec'[cur].pk = exec[cur].pk /\ cur' = cur
<1>1. exec[cur] \in Records
  BY Zenon DEF Types
<1>2. /\ [exec[cur] EXCEPT !.phase = ph] \in Records
      /\ [exec[cur] EXCEPT !.phase = ph].phase = ph
      /\ [exec[cur] EXCEPT !.phase = ph].pk = exec[cur].pk
      /\ [exec[cur] EXCEPT !.phase = ph].node = exec[cur].node
      /\ [exec[cur] EXCEPT !.phase = ph].pos = exec[cur].pos
      /\ [exec[cur] EXCEPT !.phase = ph].target = exec[cur].target
  BY <1>1 DEF Records
<1>3. /\ exec' = [exec EXCEPT ![cur] = [exec[cur] EXCEPT !.phase = ph]]
      /\ cur' = cur
  BY Zenon DEF Goto
<1>4. /\ exec' \in [Execs -> Records]
      /\ exec'[cur] = [exec[cur] EXCEPT !.phase = ph]
      /\ \A f \in Execs : f # cur => exec'[f] = exec[f]
  BY Zenon, <1>2, <1>3 DEF Types
<1>. QED  BY Zenon, <1>2, <1>3, <1>4 DEF OnlyMoves, KeepsCursor

\* An insert is submitted to an executor that has none.
LEMMA SubmitEffect ==
  ASSUME Types, NEW e \in Execs, NEW pk \in Pks, Submit(e, pk)
  PROVE  /\ OnlyMoves(e) /\ KeepsCursor(e)
         /\ exec[e].phase = "idle" /\ exec'[e].phase = "search" /\ exec'[e].pk = pk
<1>. DEFINE x == [NoExec EXCEPT !.phase = "search", !.pk = pk]
<1>1. x \in Records /\ x.phase = "search" /\ x.pk = pk
  BY Zenon, NoExecType DEF Records, PhaseNames
<1>2. exec' = [exec EXCEPT ![e] = x] /\ exec[e].phase = "idle"
  BY Zenon DEF Submit
<1>. HIDE DEF x
<1>3. /\ exec' \in [Execs -> Records] /\ exec'[e] = x
      /\ \A f \in Execs : f # e => exec'[f] = exec[f]
  BY Zenon, <1>1, <1>2 DEF Types
<1>4. ~ Open(exec'[e])
  BY Zenon, <1>1, <1>3 DEF Open
<1>. QED  BY Zenon, <1>1, <1>2, <1>3, <1>4 DEF OnlyMoves, KeepsCursor

\* The page a search probes is the root or a value of the leaf.
LEMMA TargetIsValue ==
  ASSUME Types, ~ stopped, LeafSound, NEW pk \in Pks
  PROVE  /\ Target(pk) \in {Root} \union HeapPages
         /\ Target(pk) \in HeapPages => Slotted(leaf, Target(pk))
<1>. DEFINE i == SearchPosition(leaf, pk)
            page == leaf.mem[SlotCell(i)]
<1>1. leaf \in Nodes /\ pk \in Nat
  BY Numbers DEF Types
<1>2. i \in 0 .. leaf.n /\ leaf.n \in Nat
  BY <1>1, SearchFits, Numbers DEF Fits, Nodes
<1>3. Target(pk) = IF page = 0 THEN Root ELSE page
  BY Zenon DEF Target
<1>. HIDE DEF i
<1>4. CASE i = 0
  <2>1. page = 0
    BY Zenon, <1>4 DEF LeafSound, Sound
  <2>. QED  BY Zenon, <2>1, <1>3, Numbers
<1>5. CASE i \in 1 .. leaf.n
  <2>1. page \in HeapPages
    BY Zenon, <1>5 DEF LeafSound, Sound, Taken
  <2>2. Slotted(leaf, page) /\ page # 0
    BY Zenon, <1>5, <2>1, Numbers DEF Slotted
  <2>. QED  BY Zenon, <2>1, <2>2, <1>3
<1>. QED  BY <1>2, <1>4, <1>5

\* The search opens the cursor on a copy of the leaf.
LEMMA SearchEffect ==
  ASSUME Types, LeafSound, Search
  PROVE  /\ OnlyMoves(cur)
         /\ exec'[cur].phase \in {"walinit", "walinsert"}
         /\ exec'[cur].pk = exec[cur].pk /\ exec[cur].pk \in Pks
         /\ exec'[cur].node = leaf
         /\ Fits(leaf, exec'[cur].pos, exec[cur].pk)
         /\ exec'[cur].target \in HeapPages => Slotted(leaf, exec'[cur].target)
<1>1. cur \in Execs /\ ~ stopped /\ exec[cur].phase = "search" /\ exec[cur] \in Records
  BY Zenon, AtCur DEF Search
<1>2. exec[cur].pk \in Pks /\ leaf \in Nodes
  BY Zenon, <1>1 DEF Types
<1>. DEFINE pk == exec[cur].pk
            grow == ~ HasSpace(Target(pk))
            ph == IF grow THEN "walinit" ELSE "walinsert"
<1>. HIDE DEF pk
<1>3. Fits(leaf, SearchPosition(leaf, pk), pk)
  <2>1. pk \in Nat
    BY Zenon, <1>2, Numbers DEF pk
  <2>. QED  BY Zenon, <2>1, <1>2, SearchFits
<1>4. SearchPosition(leaf, pk) \in 0 .. MaxKeys
  BY <1>2, <1>3, Numbers DEF Fits, Nodes
<1>5. /\ Target(pk) \in {Root} \union HeapPages
      /\ Target(pk) \in HeapPages => Slotted(leaf, Target(pk))
  BY Zenon, <1>1, <1>2, TargetIsValue DEF pk
<1>6. ph \in {"walinit", "walinsert"} /\ grow \in BOOLEAN /\ ph \in PhaseNames
  BY Zenon DEF PhaseNames
<1>7. PICK x : /\ x = [exec[cur] EXCEPT !.phase = ph, !.node = leaf,
                                        !.pos = SearchPosition(leaf, pk),
                                        !.target = Target(pk), !.grow = grow]
               /\ exec' = [exec EXCEPT ![cur] = x]
  BY Zenon DEF Search, pk
<1>8. /\ x \in Records
      /\ x.phase = ph /\ x.pk = pk /\ x.node = leaf
      /\ x.pos = SearchPosition(leaf, pk) /\ x.target = Target(pk)
  <2>. HIDE DEF ph, grow
  <2>. QED  BY ZenonT(20), <1>1, <1>2, <1>4, <1>5, <1>6, <1>7 DEF Records, pk
<1>9. /\ exec' \in [Execs -> Records] /\ exec'[cur] = x
      /\ \A f \in Execs : f # cur => exec'[f] = exec[f]
  BY Zenon, <1>1, <1>7, <1>8 DEF Types
<1>. QED  BY Zenon, <1>2, <1>3, <1>5, <1>6, <1>8, <1>9 DEF OnlyMoves, pk

\* The executor takes a heap page for its row.
LEMMA GrowEffect ==
  ASSUME Types, HeapGrow
  PROVE  \E p \in free :
           /\ free' = free \ {p}
           /\ rows' = [rows EXCEPT ![p] = <<exec[cur].pk>>]
           /\ OnlyMoves(cur) /\ KeepsCursor(cur)
           /\ exec'[cur].phase = "btree" /\ exec'[cur].new = p
           /\ exec'[cur].pk = exec[cur].pk
<1>1. cur \in Execs /\ exec[cur].phase = "heap" /\ exec[cur] \in Records
  BY Zenon, AtCur DEF HeapGrow
<1>2. PICK p \in free :
        /\ free' = free \ {p}
        /\ rows' = [rows EXCEPT ![p] = <<exec[cur].pk>>]
        /\ exec' = [exec EXCEPT ![cur] = [exec[cur] EXCEPT !.phase = "btree", !.new = p]]
  BY Zenon DEF HeapGrow
<1>3. p \in HeapPages
  BY Zenon DEF Types
<1>4. PICK x : /\ x = [exec[cur] EXCEPT !.phase = "btree", !.new = p]
               /\ exec' = [exec EXCEPT ![cur] = x]
  BY Zenon, <1>2
<1>5. /\ x \in Records
      /\ x.phase = "btree" /\ x.new = p /\ x.pk = exec[cur].pk
      /\ x.node = exec[cur].node /\ x.pos = exec[cur].pos /\ x.target = exec[cur].target
  BY Zenon, <1>1, <1>3, <1>4 DEF Records, PhaseNames
<1>6. /\ exec' \in [Execs -> Records] /\ exec'[cur] = x
      /\ \A f \in Execs : f # cur => exec'[f] = exec[f]
  BY Zenon, <1>1, <1>4, <1>5 DEF Types
<1>7. Open(exec[cur])
  BY Zenon, <1>1 DEF Open
<1>. QED  BY Zenon, <1>2, <1>5, <1>6, <1>7 DEF OnlyMoves, KeepsCursor

-----------------------------------------------------------------------------
(* What keeps each part of the invariant. *)

\* More pages taken leave a node sound.
LEMMA SoundGrows ==
  ASSUME NEW node, NEW S, NEW T, S \subseteq T, Sound(node, S)
  PROVE  Sound(node, T)
BY Zenon DEF Sound

\* A step that leaves the leaf alone keeps it sound.
LEMMA LeafKept ==
  ASSUME LeafSound, UNCHANGED leaf, stopped' = stopped, free' \subseteq free
  PROVE  LeafSound'
<1>1. Taken \subseteq Taken'
  BY Zenon DEF Taken
<1>. QED  BY Zenon, <1>1, SoundGrows DEF LeafSound

\* A step of an executor leaves the copies of the others sound.
LEMMA CopiesKept ==
  ASSUME CopiesSound, NEW e \in Execs, OnlyMoves(e), free' \subseteq free,
         Open(exec'[e]) =>
           /\ Sound(exec'[e].node, Taken)
           /\ Fits(exec'[e].node, exec'[e].pos, exec'[e].pk)
  PROVE  CopiesSound'
<1>1. Taken \subseteq Taken'
  BY Zenon DEF Taken
<1>2. ASSUME NEW f \in Execs, Open(exec'[f])
      PROVE  Sound(exec'[f].node, Taken) /\ Fits(exec'[f].node, exec'[f].pos, exec'[f].pk)
  BY Zenon, <1>2 DEF CopiesSound, OnlyMoves
<1>3. ASSUME NEW f \in Execs, Open(exec'[f])
      PROVE  Sound(exec'[f].node, Taken')
  BY Zenon, <1>1, <1>2, <1>3, SoundGrows
<1>. QED  BY Zenon, <1>2, <1>3 DEF CopiesSound

\* An executor that keeps its cursor keeps its copy.
LEMMA CursorKept ==
  ASSUME CopiesSound, NEW e \in Execs, OnlyMoves(e), free' \subseteq free, KeepsCursor(e)
  PROVE  CopiesSound'
BY Zenon, CopiesKept DEF CopiesSound, KeepsCursor

\* A step that takes no page and stores none keeps the taken ones fresh.
LEMMA FreshKept ==
  ASSUME NewIsFresh, NEW e \in Execs, OnlyMoves(e), UNCHANGED <<leaf, stopped, free>>,
         exec'[e].phase # "btree",
         Open(exec'[e]) => \/ Open(exec[e]) /\ exec'[e].node = exec[e].node
                           \/ ~ stopped /\ exec'[e].node = leaf
  PROVE  NewIsFresh'
<1>1. ASSUME NEW f \in Execs, exec'[f].phase = "btree"
      PROVE  f # e /\ exec'[f] = exec[f] /\ exec[f].phase = "btree"
  BY Zenon, <1>1 DEF OnlyMoves
<1>2. ASSUME NEW f \in Execs, exec'[f].phase = "btree", NEW g \in Execs, Open(exec'[g])
      PROVE  ~ Slotted(exec'[g].node, exec'[f].new)
  <2>1. f # e /\ exec'[f] = exec[f] /\ exec[f].phase = "btree"
    BY Zenon, <1>2, <1>1
  <2>2. CASE g = e
    BY Zenon, <2>1, <2>2, <1>2 DEF NewIsFresh
  <2>3. CASE g # e
    <3>1. exec'[g] = exec[g]
      BY Zenon, <2>3 DEF OnlyMoves
    <3>. QED  BY Zenon, <2>1, <3>1, <1>2 DEF NewIsFresh
  <2>. QED  BY Zenon, <2>2, <2>3
<1>3. ASSUME NEW f \in Execs, exec'[f].phase = "btree"
      PROVE  /\ exec'[f].new \in Taken'
             /\ ~ stopped' => ~ Slotted(leaf', exec'[f].new)
  BY Zenon, <1>1, <1>3 DEF NewIsFresh, Taken
<1>4. ASSUME NEW f \in Execs, exec'[f].phase = "btree", NEW g \in Execs,
             g # f, exec'[g].phase = "btree"
      PROVE  exec'[g].new # exec'[f].new
  BY Zenon, <1>1, <1>4 DEF NewIsFresh
<1>. QED  BY Zenon, <1>2, <1>3, <1>4 DEF NewIsFresh

\* The cursors are finitely many.
LEMMA CursorsFinite == IsFiniteSet(Cursors)
<1>1. Cursors \subseteq Execs
  BY Zenon DEF Cursors
<1>. QED  BY Zenon, <1>1, Finite, FS_Subset

\* A step that opens no cursor and gives back no pin.
LEMMA PinsKept ==
  ASSUME PinsInv, NEW e \in Execs, OnlyMoves(e), KeepsCursor(e), pins' = pins
  PROVE  PinsInv'
<1>1. Cursors' \subseteq Cursors
  BY Zenon DEF Cursors, OnlyMoves, KeepsCursor
<1>2. /\ Cardinality(Cursors') \in Nat /\ Cardinality(Cursors) \in Nat
      /\ Cardinality(Cursors') <= Cardinality(Cursors)
  BY Zenon, <1>1, CursorsFinite, Fewer
<1>3. pins \in Nat /\ pins >= Cardinality(Cursors)
  BY Zenon DEF PinsInv, CursorIsPinned, Cursors, Open
<1>4. pins' \in Nat /\ pins' >= Cardinality(Cursors')
  BY <1>2, <1>3
<1>. QED  BY Zenon, <1>4 DEF PinsInv, CursorIsPinned, Cursors, Open

\* An executor gives back the pin of the cursor it closes.
LEMMA PinsDropped ==
  ASSUME PinsInv, NEW e \in Execs, OnlyMoves(e), Open(exec[e]), ~ Open(exec'[e]),
         pins' = pins - 1
  PROVE  PinsInv'
<1>1. Cursors' \subseteq Cursors \ {e} /\ e \in Cursors
  BY Zenon DEF Cursors, OnlyMoves
<1>2. /\ Cardinality(Cursors') \in Nat /\ Cardinality(Cursors) \in Nat
      /\ Cardinality(Cursors') + 1 <= Cardinality(Cursors)
  BY Zenon, <1>1, CursorsFinite, OneLess
<1>3. pins \in Nat /\ pins >= Cardinality(Cursors)
  BY Zenon DEF PinsInv, CursorIsPinned, Cursors, Open
<1>4. pins' \in Nat /\ pins' >= Cardinality(Cursors')
  BY <1>2, <1>3
<1>. QED  BY Zenon, <1>4 DEF PinsInv, CursorIsPinned, Cursors, Open

\* An executor pins the leaf for the cursor it opens.
LEMMA PinsTaken ==
  ASSUME PinsInv, NEW e \in Execs, OnlyMoves(e), pins' = pins + 1
  PROVE  PinsInv'
<1>1. Cursors' \subseteq Cursors \union {e}
  BY Zenon DEF Cursors, OnlyMoves
<1>2. /\ Cardinality(Cursors') \in Nat /\ Cardinality(Cursors) \in Nat
      /\ Cardinality(Cursors') <= Cardinality(Cursors) + 1
  BY Zenon, <1>1, CursorsFinite, OneMore
<1>3. pins \in Nat /\ pins >= Cardinality(Cursors)
  BY Zenon DEF PinsInv, CursorIsPinned, Cursors, Open
<1>4. pins' \in Nat /\ pins' >= Cardinality(Cursors')
  BY <1>2, <1>3
<1>. QED  BY Zenon, <1>4 DEF PinsInv, CursorIsPinned, Cursors, Open

\* The rows of a key, and the executors past the log with it, can be counted.
LEMMA Counted ==
  ASSUME NEW pk
  PROVE  /\ IsFiniteSet(RowsOf(pk)) /\ IsFiniteSet(Logged(pk))
         /\ Count(pk) \in Nat /\ Cardinality(Logged(pk)) \in Nat
<1>1. RowsOf(pk) \subseteq HeapPages \X (1 .. PageCap) /\ Logged(pk) \subseteq Execs
  BY Zenon DEF RowsOf, Logged
<1>2. IsFiniteSet(RowsOf(pk)) /\ IsFiniteSet(Logged(pk))
  BY Zenon, <1>1, Finite, FS_Subset
<1>. QED  BY Zenon, <1>2, FS_CardinalityType DEF Count

\* e is past the log, with its row not stored.
Pending(x) == x.phase \in {"walbtree", "heap"}

\* A step that stores no row, of an executor that does not pass the log.
LEMMA LogKept ==
  ASSUME Types, RowsInLog, NEW e \in Execs, OnlyMoves(e),
         Pending(exec'[e]) => Pending(exec[e]) /\ exec'[e].pk = exec[e].pk,
         UNCHANGED <<rows, log, missed>>
  PROVE  RowsInLog'
<1>1. ASSUME NEW k \in Pks
      PROVE  Count(k)' + Cardinality(Logged(k)') <= log'[k] + missed'
  <2>1. Logged(k)' \subseteq Logged(k)
    BY Zenon DEF Logged, OnlyMoves, Pending
  <2>2. /\ Cardinality(Logged(k)') \in Nat /\ Cardinality(Logged(k)) \in Nat
        /\ Cardinality(Logged(k)') <= Cardinality(Logged(k))
    BY Zenon, <2>1, Counted, Fewer
  <2>3. Count(k)' = Count(k) /\ Count(k) \in Nat
    BY Zenon, Counted DEF Count, RowsOf
  <2>4. /\ Count(k) + Cardinality(Logged(k)) <= log[k] + missed
        /\ log'[k] = log[k] /\ missed' = missed /\ log[k] \in Nat /\ missed \in Nat
    BY Zenon DEF RowsInLog, Types
  <2>. QED  BY <2>2, <2>3, <2>4
<1>. QED  BY Zenon, <1>1 DEF RowsInLog

\* A step past the log has logged the row or has been refused.
LEMMA LogPassed ==
  ASSUME Types, RowsInLog, NEW e \in Execs, OnlyMoves(e), exec'[e].pk = exec[e].pk,
         exec[e].pk \in Pks, UNCHANGED rows,
         \A k \in Pks : log'[k] \in Nat /\ log'[k] >= log[k],
         missed' \in Nat, missed' >= missed,
         missed' = missed + 1 \/ log'[exec[e].pk] = log[exec[e].pk] + 1
  PROVE  RowsInLog'
<1>1. ASSUME NEW k \in Pks
      PROVE  Count(k)' + Cardinality(Logged(k)') <= log'[k] + missed'
  <2>1. Count(k)' = Count(k) /\ Count(k) \in Nat
    BY Zenon, Counted DEF Count, RowsOf
  <2>2. /\ Count(k) + Cardinality(Logged(k)) <= log[k] + missed
        /\ log[k] \in Nat /\ missed \in Nat
        /\ log'[k] \in Nat /\ log'[k] >= log[k]
    BY Zenon DEF RowsInLog, Types
  <2>3. CASE k = exec[e].pk
    <3>1. Logged(k)' \subseteq Logged(k) \union {e}
      BY Zenon DEF Logged, OnlyMoves
    <3>2. /\ Cardinality(Logged(k)') \in Nat /\ Cardinality(Logged(k)) \in Nat
          /\ Cardinality(Logged(k)') <= Cardinality(Logged(k)) + 1
      BY Zenon, <3>1, Counted, OneMore
    <3>3. missed' = missed + 1 \/ log'[k] = log[k] + 1
      BY Zenon, <2>3
    <3>. QED  BY <2>1, <2>2, <3>2, <3>3
  <2>4. CASE k # exec[e].pk
    <3>1. Logged(k)' \subseteq Logged(k)
      BY Zenon, <2>4 DEF Logged, OnlyMoves
    <3>2. /\ Cardinality(Logged(k)') \in Nat /\ Cardinality(Logged(k)) \in Nat
          /\ Cardinality(Logged(k)') <= Cardinality(Logged(k))
      BY Zenon, <3>1, Counted, Fewer
    <3>. QED  BY <2>1, <2>2, <3>2
  <2>. QED  BY Zenon, <2>3, <2>4
<1>. QED  BY Zenon, <1>1 DEF RowsInLog

\* A step that stores the row of an executor past the log.
LEMMA RowStored ==
  ASSUME Types, RowsInLog, NEW e \in Execs, OnlyMoves(e),
         Pending(exec[e]), ~ Pending(exec'[e]), UNCHANGED <<log, missed>>, NEW x,
         \A k \in Pks : RowsOf(k)' \subseteq RowsOf(k) \union {x},
         \A k \in Pks : k # exec[e].pk => RowsOf(k)' \subseteq RowsOf(k)
  PROVE  RowsInLog'
<1>1. ASSUME NEW k \in Pks
      PROVE  Count(k)' + Cardinality(Logged(k)') <= log'[k] + missed'
  <2>1. /\ Count(k) + Cardinality(Logged(k)) <= log[k] + missed
        /\ log'[k] = log[k] /\ missed' = missed /\ log[k] \in Nat /\ missed \in Nat
    BY Zenon DEF RowsInLog, Types
  <2>2. CASE k = exec[e].pk
    <3>1. Logged(k)' \subseteq Logged(k) \ {e} /\ e \in Logged(k)
      BY Zenon, <2>2 DEF Logged, OnlyMoves, Pending
    <3>2. /\ Cardinality(Logged(k)') \in Nat /\ Cardinality(Logged(k)) \in Nat
          /\ Cardinality(Logged(k)') + 1 <= Cardinality(Logged(k))
      BY Zenon, <3>1, Counted, OneLess
    <3>3. Count(k)' \in Nat /\ Count(k) \in Nat /\ Count(k)' <= Count(k) + 1
      BY Zenon, Counted, OneMore DEF Count
    <3>. QED  BY <2>1, <3>2, <3>3
  <2>3. CASE k # exec[e].pk
    <3>1. Logged(k)' \subseteq Logged(k)
      BY Zenon DEF Logged, OnlyMoves, Pending
    <3>2. /\ Cardinality(Logged(k)') \in Nat /\ Cardinality(Logged(k)) \in Nat
          /\ Cardinality(Logged(k)') <= Cardinality(Logged(k))
      BY Zenon, <3>1, Counted, Fewer
    <3>3. Count(k)' \in Nat /\ Count(k) \in Nat /\ Count(k)' <= Count(k)
      BY Zenon, <2>3, Counted, Fewer DEF Count
    <3>. QED  BY <2>1, <3>2, <3>3
  <2>. QED  BY Zenon, <2>2, <2>3
<1>. QED  BY Zenon, <1>1 DEF RowsInLog

\* The rows q are the rows o, but for the n-th, which is pk.
OneNew(q, o, n, pk) ==
  \A i \in 1 .. Len(q) : \/ i = n /\ q[i] = pk
                         \/ i <= Len(o) /\ q[i] = o[i]

\* Storing a row in one page adds one place to the rows of its key.
LEMMA PlacesStored ==
  ASSUME NEW t \in HeapPages, rows \in [HeapPages -> Seq(Pks)], NEW q \in Seq(Pks),
         rows' = [rows EXCEPT ![t] = q], NEW n, NEW pk, OneNew(q, rows[t], n, pk)
  PROVE  /\ \A k \in Pks : RowsOf(k)' \subseteq RowsOf(k) \union {<<t, n>>}
         /\ \A k \in Pks : k # pk => RowsOf(k)' \subseteq RowsOf(k)
<1>1. rows'[t] = q /\ \A p \in HeapPages : p # t => rows'[p] = rows[p]
  BY Zenon
<1>2. ASSUME NEW k \in Pks, NEW s \in RowsOf(k)'
      PROVE  s \in RowsOf(k) \/ (s = <<t, n>> /\ k = pk)
  <2>1. /\ s \in HeapPages \X (1 .. PageCap)
        /\ s[2] <= Len(rows'[s[1]]) /\ rows'[s[1]][s[2]] = k
    BY Zenon, <1>2 DEF RowsOf
  <2>2. s[1] \in HeapPages /\ s[2] \in 1 .. PageCap /\ s = <<s[1], s[2]>>
    BY <2>1
  <2>3. CASE s[1] # t
    BY Zenon, <2>1, <2>2, <2>3, <1>1 DEF RowsOf
  <2>4. CASE s[1] = t
    <3>1. s[2] \in 1 .. Len(q) /\ q[s[2]] = k
      BY <2>1, <2>2, <2>4, <1>1, Numbers
    <3>2. CASE s[2] = n /\ q[s[2]] = pk
      BY Zenon, <3>1, <3>2, <2>2, <2>4
    <3>3. CASE s[2] <= Len(rows[t]) /\ q[s[2]] = rows[t][s[2]]
      BY Zenon, <3>1, <3>3, <2>1, <2>4 DEF RowsOf
    <3>. QED  BY Zenon, <3>1, <3>2, <3>3 DEF OneNew
  <2>. QED  BY Zenon, <2>3, <2>4
<1>. QED  BY Zenon, <1>2

\* A step of the one insert that is under way.
LEMMA AloneKept ==
  ASSUME Alone, overlap' = overlap, NEW e \in Execs, OnlyMoves(e),
         exec'[e].phase # "idle" => exec[e].phase # "idle"
  PROVE  Alone'
<1>1. \A f \in Execs : exec'[f].phase # "idle" => exec[f].phase # "idle"
  BY Zenon DEF OnlyMoves
<1>. QED  BY Zenon, <1>1 DEF Alone

\* A step that stores nothing, of an executor that has taken no page, leaves
\* the pages with rows where they are.
LEMMA RowsIndexedKept ==
  ASSUME RowsIndexed, Calm' => Calm, UNCHANGED <<leaf, rows>>,
         NEW e \in Execs, OnlyMoves(e), exec[e].phase # "btree"
  PROVE  RowsIndexed'
<1>1. ASSUME NEW f \in Execs, exec[f].phase = "btree" PROVE exec'[f] = exec[f]
  BY Zenon, <1>1 DEF OnlyMoves
<1>2. ASSUME Calm', NEW p \in HeapPages, rows'[p] # <<>>, ~ Slotted(leaf', p)
      PROVE  \E f \in Execs : exec'[f].phase = "btree" /\ exec'[f].new = p
  <2>1. PICK f \in Execs : exec[f].phase = "btree" /\ exec[f].new = p
    BY Zenon, <1>2 DEF RowsIndexed
  <2>. QED  BY Zenon, <2>1, <1>1
<1>. QED  BY Zenon, <1>2 DEF RowsIndexed

\* Such a step of an executor that keeps its cursor keeps the whole index.
LEMMA IndexKept ==
  ASSUME IndexInv, UNCHANGED <<leaf, rows, stopped, overlap, fails>>,
         NEW e \in Execs, OnlyMoves(e), KeepsCursor(e), exec[e].phase # "btree",
         exec'[e].phase # "idle" => exec[e].phase # "idle"
  PROVE  IndexInv'
<1>1. Alone'
  BY Zenon, AloneKept DEF IndexInv
<1>2. Calm' => Calm
  BY Zenon DEF Calm
<1>3. CopyIsLeaf'
  <2>1. ASSUME Calm', NEW f \in Execs, Open(exec'[f])
        PROVE  /\ exec'[f].node = leaf
               /\ exec'[f].target \in HeapPages => Slotted(leaf, exec'[f].target)
    BY Zenon, <2>1, <1>2 DEF IndexInv, CopyIsLeaf, OnlyMoves, KeepsCursor
  <2>. QED  BY Zenon, <2>1 DEF CopyIsLeaf
<1>4. RowsIndexed'
  BY Zenon, <1>2, RowsIndexedKept DEF IndexInv
<1>. QED  BY Zenon, <1>1, <1>3, <1>4 DEF IndexInv

\* The types of the executors, and of what a step has stored.
LEMMA TypesMoved ==
  ASSUME Types, NEW e \in Execs, OnlyMoves(e),
         exec'[e].phase # "idle" => exec'[e].pk \in Pks,
         leaf' \in Nodes, rows' \in [HeapPages -> Seq(Pks)],
         \A p \in HeapPages : Len(rows'[p]) <= PageCap,
         free' \subseteq HeapPages, cur' \in {0, e} \union {cur}, log' \in [Pks -> Nat],
         missed' \in Nat, fails' \in Nat, stopped' \in BOOLEAN, overlap' \in BOOLEAN
  PROVE  Types'
<1>1. \A f \in Execs : exec'[f].phase # "idle" => exec'[f].pk \in Pks
  BY Zenon DEF Types, OnlyMoves
<1>2. cur' \in 0 .. NExecs
  BY Zenon, Numbers DEF Types
<1>. QED  BY Zenon, <1>1, <1>2 DEF Types, OnlyMoves

\* The state apart from the executors and the pins is left as it is.
Rest == <<leaf, stopped, rows, free, log, missed, fails, overlap>>

\* A step of one executor that leaves the rest alone.
LEMMA ExecMoves ==
  ASSUME BInv, NEW e \in Execs, OnlyMoves(e), KeepsCursor(e), UNCHANGED Rest,
         exec[e].phase \notin {"idle", "btree"}, exec'[e].phase # "btree",
         exec'[e].phase # "idle" => exec'[e].pk = exec[e].pk,
         cur' \in {0, e} \union {cur},
         Pending(exec'[e]) => Pending(exec[e])
  PROVE  Types' /\ TreeInv' /\ RowsInLog' /\ IndexInv'
<1>1. Types'
  <2>1. exec'[e].phase # "idle" => exec'[e].pk \in Pks
    BY Zenon DEF BInv, Types
  <2>. QED  BY Zenon, <2>1, TypesMoved DEF BInv, Types, Rest
<1>2. TreeInv'
  BY Zenon, LeafKept, CursorKept, FreshKept DEF BInv, TreeInv, Rest, KeepsCursor
<1>3. RowsInLog'
  <2>1. Pending(exec'[e]) => exec'[e].pk = exec[e].pk
    BY Zenon DEF Pending
  <2>. QED  BY Zenon, <2>1, LogKept DEF BInv, Rest
<1>4. IndexInv'
  BY Zenon, IndexKept DEF BInv, Rest
<1>. QED  BY Zenon, <1>1, <1>2, <1>3, <1>4

-----------------------------------------------------------------------------
(* One lemma per handler. *)

\* A client's insert is handed to its executor.
LEMMA SubmitStep ==
  ASSUME BInv, NEW e \in Execs, NEW pk \in Pks, Submit(e, pk)
  PROVE  BInv'
<1>1. Types /\ UNCHANGED <<leaf, stopped, rows, free, log, missed, fails, pins, cur>>
  BY Zenon DEF BInv, Submit, tree
<1>2. /\ OnlyMoves(e) /\ KeepsCursor(e)
      /\ exec[e].phase = "idle" /\ exec'[e].phase = "search" /\ exec'[e].pk = pk
  BY Zenon, <1>1, SubmitEffect
<1>3. /\ overlap' \in BOOLEAN
      /\ overlap => overlap'
      /\ ~ overlap' => \A f \in Execs : exec[f].phase = "idle"
  BY Zenon, <1>1 DEF Submit, Types
<1>4. Types'
  BY Zenon, <1>1, <1>2, <1>3, TypesMoved DEF Types
<1>5. PinsInv'
  BY Zenon, <1>1, <1>2, PinsKept DEF BInv
<1>6. TreeInv'
  BY Zenon, <1>1, <1>2, LeafKept, CursorKept, FreshKept DEF BInv, TreeInv, KeepsCursor
<1>7. RowsInLog'
  <2>1. ~ Pending(exec'[e])
    BY <1>2 DEF Pending
  <2>. QED  BY Zenon, <1>1, <1>2, <2>1, LogKept DEF BInv
<1>8. IndexInv'
  <2>1. ASSUME ~ overlap' PROVE \A f \in Execs : f # e => exec'[f].phase = "idle"
    BY Zenon, <2>1, <1>2, <1>3 DEF OnlyMoves
  <2>2. Alone'
    BY Zenon, <2>1 DEF Alone
  <2>3. Calm' => Calm
    BY Zenon, <1>1, <1>3 DEF Calm
  <2>4. ASSUME NEW f \in Execs, Open(exec'[f]) PROVE Open(exec[f]) /\ exec'[f] = exec[f]
    <3>1. f # e
      BY <1>2, <2>4 DEF Open
    <3>. QED  BY Zenon, <3>1, <1>2, <2>4 DEF OnlyMoves
  <2>5. CopyIsLeaf'
    BY Zenon, <1>1, <2>3, <2>4 DEF BInv, IndexInv, CopyIsLeaf
  <2>6. RowsIndexed'
    <3>1. exec[e].phase # "btree"
      BY <1>2
    <3>. QED  BY Zenon, <1>1, <1>2, <2>3, <3>1, RowsIndexedKept DEF BInv, IndexInv
  <2>. QED  BY Zenon, <2>2, <2>5, <2>6 DEF IndexInv
<1>. QED  BY Zenon, <1>4, <1>5, <1>6, <1>7, <1>8 DEF BInv

\* The dshell proc takes an executor up, or its slice is over.
LEMMA QuietStep ==
  ASSUME BInv, UNCHANGED <<tree, pins, rows, free, exec, log, missed, bounds>>,
         cur' \in 0 .. NExecs
  PROVE  BInv'
<1>1. UNCHANGED <<leaf, stopped, pins, rows, free, exec, log, missed, fails, overlap>>
  BY Zenon DEF tree, bounds
<1>2. Types'
  BY Zenon, <1>1 DEF BInv, Types
<1>3. PinsInv'
  BY Zenon, <1>1 DEF BInv, PinsInv, CursorIsPinned
<1>4. TreeInv'
  BY Zenon, <1>1 DEF BInv, TreeInv, LeafSound, CopiesSound, NewIsFresh, Taken
<1>5. RowsInLog'
  BY Zenon, <1>1 DEF BInv, RowsInLog, Count, RowsOf, Logged
<1>6. IndexInv'
  BY ZenonT(20), <1>1 DEF BInv, IndexInv, Alone, CopyIsLeaf, RowsIndexed, Calm
<1>. QED  BY Zenon, <1>2, <1>3, <1>4, <1>5, <1>6 DEF BInv

\* A duplicate ends the insert, and so does a heap page without room.
LEMMA EndStep ==
  ASSUME BInv, SearchFindsDup \/ HeapInsertFails
  PROVE  BInv'
<1>1. Types /\ UNCHANGED <<tree, pins, rows, free, log, missed, bounds>> /\ Finish
  BY Zenon DEF BInv, SearchFindsDup, HeapInsertFails
<1>2. cur \in Execs /\ exec[cur].phase \in {"search", "heap"}
  BY Zenon, <1>1, AtCur DEF SearchFindsDup, HeapInsertFails
<1>3. /\ OnlyMoves(cur) /\ KeepsCursor(cur)
      /\ exec'[cur].phase = "idle" /\ ~ Open(exec'[cur]) /\ cur' = 0
  BY Zenon, <1>1, <1>2, FinishEffect
<1>4. UNCHANGED Rest /\ pins' = pins
  BY Zenon, <1>1 DEF Rest, tree, bounds
<1>5. PinsInv'
  BY Zenon, <1>2, <1>3, <1>4, PinsKept DEF BInv
<1>6. /\ exec[cur].phase \notin {"idle", "btree"} /\ ~ Pending(exec'[cur])
      /\ exec'[cur].phase # "btree"
  BY <1>2, <1>3 DEF Pending
<1>7. Types' /\ TreeInv' /\ RowsInLog' /\ IndexInv'
  BY Zenon, <1>2, <1>3, <1>4, <1>6, ExecMoves
<1>. QED  BY Zenon, <1>5, <1>7 DEF BInv

\* The search pins the leaf and copies it.
LEMMA SearchStep ==
  ASSUME BInv, Search
  PROVE  BInv'
<1>1. Types /\ LeafSound /\ UNCHANGED <<tree, rows, free, cur, log, missed, bounds>> /\ pins' = pins + 1
  BY Zenon DEF BInv, TreeInv, Search
<1>2. cur \in Execs /\ ~ stopped /\ exec[cur].phase = "search"
  BY Zenon, <1>1, AtCur DEF Search
<1>3. /\ OnlyMoves(cur)
      /\ exec'[cur].phase \in {"walinit", "walinsert"}
      /\ exec'[cur].pk = exec[cur].pk /\ exec[cur].pk \in Pks
      /\ exec'[cur].node = leaf
      /\ Fits(leaf, exec'[cur].pos, exec[cur].pk)
      /\ exec'[cur].target \in HeapPages => Slotted(leaf, exec'[cur].target)
  BY Zenon, <1>1, SearchEffect
<1>4. UNCHANGED Rest /\ cur' = cur
  BY Zenon, <1>1 DEF Rest, tree, bounds
<1>5. exec'[cur].phase # "btree" /\ ~ Pending(exec'[cur]) /\ exec[cur].phase # "idle"
  BY ZenonT(40), <1>2, <1>3 DEF Pending
<1>6. Types'
  BY Zenon, <1>1, <1>2, <1>3, <1>4, TypesMoved DEF Types, Rest
<1>7. PinsInv'
  BY Zenon, <1>1, <1>2, <1>3, PinsTaken DEF BInv
<1>8. TreeInv'
  <2>1. Sound(leaf, Taken)
    BY Zenon, <1>1, <1>2 DEF LeafSound
  <2>2. CopiesSound'
    BY Zenon, <1>2, <1>3, <1>4, <2>1, CopiesKept DEF BInv, TreeInv, Rest
  <2>. QED  BY Zenon, <1>2, <1>3, <1>4, <1>5, <2>2, LeafKept, FreshKept
               DEF BInv, TreeInv, Rest
<1>9. RowsInLog'
  BY ZenonT(20), <1>1, <1>2, <1>3, <1>4, <1>5, LogKept DEF BInv, Rest
<1>10. IndexInv'
  <2>1. Alone'
    BY ZenonT(20), <1>2, <1>3, <1>4, <1>5, AloneKept DEF BInv, IndexInv, Rest
  <2>2. Calm' => Calm
    BY Zenon, <1>4 DEF Calm, Rest
  <2>3. leaf' = leaf /\ rows' = rows
    BY Zenon, <1>4 DEF Rest
  <2>4. ASSUME Calm, NEW f \in Execs, Open(exec'[f])
        PROVE  /\ exec'[f].node = leaf
               /\ exec'[f].target \in HeapPages => Slotted(leaf, exec'[f].target)
    BY Zenon, <2>4, <1>3 DEF BInv, IndexInv, CopyIsLeaf, OnlyMoves
  <2>5. CopyIsLeaf'
    BY Zenon, <2>2, <2>3, <2>4 DEF CopyIsLeaf
  <2>6. RowsIndexed'
    <3>1. exec[cur].phase # "btree"
      BY <1>2
    <3>. QED  BY ZenonT(20), <1>2, <1>3, <2>2, <2>3, <3>1, RowsIndexedKept
                 DEF BInv, IndexInv
  <2>. QED  BY Zenon, <2>1, <2>5, <2>6 DEF IndexInv
<1>. QED  BY Zenon, <1>6, <1>7, <1>8, <1>9, <1>10 DEF BInv

\* The init-page and the B-tree record: the executor only goes on.
LEMMA WalStep ==
  ASSUME BInv, WalInitPage \/ WalBtree
  PROVE  BInv'
<1>1. Types /\ UNCHANGED <<tree, pins, rows, free, log, missed, bounds>>
  BY Zenon DEF BInv, WalInitPage, WalBtree
<1>2. PICK ph \in {"walinsert", "heap"} :
        /\ cur \in Execs /\ exec[cur].phase \in {"walinit", "walbtree"} /\ Goto(ph)
        /\ ph = "heap" => exec[cur].phase = "walbtree"
  BY Zenon, <1>1, AtCur DEF WalInitPage, WalBtree
<1>3. ph \in PhaseNames /\ Open(exec[cur]) /\ exec[cur].phase \notin {"idle", "btree"}
  BY <1>2 DEF PhaseNames, Open
<1>4. /\ OnlyMoves(cur) /\ KeepsCursor(cur)
      /\ exec'[cur].phase = ph /\ exec'[cur].pk = exec[cur].pk /\ cur' = cur
  BY Zenon, <1>1, <1>2, <1>3, GotoEffect
<1>5. UNCHANGED Rest /\ pins' = pins
  BY Zenon, <1>1 DEF Rest, tree, bounds
<1>6. exec'[cur].phase # "btree" /\ (Pending(exec'[cur]) => Pending(exec[cur]))
  BY <1>2, <1>4 DEF Pending
<1>7. PinsInv'
  BY Zenon, <1>2, <1>4, <1>5, PinsKept DEF BInv
<1>8. Types' /\ TreeInv' /\ RowsInLog' /\ IndexInv'
  BY Zenon, <1>2, <1>3, <1>4, <1>5, <1>6, ExecMoves
<1>. QED  BY Zenon, <1>7, <1>8 DEF BInv

\* The row's record: it is in the log, or the log has refused it.
LEMMA WalInsertStep ==
  ASSUME BInv, WalInsert \/ WalInsertFails
  PROVE  BInv'
<1>1. /\ Types /\ UNCHANGED <<tree, pins, rows, free, bounds>> /\ At("walinsert")
      /\ WalNext
  BY Zenon DEF BInv, WalInsert, WalInsertFails
<1>2. PICK ph \in {"walbtree", "heap"} : Goto(ph)
  BY Zenon, <1>1 DEF WalNext
<1>3. cur \in Execs /\ exec[cur].phase = "walinsert"
  BY Zenon, <1>1, AtCur
<1>4. ph \in PhaseNames /\ Open(exec[cur]) /\ exec[cur].phase \notin {"idle", "btree"}
  BY <1>2, <1>3 DEF PhaseNames, Open
<1>5. /\ OnlyMoves(cur) /\ KeepsCursor(cur)
      /\ exec'[cur].phase = ph /\ exec'[cur].pk = exec[cur].pk /\ cur' = cur
  BY Zenon, <1>1, <1>2, <1>3, <1>4, GotoEffect
<1>6. exec[cur].pk \in Pks
  BY Zenon, <1>1, <1>3, <1>4 DEF Types
<1>7. /\ log' \in [Pks -> Nat] /\ missed' \in Nat /\ missed' >= missed
      /\ \A k \in Pks : log'[k] \in Nat /\ log'[k] >= log[k]
      /\ missed' = missed + 1 \/ log'[exec[cur].pk] = log[exec[cur].pk] + 1
  <2>1. log \in [Pks -> Nat] /\ missed \in Nat
    BY Zenon, <1>1 DEF Types
  <2>2. CASE WalInsert
    <3>1. log' = [log EXCEPT ![exec[cur].pk] = log[exec[cur].pk] + 1] /\ missed' = missed
      BY Zenon, <2>2 DEF WalInsert
    <3>. QED  BY <1>6, <2>1, <3>1
  <2>3. CASE WalInsertFails
    <3>1. log' = log /\ missed' = missed + 1
      BY Zenon, <2>3 DEF WalInsertFails
    <3>. QED  BY <2>1, <3>1
  <2>. QED  BY Zenon, <2>2, <2>3
<1>8. UNCHANGED <<leaf, stopped, rows, free, fails, overlap, pins>>
  BY Zenon, <1>1 DEF tree, bounds
<1>9. Types'
  BY ZenonT(20), <1>1, <1>3, <1>5, <1>6, <1>7, <1>8, TypesMoved DEF Types
<1>10. PinsInv'
  BY Zenon, <1>3, <1>5, <1>8, PinsKept DEF BInv
<1>11. exec'[cur].phase # "btree" /\ exec'[cur].phase # "idle"
  BY <1>2, <1>5
<1>12. TreeInv'
  BY ZenonT(20), <1>3, <1>5, <1>8, <1>11, LeafKept, CursorKept, FreshKept
     DEF BInv, TreeInv, KeepsCursor
<1>13. RowsInLog'
  BY ZenonT(20), <1>1, <1>3, <1>5, <1>6, <1>7, <1>8, LogPassed DEF BInv
<1>14. IndexInv'
  BY Zenon, <1>3, <1>4, <1>5, <1>8, IndexKept DEF BInv
<1>. QED  BY Zenon, <1>9, <1>10, <1>12, <1>13, <1>14 DEF BInv

\* The row goes into the heap page the search found.
LEMMA HeapInsertStep ==
  ASSUME BInv, HeapInsert
  PROVE  BInv'
<1>1. /\ Types /\ UNCHANGED <<tree, free, log, missed, bounds>> /\ Finish
      /\ At("heap") /\ HasSpace(exec[cur].target) /\ pins' = pins - 1
      /\ rows' = [rows EXCEPT ![exec[cur].target] = Append(rows[exec[cur].target], exec[cur].pk)]
  BY Zenon DEF BInv, HeapInsert
<1>2. cur \in Execs /\ exec[cur].phase = "heap"
  BY Zenon, <1>1, AtCur
<1>3. /\ OnlyMoves(cur) /\ KeepsCursor(cur)
      /\ exec'[cur].phase = "idle" /\ ~ Open(exec'[cur]) /\ cur' = 0
  BY Zenon, <1>1, <1>2, FinishEffect
<1>4. /\ exec[cur].phase \notin {"idle", "btree"} /\ Open(exec[cur]) /\ Pending(exec[cur])
      /\ ~ Pending(exec'[cur]) /\ exec'[cur].phase # "btree"
  BY <1>2, <1>3 DEF Open, Pending
<1>5. exec[cur].pk \in Pks
  BY Zenon, <1>1, <1>2, <1>4 DEF Types
<1>6. PICK t \in HeapPages : t = exec[cur].target
  BY Zenon, <1>1 DEF HasSpace
<1>7. PICK q : q = Append(rows[t], exec[cur].pk)
  BY Zenon
<1>8. /\ rows \in [HeapPages -> Seq(Pks)] /\ rows[t] \in Seq(Pks)
      /\ Len(rows[t]) < PageCap /\ rows' = [rows EXCEPT ![t] = q]
  BY Zenon, <1>1, <1>6, <1>7 DEF Types, HasSpace
<1>9. /\ q \in Seq(Pks) /\ Len(q) <= PageCap
      /\ \A i \in 1 .. Len(q) : \/ i = Len(rows[t]) + 1 /\ q[i] = exec[cur].pk
                                \/ i <= Len(rows[t]) /\ q[i] = rows[t][i]
  BY SMTT(20), Z3T(20), <1>5, <1>7, <1>8, Numbers
<1>10. /\ rows' \in [HeapPages -> Seq(Pks)] /\ rows'[t] = q
       /\ \A p \in HeapPages : p # t => rows'[p] = rows[p]
  BY Zenon, <1>8, <1>9
<1>11. UNCHANGED <<leaf, stopped, free, log, missed, fails, overlap>>
  BY Zenon, <1>1 DEF tree, bounds
<1>12. Types'
  <2>1. \A p \in HeapPages : Len(rows'[p]) <= PageCap
    BY Zenon, <1>1, <1>9, <1>10 DEF Types
  <2>. QED  BY ZenonT(20), <1>1, <1>2, <1>3, <1>10, <1>11, <2>1, TypesMoved DEF Types
<1>13. PinsInv'
  BY Zenon, <1>1, <1>2, <1>3, <1>4, PinsDropped DEF BInv
<1>14. TreeInv'
  BY Zenon, <1>2, <1>3, <1>4, <1>11, LeafKept, CursorKept, FreshKept DEF BInv, TreeInv
<1>15. RowsInLog'
  <2>1. /\ \A k \in Pks : RowsOf(k)' \subseteq RowsOf(k) \union {<<t, Len(rows[t]) + 1>>}
        /\ \A k \in Pks : k # exec[cur].pk => RowsOf(k)' \subseteq RowsOf(k)
    <3>1. OneNew(q, rows[t], Len(rows[t]) + 1, exec[cur].pk)
      BY Zenon, <1>9 DEF OneNew
    <3>. QED  BY ZenonT(40), <1>8, <1>9, <3>1, PlacesStored
  <2>. QED  BY ZenonT(20), <1>1, <1>2, <1>3, <1>4, <1>11, <2>1, RowStored DEF BInv
<1>16. IndexInv'
  <2>1. Alone'
    BY Zenon, <1>2, <1>3, <1>11, AloneKept DEF BInv, IndexInv
  <2>2. Calm' => Calm
    BY Zenon, <1>11 DEF Calm
  <2>3. ASSUME NEW f \in Execs, Open(exec'[f]) PROVE Open(exec[f]) /\ exec'[f] = exec[f]
    BY Zenon, <1>3, <2>3 DEF OnlyMoves
  <2>4. CopyIsLeaf'
    BY Zenon, <1>11, <2>2, <2>3 DEF BInv, IndexInv, CopyIsLeaf
  <2>5. ASSUME NEW f \in Execs, exec[f].phase = "btree" PROVE exec'[f] = exec[f]
    BY Zenon, <1>3, <1>4, <2>5 DEF OnlyMoves
  <2>6. RowsIndexed'
    <3>1. ASSUME Calm', NEW p \in HeapPages, rows'[p] # <<>>, ~ Slotted(leaf', p)
          PROVE  \E f \in Execs : exec'[f].phase = "btree" /\ exec'[f].new = p
      <4>1. Slotted(leaf, t) /\ leaf' = leaf
        BY Zenon, <1>2, <1>4, <1>6, <1>11, <2>2, <3>1 DEF BInv, IndexInv, CopyIsLeaf
      <4>2. rows[p] # <<>> /\ ~ Slotted(leaf, p)
        BY Zenon, <4>1, <3>1, <1>10
      <4>3. PICK f \in Execs : exec[f].phase = "btree" /\ exec[f].new = p
        BY Zenon, <4>2, <3>1, <2>2 DEF BInv, IndexInv, RowsIndexed
      <4>. QED  BY Zenon, <4>3, <2>5
    <3>. QED  BY Zenon, <3>1 DEF RowsIndexed
  <2>. QED  BY Zenon, <2>1, <2>4, <2>6 DEF IndexInv
<1>. QED  BY Zenon, <1>12, <1>13, <1>14, <1>15, <1>16 DEF BInv

\* The row goes into a page the allocator gives.
LEMMA HeapGrowStep ==
  ASSUME BInv, HeapGrow
  PROVE  BInv'
<1>1. Types /\ TreeInv /\ UNCHANGED <<tree, pins, cur, log, missed, bounds>> /\ At("heap")
  BY Zenon DEF BInv, HeapGrow
<1>2. cur \in Execs /\ ~ stopped /\ exec[cur].phase = "heap"
  BY Zenon, <1>1, AtCur
<1>3. PICK p \in free :
        /\ free' = free \ {p}
        /\ rows' = [rows EXCEPT ![p] = <<exec[cur].pk>>]
        /\ OnlyMoves(cur) /\ KeepsCursor(cur)
        /\ exec'[cur].phase = "btree" /\ exec'[cur].new = p
        /\ exec'[cur].pk = exec[cur].pk
  BY Zenon, <1>1, GrowEffect
<1>4. /\ exec[cur].phase \notin {"idle", "btree"} /\ Open(exec[cur]) /\ Pending(exec[cur])
      /\ ~ Pending(exec'[cur]) /\ exec'[cur].phase # "idle"
  BY <1>2, <1>3 DEF Open, Pending
<1>5. exec[cur].pk \in Pks /\ p \in HeapPages /\ rows \in [HeapPages -> Seq(Pks)]
  BY Zenon, <1>1, <1>2, <1>4 DEF Types
<1>6. PICK q : q = <<exec[cur].pk>>
  BY Zenon
<1>7. /\ q \in Seq(Pks) /\ Len(q) <= PageCap
      /\ \A i \in 1 .. Len(q) : i = 1 /\ q[i] = exec[cur].pk
  BY SMTT(20), Z3T(20), <1>5, <1>6, Numbers
<1>8. /\ rows' = [rows EXCEPT ![p] = q]
      /\ rows' \in [HeapPages -> Seq(Pks)] /\ rows'[p] = q
      /\ \A r \in HeapPages : r # p => rows'[r] = rows[r]
  BY Zenon, <1>3, <1>5, <1>6, <1>7
<1>9. UNCHANGED <<leaf, stopped, log, missed, fails, overlap, pins, cur>> /\ free' \subseteq free
  BY Zenon, <1>1, <1>3 DEF tree, bounds
<1>10. Types'
  <2>1. \A r \in HeapPages : Len(rows'[r]) <= PageCap
    BY Zenon, <1>1, <1>7, <1>8 DEF Types
  <2>2. exec'[cur].pk \in Pks
    BY Zenon, <1>3, <1>5
  <2>. QED  BY ZenonT(40), <1>1, <1>2, <1>3, <1>8, <1>9, <2>1, <2>2, TypesMoved DEF Types
<1>11. PinsInv'
  BY Zenon, <1>2, <1>3, <1>9, PinsKept DEF BInv
<1>12. NewIsFresh'
  <2>1. p \notin Taken /\ Taken' = Taken \union {p}
    BY Zenon, <1>3, <1>5 DEF Taken
  <2>2. ~ Slotted(leaf, p)
    BY Zenon, <1>1, <1>2, <2>1 DEF TreeInv, LeafSound, Sound, Slotted
  <2>3. ASSUME NEW g \in Execs, Open(exec'[g])
        PROVE  Open(exec[g]) /\ exec'[g].node = exec[g].node /\ ~ Slotted(exec[g].node, p)
    <3>1. Open(exec[g]) /\ exec'[g].node = exec[g].node
      BY Zenon, <1>3, <2>3 DEF OnlyMoves, KeepsCursor
    <3>. QED  BY Zenon, <1>1, <2>1, <3>1 DEF TreeInv, CopiesSound, Sound, Slotted
  <2>4. ASSUME NEW f \in Execs, exec'[f].phase = "btree"
        PROVE  \/ f = cur
               \/ f # cur /\ exec'[f] = exec[f] /\ exec[f].new \in Taken /\ exec[f].phase = "btree"
    BY Zenon, <1>1, <1>3, <2>4 DEF OnlyMoves, TreeInv, NewIsFresh
  <2>5. ASSUME NEW f \in Execs, exec'[f].phase = "btree"
        PROVE  /\ exec'[f].new \in Taken'
               /\ ~ stopped' => ~ Slotted(leaf', exec'[f].new)
    BY ZenonT(40), <1>1, <1>3, <1>9, <2>1, <2>2, <2>4, <2>5 DEF TreeInv, NewIsFresh
  <2>6. ASSUME NEW f \in Execs, exec'[f].phase = "btree", NEW g \in Execs, Open(exec'[g])
        PROVE  ~ Slotted(exec'[g].node, exec'[f].new)
    BY ZenonT(20), <1>1, <1>3, <2>3, <2>4, <2>6 DEF TreeInv, NewIsFresh
  <2>7. ASSUME NEW f \in Execs, exec'[f].phase = "btree", NEW g \in Execs,
               g # f, exec'[g].phase = "btree"
        PROVE  exec'[g].new # exec'[f].new
    BY ZenonT(20), <1>1, <1>3, <2>1, <2>4, <2>7 DEF TreeInv, NewIsFresh
  <2>. QED  BY Zenon, <2>5, <2>6, <2>7 DEF NewIsFresh
<1>13. TreeInv'
  BY ZenonT(20), <1>1, <1>2, <1>3, <1>9, <1>12, LeafKept, CursorKept DEF TreeInv
<1>14. RowsInLog'
  <2>1. /\ \A k \in Pks : RowsOf(k)' \subseteq RowsOf(k) \union {<<p, 1>>}
        /\ \A k \in Pks : k # exec[cur].pk => RowsOf(k)' \subseteq RowsOf(k)
    <3>1. OneNew(q, rows[p], 1, exec[cur].pk)
      BY Zenon, <1>7 DEF OneNew
    <3>2. q \in Seq(Pks) /\ rows' = [rows EXCEPT ![p] = q]
      BY Zenon, <1>7, <1>8
    <3>. QED  BY ZenonT(40), <1>5, <3>1, <3>2, PlacesStored
  <2>. QED  BY ZenonT(40), <1>1, <1>2, <1>3, <1>4, <1>9, <2>1, RowStored DEF BInv
<1>15. IndexInv'
  <2>1. Alone'
    BY Zenon, <1>2, <1>3, <1>4, <1>9, AloneKept DEF BInv, IndexInv
  <2>2. Calm' => Calm
    BY Zenon, <1>9 DEF Calm
  <2>3. ASSUME NEW f \in Execs, Open(exec'[f])
        PROVE  /\ Open(exec[f]) /\ exec'[f].node = exec[f].node
               /\ exec'[f].target = exec[f].target
    BY Zenon, <1>3, <2>3 DEF OnlyMoves, KeepsCursor
  <2>4. CopyIsLeaf'
    BY Zenon, <1>9, <2>2, <2>3 DEF BInv, IndexInv, CopyIsLeaf
  <2>5. ASSUME NEW f \in Execs, exec[f].phase = "btree" PROVE exec'[f] = exec[f]
    BY Zenon, <1>3, <1>4, <2>5 DEF OnlyMoves
  <2>6. RowsIndexed'
    <3>1. ASSUME Calm', NEW r \in HeapPages, rows'[r] # <<>>, ~ Slotted(leaf', r)
          PROVE  \E f \in Execs : exec'[f].phase = "btree" /\ exec'[f].new = r
      <4>1. CASE r = p
        BY Zenon, <4>1, <1>2, <1>3
      <4>2. CASE r # p
        <5>1. rows[r] # <<>> /\ ~ Slotted(leaf, r)
          BY Zenon, <4>2, <3>1, <1>8, <1>9
        <5>2. PICK f \in Execs : exec[f].phase = "btree" /\ exec[f].new = r
          BY ZenonT(40), <5>1, <3>1, <2>2 DEF BInv, IndexInv, RowsIndexed
        <5>. QED  BY Zenon, <5>2, <2>5
      <4>. QED  BY Zenon, <4>1, <4>2
    <3>. QED  BY Zenon, <3>1 DEF RowsIndexed
  <2>. QED  BY Zenon, <2>1, <2>4, <2>6 DEF IndexInv
<1>. QED  BY Zenon, <1>10, <1>11, <1>13, <1>14, <1>15 DEF BInv

\* The executor's copy, with its page put in, becomes the leaf.
LEMMA BtreeInsertStep ==
  ASSUME BInv, BtreeInsert
  PROVE  BInv'
<1>1. /\ Types /\ TreeInv /\ UNCHANGED <<rows, free, log, missed, stopped, bounds>> /\ Finish
      /\ At("btree") /\ exec[cur].node.n < MaxKeys /\ pins' = pins - 1
      /\ leaf' = InsertAt(exec[cur].node, exec[cur].pos, exec[cur].pk, exec[cur].new)
  BY Zenon DEF BInv, BtreeInsert, Inserted
<1>2. cur \in Execs /\ ~ stopped /\ exec[cur].phase = "btree" /\ exec[cur] \in Records
  BY Zenon, <1>1, AtCur
<1>3. /\ OnlyMoves(cur) /\ KeepsCursor(cur)
      /\ exec'[cur].phase = "idle" /\ ~ Open(exec'[cur]) /\ cur' = 0
  BY Zenon, <1>1, <1>2, FinishEffect
<1>4. /\ Open(exec[cur]) /\ exec[cur].phase # "idle"
      /\ ~ Pending(exec'[cur]) /\ exec'[cur].phase # "btree"
  BY <1>2, <1>3 DEF Open, Pending
<1>5. PICK node, pos, pk, new :
        /\ node = exec[cur].node /\ pos = exec[cur].pos /\ pk = exec[cur].pk
        /\ new = exec[cur].new
  BY Zenon
<1>6. node \in Nodes /\ pk \in Nat /\ pos \in 0 .. MaxKeys
  <2>1. pk \in Pks
    BY Zenon, <1>1, <1>2, <1>4, <1>5 DEF Types
  <2>. QED  BY ZenonT(40), <2>1, <1>2, <1>5, Numbers DEF Records
<1>7. /\ Sound(node, Taken) /\ Fits(node, pos, pk)
      /\ new \in Taken /\ ~ Slotted(node, new)
  BY Zenon, <1>1, <1>2, <1>4, <1>5 DEF TreeInv, CopiesSound, NewIsFresh
<1>8. Taken \subseteq Nat /\ new \in Nat /\ pos \in 0 .. node.n /\ node.n < MaxKeys
  BY Zenon, <1>1, <1>5, <1>7, Numbers DEF Taken, Fits
<1>9. leaf' = InsertAt(node, pos, pk, new)
  BY Zenon, <1>1, <1>5
<1>10. Sound(leaf', Taken)
  BY Zenon, <1>6, <1>7, <1>8, <1>9, InsertAtSound
<1>11. ASSUME NEW p PROVE Slotted(leaf', p) <=> Slotted(node, p) \/ p = new
  BY Zenon, <1>6, <1>8, <1>9, InsertAtSlots
<1>12. UNCHANGED <<rows, free, log, missed, stopped, fails, overlap>>
  BY Zenon, <1>1 DEF bounds
<1>13. Types'
  <2>1. PICK M \in [Cells -> Nat] : leaf' = [n |-> node.n + 1, mem |-> M]
    <3>1. pos \in 0 .. MaxKeys /\ pk \in Nat
      BY Zenon, <1>6, <1>8, Numbers
    <3>2. IsNode(leaf', node.n + 1)
      BY ZenonT(20), <1>6, <1>8, <1>9, <3>1, InsertAtTypes
    <3>. QED  BY Zenon, <3>2 DEF IsNode
  <2>2. leaf' \in Nodes
    BY SMTT(20), Z3T(20), <2>1, <1>6, <1>8, Numbers DEF Nodes
  <2>. QED  BY ZenonT(20), <1>1, <1>2, <1>3, <1>12, <2>2, TypesMoved DEF Types
<1>14. PinsInv'
  BY Zenon, <1>1, <1>2, <1>3, <1>4, PinsDropped DEF BInv
<1>15. Taken' = Taken
  BY Zenon, <1>12 DEF Taken
<1>16. NewIsFresh'
  <2>1. ASSUME NEW f \in Execs, exec'[f].phase = "btree"
        PROVE  f # cur /\ exec'[f] = exec[f] /\ exec[f].phase = "btree"
    BY Zenon, <1>3, <1>4, <2>1 DEF OnlyMoves
  <2>2. ASSUME NEW f \in Execs, exec'[f].phase = "btree"
        PROVE  /\ exec'[f].new \in Taken'
               /\ ~ Slotted(leaf', exec'[f].new)
    <3>1. exec[f].new # new /\ ~ Slotted(node, exec[f].new) /\ exec[f].new \in Taken
      BY Zenon, <1>1, <1>2, <1>4, <1>5, <2>1, <2>2 DEF TreeInv, NewIsFresh
    <3>. QED  BY Zenon, <3>1, <2>1, <2>2, <1>11, <1>15
  <2>3. ASSUME NEW g \in Execs, Open(exec'[g]) PROVE Open(exec[g]) /\ exec'[g] = exec[g]
    BY Zenon, <1>3, <2>3 DEF OnlyMoves
  <2>. QED  BY Zenon, <1>1, <2>1, <2>2, <2>3 DEF TreeInv, NewIsFresh
<1>17. TreeInv'
  <2>1. LeafSound'
    BY Zenon, <1>10, <1>15 DEF LeafSound
  <2>2. CopiesSound'
    BY Zenon, <1>1, <1>2, <1>3, <1>12, CursorKept DEF TreeInv
  <2>. QED  BY Zenon, <2>1, <2>2, <1>16 DEF TreeInv
<1>18. RowsInLog'
  BY ZenonT(40), <1>1, <1>2, <1>3, <1>4, <1>12, LogKept DEF BInv
<1>19. IndexInv'
  <2>1. Alone'
    BY Zenon, <1>2, <1>3, <1>4, <1>12, AloneKept DEF BInv, IndexInv
  <2>2. Calm' => Calm
    BY Zenon, <1>12 DEF Calm
  <2>3. ASSUME Calm, NEW f \in Execs, exec[f].phase # "idle" PROVE f = cur
    BY Zenon, <1>2, <1>4, <2>3 DEF BInv, IndexInv, Alone, Calm
  <2>4. CopyIsLeaf'
    <3>1. ASSUME Calm', NEW f \in Execs PROVE ~ Open(exec'[f])
      <4>1. CASE f = cur
        BY Zenon, <4>1, <1>3
      <4>2. CASE f # cur
        <5>1. exec'[f] = exec[f] /\ exec[f].phase = "idle"
          BY Zenon, <4>2, <3>1, <2>2, <2>3, <1>3 DEF OnlyMoves
        <5>. QED  BY Zenon, <5>1 DEF Open
      <4>. QED  BY Zenon, <4>1, <4>2
    <3>. QED  BY Zenon, <3>1 DEF CopyIsLeaf
  <2>5. RowsIndexed'
    <3>1. ASSUME Calm', NEW p \in HeapPages, rows'[p] # <<>>
          PROVE  Slotted(leaf', p)
      <4>1. CASE Slotted(leaf, p)
        <5>1. node = leaf
          BY Zenon, <3>1, <2>2, <1>2, <1>4, <1>5 DEF BInv, IndexInv, CopyIsLeaf
        <5>. QED  BY Zenon, <4>1, <5>1, <1>11
      <4>2. CASE ~ Slotted(leaf, p)
        <5>1. PICK f \in Execs : exec[f].phase = "btree" /\ exec[f].new = p
          BY Zenon, <4>2, <3>1, <2>2, <1>12 DEF BInv, IndexInv, RowsIndexed
        <5>2. exec[f].phase # "idle"
          BY <5>1
        <5>3. f = cur
          BY ZenonT(40), <5>2, <3>1, <2>2, <2>3
        <5>. QED  BY Zenon, <5>1, <5>3, <1>5, <1>11
      <4>. QED  BY Zenon, <4>1, <4>2
    <3>. QED  BY Zenon, <3>1 DEF RowsIndexed
  <2>. QED  BY Zenon, <2>1, <2>4, <2>5 DEF IndexInv
<1>. QED  BY Zenon, <1>13, <1>14, <1>17, <1>18, <1>19 DEF BInv

\* A full leaf: what is stored past its arrays is still words of the node.
LEMMA SplitStep ==
  ASSUME BInv, Split
  PROVE  BInv'
<1>1. /\ Types /\ UNCHANGED <<pins, rows, free, exec, cur, log, missed, bounds>>
      /\ At("btree") /\ stopped' = TRUE
      /\ leaf' = [InsertAt(exec[cur].node, exec[cur].pos, exec[cur].pk, exec[cur].new)
                   EXCEPT !.n = MaxKeys \div 2, !.mem[NextCell] = Sibling]
  BY Zenon DEF BInv, Split, Inserted
<1>2. cur \in Execs /\ exec[cur].phase = "btree" /\ exec[cur] \in Records
  BY Zenon, <1>1, AtCur
<1>3. UNCHANGED <<pins, rows, free, exec, cur, log, missed, fails, overlap>>
  BY Zenon, <1>1 DEF bounds
<1>4. Types'
  <2>1. /\ exec[cur].node \in Nodes /\ exec[cur].pos \in 0 .. MaxKeys
        /\ exec[cur].pk \in Nat /\ exec[cur].new \in Nat
    <3>1. \A y \in Records : /\ y.node \in Nodes /\ y.pos \in 0 .. MaxKeys
                              /\ y.pk \in Pks \union {0} /\ y.new \in HeapPages \union {0}
      BY DEF Records
    <3>2. Pks \union {0} \subseteq Nat /\ HeapPages \union {0} \subseteq Nat
      BY Numbers
    <3>. QED  BY Zenon, <1>2, <3>1, <3>2
  <2>2. PICK x : x = InsertAt(exec[cur].node, exec[cur].pos, exec[cur].pk, exec[cur].new)
    OBVIOUS
  <2>3. PICK M \in [Cells -> Nat] : x = [n |-> exec[cur].node.n + 1, mem |-> M]
    <3>1. IsNode(x, exec[cur].node.n + 1)
      BY Zenon, <2>1, <2>2, InsertAtTypes
    <3>. QED  BY Zenon, <3>1 DEF IsNode
  <2>4. [M EXCEPT ![NextCell] = Sibling] \in [Cells -> Nat]
    BY Zenon, <2>3, Numbers
  <2>5. leaf' = [n |-> MaxKeys \div 2, mem |-> [M EXCEPT ![NextCell] = Sibling]]
    <3>1. leaf' = [x EXCEPT !.n = MaxKeys \div 2, !.mem[NextCell] = Sibling]
      BY Zenon, <1>1, <2>2
    <3>. QED  BY Zenon, <2>3, <3>1
  <2>6. MaxKeys \div 2 \in 0 .. MaxKeys
    BY Numbers
  <2>7. leaf' \in Nodes
    BY Zenon, <2>4, <2>5, <2>6 DEF Nodes
  <2>. QED  BY Zenon, <1>1, <1>3, <2>7 DEF Types
<1>5. PinsInv'
  BY Zenon, <1>3 DEF BInv, PinsInv, CursorIsPinned
<1>6. TreeInv'
  BY Zenon, <1>1, <1>3 DEF BInv, TreeInv, LeafSound, CopiesSound, NewIsFresh, Taken
<1>7. RowsInLog'
  BY Zenon, <1>3 DEF BInv, RowsInLog, Count, RowsOf, Logged
<1>8. IndexInv'
  BY ZenonT(20), <1>1, <1>3 DEF BInv, IndexInv, Alone, CopyIsLeaf, RowsIndexed, Calm
<1>. QED  BY Zenon, <1>4, <1>5, <1>6, <1>7, <1>8 DEF BInv

\* A split that gets no page: the executor ends and its page is left out.
LEMMA SplitFailsStep ==
  ASSUME BInv, SplitFails
  PROVE  BInv'
<1>1. /\ Types /\ UNCHANGED <<tree, rows, free, log, missed, overlap>> /\ Finish
      /\ At("btree") /\ pins' = pins - 1 /\ fails' = fails + 1
  BY Zenon DEF BInv, SplitFails
<1>2. cur \in Execs /\ exec[cur].phase = "btree"
  BY Zenon, <1>1, AtCur
<1>3. /\ OnlyMoves(cur) /\ KeepsCursor(cur)
      /\ exec'[cur].phase = "idle" /\ ~ Open(exec'[cur]) /\ cur' = 0
  BY Zenon, <1>1, <1>2, FinishEffect
<1>4. Open(exec[cur]) /\ ~ Pending(exec'[cur]) /\ exec'[cur].phase # "btree"
  BY <1>2, <1>3 DEF Open, Pending
<1>5. UNCHANGED <<leaf, stopped, rows, free, log, missed, overlap>>
  BY Zenon, <1>1 DEF tree
<1>6. fails' \in Nat /\ fails' # 0
  <2>1. fails \in Nat
    BY Zenon, <1>1 DEF Types
  <2>. QED  BY <2>1, <1>1
<1>7. Types'
  BY Zenon, <1>1, <1>2, <1>3, <1>5, <1>6, TypesMoved DEF Types
<1>8. PinsInv'
  BY ZenonT(20), <1>1, <1>2, <1>3, <1>4, PinsDropped DEF BInv
<1>9. TreeInv'
  BY ZenonT(20), <1>2, <1>3, <1>4, <1>5, LeafKept, CursorKept, FreshKept DEF BInv, TreeInv
<1>10. RowsInLog'
  BY ZenonT(20), <1>1, <1>2, <1>3, <1>4, <1>5, LogKept DEF BInv
<1>11. IndexInv'
  <2>1. Alone'
    BY Zenon, <1>2, <1>3, <1>5, AloneKept DEF BInv, IndexInv
  <2>. QED  BY Zenon, <2>1, <1>6 DEF IndexInv, CopyIsLeaf, RowsIndexed, Calm
<1>. QED  BY Zenon, <1>7, <1>8, <1>9, <1>10, <1>11 DEF BInv

-----------------------------------------------------------------------------
\* The empty table satisfies the invariant.
LEMMA InitBInv == Init => BInv
<1>. SUFFICES ASSUME Init PROVE BInv
  OBVIOUS
<1>1. /\ leaf = EmptyNode /\ pins = 0 /\ rows = [p \in HeapPages |-> <<>>]
      /\ free = HeapPages /\ exec = [e \in Execs |-> NoExec] /\ cur = 0
      /\ log = [k \in Pks |-> 0] /\ missed = 0 /\ fails = 0
      /\ stopped = FALSE /\ overlap = FALSE
  BY Zenon DEF Init
<1>2. \A e \in Execs : exec[e] = NoExec /\ exec[e].phase = "idle"
  BY Zenon, <1>1, NoExecType
<1>3. /\ \A e \in Execs : ~ Open(exec[e]) /\ exec[e].phase # "btree"
      /\ \A e \in Execs : exec[e].phase \notin {"walbtree", "heap"}
  BY <1>2 DEF Open
<1>4. \A p \in HeapPages : rows[p] = <<>>
  BY Zenon, <1>1
<1>5. EmptyNode \in Nodes /\ EmptyNode.n = 0 /\ EmptyNode.mem[SlotCell(0)] = 0
  BY Numbers DEF EmptyNode, Nodes, SlotCell, Cells
<1>6. Types
  <2>1. /\ rows \in [HeapPages -> Seq(Pks)]
        /\ \A p \in HeapPages : Len(rows[p]) <= PageCap
    BY <1>1, Numbers
  <2>2. exec \in [Execs -> Records]
    BY Zenon, <1>1, NoExecType
  <2>3. cur \in 0 .. NExecs /\ missed \in Nat /\ fails \in Nat /\ log \in [Pks -> Nat]
    BY <1>1, Numbers
  <2>. QED  BY Zenon, <1>1, <1>2, <1>5, <2>1, <2>2, <2>3 DEF Types
<1>7. PinsInv
  <2>1. Cursors = {}
    BY Zenon, <1>3 DEF Cursors
  <2>2. Cardinality(Cursors) = 0
    BY Zenon, <2>1, FS_EmptySet
  <2>3. pins \in Nat /\ pins >= Cardinality(Cursors)
    BY <1>1, <2>2
  <2>. QED  BY Zenon, <2>3 DEF PinsInv, CursorIsPinned, Cursors, Open
<1>8. TreeInv
  <2>1. Sound(leaf, Taken)
    BY <1>1, <1>5 DEF Sound
  <2>. QED  BY Zenon, <2>1, <1>3 DEF TreeInv, LeafSound, CopiesSound, NewIsFresh
<1>9. RowsInLog
  <2>1. ASSUME NEW k \in Pks
        PROVE  Count(k) + Cardinality(Logged(k)) <= log[k] + missed
    <3>1. RowsOf(k) = {}
      <4>1. ASSUME NEW s \in HeapPages \X (1 .. PageCap) PROVE ~ (s[2] <= Len(rows[s[1]]))
        <5>1. s[1] \in HeapPages /\ s[2] \in 1 .. PageCap
          OBVIOUS
        <5>2. Len(rows[s[1]]) = 0
          BY <5>1, <1>4
        <5>. QED  BY <5>1, <5>2, Numbers
      <4>. QED  BY Zenon, <4>1 DEF RowsOf
    <3>2. Logged(k) = {}
      BY Zenon, <1>3 DEF Logged
    <3>3. Count(k) = 0 /\ Cardinality(Logged(k)) = 0
      BY Zenon, <3>1, <3>2, FS_EmptySet DEF Count
    <3>. QED  BY <1>1, <3>3
  <2>. QED  BY Zenon, <2>1 DEF RowsInLog
<1>10. IndexInv
  BY Zenon, <1>2, <1>3, <1>4 DEF IndexInv, Alone, CopyIsLeaf, RowsIndexed
<1>. QED  BY Zenon, <1>6, <1>7, <1>8, <1>9, <1>10 DEF BInv

\* Every step keeps the invariant.
LEMMA NextBInv == BInv /\ [Next]_vars => BInv'
<1>. SUFFICES ASSUME BInv, [Next]_vars PROVE BInv'
  OBVIOUS
<1>1. CASE UNCHANGED vars
  <2>1. cur' \in 0 .. NExecs
    BY Zenon, <1>1 DEF BInv, Types, vars
  <2>. QED  BY Zenon, <1>1, <2>1, QuietStep DEF vars
<1>2. ASSUME NEW e \in Execs, Pick(e) PROVE BInv'
  <2>1. cur' \in 0 .. NExecs
    BY Zenon, <1>2, Numbers DEF Pick
  <2>. QED  BY Zenon, <1>2, <2>1, QuietStep DEF Pick
<1>3. CASE Expire
  <2>1. cur' \in 0 .. NExecs
    BY Zenon, <1>3, Numbers DEF Expire
  <2>. QED  BY Zenon, <1>3, <2>1, QuietStep DEF Expire
<1>4. CASE Phases
  BY ZenonT(40), <1>4, EndStep, SearchStep, WalStep, WalInsertStep, HeapInsertStep,
     HeapGrowStep, BtreeInsertStep, SplitStep, SplitFailsStep DEF Phases
<1>. QED  BY Zenon, <1>1, <1>2, <1>3, <1>4, SubmitStep DEF Next

\* The invariant of the B-tree insert: every executor's copy of the leaf, its
\* position and its page are such that storing them leaves a sound leaf.
THEOREM BtreeInvariant == Spec => []BInv
BY InitBInv, NextBInv, PTL DEF Spec

\* Until the kernel stops the leaf is sorted, and its values are heap pages of
\* the table, once each, whatever copies the executors store over each other.
THEOREM LeafStaysWellFormed == Spec => []LeafWellFormed
<1>1. BInv => LeafWellFormed
  <2>. SUFFICES ASSUME BInv PROVE LeafWellFormed
    OBVIOUS
  <2>1. ASSUME NEW e \in Execs
        PROVE  /\ exec[e].pos \in 0 .. MaxKeys
               /\ exec[e].target \in {0, Root} \union HeapPages
               /\ exec[e].node \in Nodes
    <3>1. exec[e] \in Records
      BY Zenon DEF BInv, Types
    <3>. QED  BY <3>1 DEF Records
  <2>2. TypeOK
    BY Zenon, <2>1 DEF BInv, Types, PinsInv, TypeOK
  <2>. QED  BY Zenon, <2>2 DEF BInv, TreeInv, LeafSound, Sound, Taken, LeafWellFormed
<1>. QED  BY <1>1, BtreeInvariant, PTL

\* The leaf is pinned once for every open cursor: no exit of an executor
\* releases the pin of another.
THEOREM CursorsStayPinned == Spec => []CursorIsPinned
<1>1. BInv => CursorIsPinned
  BY Zenon DEF BInv, PinsInv
<1>. QED  BY <1>1, BtreeInvariant, PTL

\* No row reaches a heap page before its record was handed to the log.
THEOREM RowsStayLogged == Spec => []RowsAreLogged
<1>1. BInv => RowsAreLogged
  <2>. SUFFICES ASSUME BInv, NEW pk \in Pks PROVE Count(pk) <= log[pk] + missed
    BY Zenon DEF RowsAreLogged
  <2>1. /\ Count(pk) + Cardinality(Logged(pk)) <= log[pk] + missed
        /\ log[pk] \in Nat /\ missed \in Nat
    BY Zenon DEF BInv, RowsInLog, Types
  <2>2. Count(pk) \in Nat /\ Cardinality(Logged(pk)) \in Nat
    BY Zenon, Counted
  <2>. QED  BY <2>1, <2>2
<1>. QED  BY <1>1, BtreeInvariant, PTL

\* Inserts that do not overlap, and whose splits get their pages, leave no
\* heap page with rows out of the tree.
THEOREM PagesStayIndexed == Spec => []PagesIndexed
<1>1. BInv => PagesIndexed
  <2>. SUFFICES ASSUME BInv, ~ stopped, ~ overlap, fails = 0,
                       \A e \in Execs : exec[e].phase = "idle",
                       NEW p \in HeapPages, rows[p] # <<>>
                PROVE  \E i \in 1 .. leaf.n : leaf.mem[SlotCell(i)] = p
    BY Zenon DEF PagesIndexed
  <2>1. \A e \in Execs : exec[e].phase # "btree"
    BY Zenon
  <2>. QED  BY Zenon, <2>1 DEF BInv, IndexInv, RowsIndexed, Calm, Slotted
<1>. QED  BY <1>1, BtreeInvariant, PTL
=============================================================================
