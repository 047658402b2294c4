-------------------------- MODULE HeapInsertProofs --------------------------
(***************************************************************************)
(* Inserts into a heap table, for every number of executors, keys, pages   *)
(* and crashes: HInv is inductive.  Pages only gain rows and links while   *)
(* the machine is up, and what is on disk is an earlier state of what is   *)
(* in memory; so nothing a scan once reached is lost, unless a page of the *)
(* chain were given out a second time.  A crash leaves one such page at    *)
(* most, the blank one at the end of the chain, and it is the first the    *)
(* allocator gives again: that is what AllocInOrder is for.                *)
(***************************************************************************)
EXTENDS HeapInsert, TLAPS

PhaseNames == {"idle", "dup", "tail", "link", "walinit", "walinsert"}

Images == [init : BOOLEAN, rows : Seq(Pks), next : Pages \union {0}]

Records ==
  [phase : PhaseNames, pk : Pks \union {0}, cursor : Pages \union {0},
   target : Pages \union {0}, new : BOOLEAN]

Types ==
  /\ mem \in [Pages -> Images] /\ disk \in [Pages -> Images]
  /\ \A p \in Pages : Len(mem[p].rows) <= PageCap /\ Len(disk[p].rows) <= PageCap
  /\ dirty \subseteq Pages /\ todo \subseteq Pages /\ free \subseteq Pages
  /\ exec \in [Execs -> Records]
  /\ \A e \in Execs : exec[e].phase # "idle" => exec[e].pk \in Pks /\ exec[e].cursor \in Pages
  /\ cur \in Execs \union {0}
  /\ ckpc \in {"idle", "check", "pass"}

\* The counters of the log, a part of TypeOK nothing else rests on.
LogTypes ==
  /\ \E T : log \in Seq(T)
  /\ flushed \in 0 .. Len(log)
  /\ ckpt \in 0 .. flushed

-----------------------------------------------------------------------------
(* Walks along the links. *)

\* S has the root and, with a page that is not in stop, the next one.
Closed(image, stop, S) ==
  /\ Root \in S
  /\ \A r \in S \ stop : image[r].next # 0 => image[r].next \in S

\* The pages a walk from the root reaches, if it ends at the pages of stop.
Reach(image, stop) ==
  {p \in Pages : \A S \in SUBSET Pages : Closed(image, stop, S) => p \in S}

Linked(image) == \A p \in Pages : image[p].next \in Pages \union {0}

\* The pages before p on the walk.
Before(image, p) == Reach(image, {p}) \ {p}

\* g has the rows and the links of f, and perhaps more.
Below(f, g) ==
  \A p \in Pages :
    /\ Len(f[p].rows) <= Len(g[p].rows)
    /\ \A i \in 1 .. Len(f[p].rows) : g[p].rows[i] = f[p].rows[i]
    /\ f[p].next # 0 => g[p].next = f[p].next

-----------------------------------------------------------------------------
(* The invariant. *)

\* The allocator has the pages that are not initialised; those are blank.
FreeIsBlank ==
  /\ mem[Root].init
  /\ \A p \in Pages :
       /\ p \in free <=> ~ mem[p].init
       /\ ~ mem[p].init => mem[p].rows = <<>> /\ mem[p].next = 0
       /\ ~ disk[p].init => disk[p].rows = <<>> /\ disk[p].next = 0
       /\ disk[p].init => mem[p].init

CleanIsSaved ==
  \A p \in Pages \ dirty : disk[p].rows = mem[p].rows /\ disk[p].next = mem[p].next

\* Pages without KDS_PAGE_FLAG_INIT on disk.
Unsaved == {p \in Pages : ~ disk[p].init}

\* Pages that have their row and are yet to be linked.
Hanging == {exec[e].target : e \in {f \in Execs : exec[f].phase = "link"}}

From(N, m) == {x \in N : x >= m}

\* Along the walk the pages of N come in the order of their numbers, and all
\* of them: of those from m on, a walk meets the first one first.
InOrder(f, N) ==
  \A m \in Nat : \A p \in Reach(f, From(N, m)) \ From(N, m) :
    f[p].next \in From(N, m) => \A x \in From(N, m) : f[p].next <= x

AllocInOrder == InOrder(mem, Unsaved)

\* No walk gets to the end of the chain past an unsaved page.
UnsavedInChain ==
  \A x \in (Unsaved \ free) \ Hanging : \A p \in Before(mem, x) : mem[p].next # 0

\* A blank page at the end of the chain is the next the allocator gives.
BlankIsNext ==
  \A p \in Chain(mem) : mem[p].next \in free => \A x \in free : mem[p].next <= x

OrderInv == AllocInOrder /\ UnsavedInChain /\ BlankIsNext

\* An insert does not give up its slice between storing its row and its end.
OnlyCurStores ==
  \A e \in Execs : exec[e].phase \in {"link", "walinit", "walinsert"} => e = cur

CursorInChain ==
  \A e \in Execs : exec[e].phase # "idle" => exec[e].cursor \in Chain(mem)

LinkReady ==
  \A e \in Execs : exec[e].phase = "link" =>
    /\ exec[e].target \in Pages \ free
    /\ mem[exec[e].target].rows = <<exec[e].pk>> /\ mem[exec[e].target].next = 0
    /\ exec[e].cursor \notin free /\ mem[exec[e].cursor].next = 0
    /\ \A x \in free : exec[e].target <= x

StoredIsVisible ==
  \A e \in Execs : exec[e].phase \in {"walinit", "walinsert"} => exec[e].pk \in Rows(mem)

ExecInv == OnlyCurStores /\ CursorInChain /\ LinkReady /\ StoredIsVisible

TableInv == FreeIsBlank /\ CleanIsSaved /\ Below(disk, mem)

\* What the disk will hold at the end of the pass, were there no more inserts.
Merged == [p \in Pages |-> IF p \in todo THEN mem[p] ELSE disk[p]]

CkptInv ==
  /\ acked \subseteq Rows(mem)
  /\ covered \subseteq Rows(mem)
  /\ ckpc = "pass" => covered \subseteq Rows(Merged)
  /\ durable \subseteq Rows(disk)

\* Two executors with one key have been noticed.
ClashIsKnown ==
  \A e, f \in Execs : /\ e # f /\ exec[e].phase # "idle" /\ exec[f].phase # "idle"
                      /\ exec[e].pk = exec[f].pk
                      => exec[e].pk \in clash

\* The key is in no page the duplicate scan has passed.
ScanIsClear ==
  \A e \in Execs : exec[e].pk \notin clash =>
    /\ exec[e].phase = "dup" =>
         \A p \in Before(mem, exec[e].cursor) : exec[e].pk \notin Range(mem[p].rows)
    /\ exec[e].phase = "tail" => exec[e].pk \notin Rows(mem)

\* Row i of page p, one of the pages S, has key v.
IsRow(f, S, p, i, v) == p \in S /\ i \in DOMAIN f[p].rows /\ f[p].rows[i] = v

\* A key that is not in c is in one row of the pages H and of the chain.
Unique(f, H, c) ==
  \A p, q, i, j, v :
    /\ v \notin c
    /\ IsRow(f, Chain(f) \union H, p, i, v) /\ IsRow(f, Chain(f) \union H, q, j, v)
    => p = q /\ i = j

\* PkUnique, with the page that is yet to be linked.
LiveUnique == Unique(mem, Hanging, clash)

UniqueInv == ClashIsKnown /\ ScanIsClear /\ LiveUnique

HInv == Types /\ LogTypes /\ TableInv /\ OrderInv /\ ExecInv /\ CkptInv /\ UniqueInv

-----------------------------------------------------------------------------
(* Lemmas on walks. *)

\* The root is a page.
LEMMA RootIsPage == Root \in Pages /\ 0 \notin Pages /\ Pages \subseteq Nat
                    /\ \A p \in Pages : Root <= p
BY HeapInsertAssumption DEF Root, Pages

\* The chain is a walk that ends nowhere before its end.
LEMMA ChainIsReach == \A image : Chain(image) = Reach(image, {})
BY Zenon DEF Chain, Reach, Closed

\* A walk goes on from a page where it does not end.
LEMMA ReachClosed ==
  ASSUME NEW f, NEW stop, Linked(f)
  PROVE  /\ Reach(f, stop) \subseteq Pages /\ Root \in Reach(f, stop)
         /\ \A r \in Reach(f, stop) \ stop : f[r].next # 0 => f[r].next \in Reach(f, stop)
<1>1. Reach(f, stop) \subseteq Pages /\ Root \in Reach(f, stop)
  BY Zenon, RootIsPage DEF Reach, Closed
<1>2. ASSUME NEW r \in Reach(f, stop) \ stop, f[r].next # 0
      PROVE  f[r].next \in Reach(f, stop)
  <2>1. f[r].next \in Pages
    BY Zenon, <1>1, <1>2 DEF Linked
  <2>2. ASSUME NEW S \in SUBSET Pages, Closed(f, stop, S) PROVE f[r].next \in S
    <3>1. r \in S
      BY Zenon, <2>2 DEF Reach
    <3>. QED  BY Zenon, <3>1, <2>2, <1>2 DEF Closed
  <2>. QED  BY Zenon, <2>1, <2>2 DEF Reach
<1>. QED  BY Zenon, <1>1, <1>2

\* A walk stays within every set that is closed under it.
LEMMA ReachLeast ==
  ASSUME NEW f, NEW stop, NEW S, S \subseteq Pages, Closed(f, stop, S)
  PROVE  Reach(f, stop) \subseteq S
BY Zenon DEF Reach

\* A walk whose steps are all steps of another one stays within that.
LEMMA ReachWithin ==
  ASSUME NEW f, NEW s, NEW g, NEW t, Linked(g),
         \A r \in Reach(g, t) \ s : f[r].next # 0 => r \notin t /\ f[r].next = g[r].next
  PROVE  Reach(f, s) \subseteq Reach(g, t)
<1>1. /\ Reach(g, t) \subseteq Pages /\ Root \in Reach(g, t)
      /\ \A r \in Reach(g, t) \ t : g[r].next # 0 => g[r].next \in Reach(g, t)
  BY Zenon, ReachClosed
<1>2. Closed(f, s, Reach(g, t))
  BY Zenon, <1>1 DEF Closed
<1>. QED  BY Zenon, <1>1, <1>2, ReachLeast

\* Walks see links only.
LEMMA SameLinks ==
  ASSUME NEW f, NEW g, NEW s, \A p \in Pages : f[p].next = g[p].next
  PROVE  Reach(f, s) = Reach(g, s)
<1>1. ASSUME NEW S \in SUBSET Pages PROVE Closed(f, s, S) <=> Closed(g, s, S)
  BY Zenon, <1>1 DEF Closed
<1>. QED  BY Zenon, <1>1 DEF Reach

\* A link to a page that leads nowhere adds that page to a walk.
LEMMA ReachLinked ==
  ASSUME NEW f, NEW g, NEW s, Linked(f), NEW q \in Pages,
         \A r \in Pages : g[r].next # 0 => g[r].next = f[r].next \/ g[r].next = q,
         g[q].next \in {0, q}
  PROVE  Reach(g, s) \subseteq Reach(f, s) \union {q}
<1>1. /\ Reach(f, s) \subseteq Pages /\ Root \in Reach(f, s)
      /\ \A r \in Reach(f, s) \ s : f[r].next # 0 => f[r].next \in Reach(f, s)
  BY Zenon, ReachClosed
<1>2. ASSUME NEW r \in (Reach(f, s) \union {q}) \ s, g[r].next # 0
      PROVE  g[r].next \in Reach(f, s) \union {q}
  BY Zenon, <1>1, <1>2
<1>3. Closed(g, s, Reach(f, s) \union {q})
  BY Zenon, <1>1, <1>2 DEF Closed
<1>4. Reach(f, s) \union {q} \subseteq Pages
  BY Zenon, <1>1
<1>. QED  BY Zenon, <1>3, <1>4, ReachLeast

\* The pages that follow a page.
Follows(f, y) ==
  {z \in Pages : \A S \in SUBSET Pages :
     y \in S /\ (\A r \in S : f[r].next # 0 => f[r].next \in S) => z \in S}

\* The chain has one end.
LEMMA OneEnd ==
  ASSUME NEW f, Linked(f), NEW c \in Chain(f), f[c].next = 0,
         NEW p \in Chain(f), f[p].next = 0
  PROVE  p = c
<1>. DEFINE S == {y \in Pages : c \in Follows(f, y)}
<1>1. c \in Pages /\ p \in Pages
  BY Zenon DEF Chain
<1>2. Root \in S
  BY Zenon, RootIsPage DEF Chain, Follows
<1>3. ASSUME NEW r \in S, f[r].next # 0 PROVE f[r].next \in S
  <2>1. f[r].next \in Pages
    BY Zenon, <1>3 DEF Linked
  <2>2. ASSUME NEW T \in SUBSET Pages, f[r].next \in T,
               \A x \in T : f[x].next # 0 => f[x].next \in T
        PROVE  c \in T
    <3>1. c \in T \union {r}
      <4>1. T \union {r} \in SUBSET Pages /\ r \in T \union {r}
        BY Zenon
      <4>2. \A x \in T \union {r} : f[x].next # 0 => f[x].next \in T \union {r}
        BY Zenon, <2>2
      <4>. QED  BY Zenon, <4>1, <4>2 DEF Follows
    <3>2. c # r
      BY Zenon, <1>3
    <3>. QED  BY Zenon, <3>1, <3>2
  <2>. QED  BY Zenon, <1>1, <2>1, <2>2 DEF Follows
<1>4. S \in SUBSET Pages
  BY Zenon
<1>5. p \in S
  <2>. HIDE DEF S
  <2>. QED  BY Zenon, <1>2, <1>3, <1>4 DEF Chain
<1>6. c \in {p}
  BY Zenon, <1>1, <1>5 DEF Follows
<1>. QED  BY Zenon, <1>6

\* More rows and links show more rows.
LEMMA RowsGrow ==
  ASSUME NEW f, NEW g, f \in [Pages -> Images], g \in [Pages -> Images], Below(f, g)
  PROVE  Chain(f) \subseteq Chain(g) /\ Rows(f) \subseteq Rows(g)
<1>1. Linked(g)
  BY DEF Images, Linked
<1>2. Chain(f) \subseteq Chain(g)
  <2>1. Reach(f, {}) \subseteq Reach(g, {})
    <3>1. Reach(g, {}) \subseteq Pages
      BY Zenon DEF Reach
    <3>. QED  BY Zenon, <1>1, <3>1, ReachWithin DEF Below
  <2>. QED  BY Zenon, <2>1, ChainIsReach
<1>3. ASSUME NEW p \in Pages PROVE Range(f[p].rows) \subseteq Range(g[p].rows)
  <2>1. f[p].rows \in Seq(Pks) /\ g[p].rows \in Seq(Pks)
    BY DEF Images
  <2>2. /\ Len(f[p].rows) <= Len(g[p].rows)
        /\ \A i \in 1 .. Len(f[p].rows) : g[p].rows[i] = f[p].rows[i]
    BY Zenon DEF Below
  <2>3. \A i \in 1 .. Len(f[p].rows) : i \in 1 .. Len(g[p].rows)
    BY <2>1, <2>2
  <2>4. DOMAIN f[p].rows = 1 .. Len(f[p].rows) /\ DOMAIN g[p].rows = 1 .. Len(g[p].rows)
    BY <2>1
  <2>. QED  BY Zenon, <2>2, <2>3, <2>4 DEF Range
<1>4. Chain(f) \subseteq Pages
  BY Zenon DEF Chain
<1>. QED  BY Zenon, <1>2, <1>3, <1>4 DEF Rows

\* Below is an order.
LEMMA BelowSelf == ASSUME NEW f, f \in [Pages -> Images] PROVE Below(f, f)
<1>1. ASSUME NEW p \in Pages PROVE Len(f[p].rows) <= Len(f[p].rows)
  <2>1. Len(f[p].rows) \in Nat
    BY DEF Images
  <2>. QED  BY <2>1
<1>. QED  BY Zenon, <1>1 DEF Below

\* Two growths are one.
LEMMA BelowTrans ==
  ASSUME NEW f, NEW g, NEW h, f \in [Pages -> Images], g \in [Pages -> Images],
         h \in [Pages -> Images], Below(f, g), Below(g, h)
  PROVE  Below(f, h)
<1>1. ASSUME NEW p \in Pages
      PROVE  /\ Len(f[p].rows) <= Len(h[p].rows)
             /\ \A i \in 1 .. Len(f[p].rows) : i \in 1 .. Len(g[p].rows)
  <2>1. Len(f[p].rows) \in Nat /\ Len(g[p].rows) \in Nat /\ Len(h[p].rows) \in Nat
    BY DEF Images
  <2>2. Len(f[p].rows) <= Len(g[p].rows) /\ Len(g[p].rows) <= Len(h[p].rows)
    BY Zenon DEF Below
  <2>. QED  BY <2>1, <2>2
<1>. QED  BY ZenonT(40), <1>1 DEF Below

\* A page of the chain other than the root is led to from the chain.
LEMMA LedTo ==
  ASSUME NEW f, Linked(f), NEW c \in Chain(f), c # Root
  PROVE  \E r \in Chain(f) : f[r].next = c
<1>. SUFFICES ASSUME \A r \in Chain(f) : f[r].next # c PROVE FALSE
  BY Zenon
<1>1. /\ Chain(f) \subseteq Pages /\ Root \in Chain(f)
      /\ \A r \in Chain(f) : f[r].next # 0 => f[r].next \in Chain(f)
  BY Zenon, ReachClosed, ChainIsReach
<1>2. /\ Chain(f) \ {c} \in SUBSET Pages /\ Root \in Chain(f) \ {c}
      /\ \A r \in Chain(f) \ {c} : f[r].next # 0 => f[r].next \in Chain(f) \ {c}
  BY Zenon, <1>1
<1>. QED  BY Zenon, <1>2 DEF Chain

\* A walk that may end sooner reaches no more.
LEMMA ReachStops ==
  ASSUME NEW f, Linked(f), NEW s, NEW t, t \subseteq s
  PROVE  Reach(f, s) \subseteq Reach(f, t)
<1>1. \A r \in Reach(f, t) \ s : f[r].next # 0 => r \notin t /\ f[r].next = f[r].next
  BY Zenon
<1>. QED  BY Zenon, <1>1, ReachWithin

\* The same links, the same walks.
LEMMA SameChain ==
  ASSUME NEW f, NEW g, \A p \in Pages : f[p].next = g[p].next
  PROVE  Chain(f) = Chain(g) /\ \A x : Before(f, x) = Before(g, x)
<1>1. \A s : Reach(f, s) = Reach(g, s)
  BY Zenon, SameLinks
<1>. QED  BY Zenon, <1>1, ChainIsReach DEF Before

\* What Rows has.
LEMMA RowIn ==
  ASSUME NEW f, NEW p \in Chain(f), NEW k \in Range(f[p].rows)
  PROVE  k \in Rows(f)
BY Zenon DEF Rows

\* Fewer keys are to be unique.
LEMMA UniqueLess ==
  ASSUME NEW f, NEW H, NEW c, NEW d, Unique(f, H, c), c \subseteq d
  PROVE  Unique(f, H, d)
BY Zenon DEF Unique

\* Rows that were unique elsewhere are unique.
LEMMA UniqueMapped ==
  ASSUME NEW f, NEW g, NEW H, NEW G, NEW c, Unique(f, H, c),
         \A p, i, v : IsRow(g, Chain(g) \union G, p, i, v) =>
                      IsRow(f, Chain(f) \union H, p, i, v)
  PROVE  Unique(g, G, c)
<1>. SUFFICES ASSUME NEW p, NEW q, NEW i, NEW j, NEW v, v \notin c,
                     IsRow(g, Chain(g) \union G, p, i, v), IsRow(g, Chain(g) \union G, q, j, v)
              PROVE  p = q /\ i = j
  BY Zenon DEF Unique
<1>1. IsRow(f, Chain(f) \union H, p, i, v) /\ IsRow(f, Chain(f) \union H, q, j, v)
  BY Zenon
<1>. QED  BY Zenon, <1>1 DEF Unique

\* And no more.
LEMMA RowsWithin ==
  ASSUME NEW f, NEW S, \A p \in Chain(f) : Range(f[p].rows) \subseteq S
  PROVE  Rows(f) \subseteq S
BY Zenon DEF Rows

-----------------------------------------------------------------------------
(* The order of the unsaved pages. *)

\* A page of N that the walk meets is the first of them, or the root.
LEMMA MetIsFirst ==
  ASSUME NEW f, Linked(f), NEW B, B \subseteq Pages,
         \A p \in Reach(f, B) \ B : f[p].next \in B => \A x \in B : f[p].next <= x,
         NEW y \in B, y \in Reach(f, B)
  PROVE  \A x \in B : y <= x
<1>1. CASE y = Root
  BY Zenon, <1>1, RootIsPage
<1>2. CASE \E r \in Reach(f, B) \ B : f[r].next = y
  BY Zenon, <1>2
<1>3. CASE y # Root /\ ~ \E r \in Reach(f, B) \ B : f[r].next = y
  <2>1. /\ Reach(f, B) \subseteq Pages /\ Root \in Reach(f, B)
        /\ \A r \in Reach(f, B) \ B : f[r].next # 0 => f[r].next \in Reach(f, B)
    BY Zenon, ReachClosed
  <2>2. /\ Reach(f, B) \ {y} \in SUBSET Pages /\ Root \in Reach(f, B) \ {y}
        /\ \A r \in (Reach(f, B) \ {y}) \ B :
             f[r].next # 0 => f[r].next \in Reach(f, B) \ {y}
    BY Zenon, <1>3, <2>1
  <2>3. y \in Reach(f, B) \ {y}
    BY Zenon, <2>2 DEF Reach, Closed
  <2>. QED  BY Zenon, <2>3
<1>. QED  BY Zenon, <1>1, <1>2, <1>3

\* The checkpointer saves a page.
LEMMA OrderSaved ==
  ASSUME NEW f, Linked(f), NEW N, N \subseteq Pages, InOrder(f, N), NEW y
  PROVE  InOrder(f, N \ {y})
<1>. SUFFICES ASSUME NEW m \in Nat,
                     NEW p \in Reach(f, From(N \ {y}, m)) \ From(N \ {y}, m),
                     f[p].next \in From(N \ {y}, m), NEW x \in From(N \ {y}, m)
              PROVE  f[p].next <= x
  BY Zenon DEF InOrder
<1>. DEFINE B == From(N, m)
            C == From(N \ {y}, m)
<1>1. C = B \ {y} /\ B \subseteq Pages /\ N \subseteq Nat
  BY Zenon, RootIsPage DEF From
<1>2. \A r \in Reach(f, B) \ B : f[r].next \in B => \A z \in B : f[r].next <= z
  BY Zenon DEF InOrder
<1>3. CASE y \notin B
  <2>1. C = B
    BY Zenon, <1>1, <1>3
  <2>. QED  BY Zenon, <2>1, <1>2
<1>4. CASE y \in B /\ y \in Reach(f, B)
  <2>1. \A z \in B : y <= z
    BY Zenon, <1>1, <1>2, <1>4, MetIsFirst
  <2>2. y \in Nat /\ y \in N /\ y >= m
    BY Zenon, <1>1, <1>4 DEF From
  <2>3. C = From(N, y + 1)
    <3>1. ASSUME NEW z \in N PROVE z # y /\ z >= m <=> z >= y + 1
      <4>1. z \in Nat /\ (z >= m => y <= z)
        BY Zenon, <1>1, <2>1 DEF From
      <4>. QED  BY <4>1, <2>2
    <3>. QED  BY Zenon, <3>1 DEF From
  <2>4. y + 1 \in Nat
    BY <2>2
  <2>. QED  BY Zenon, <2>3, <2>4 DEF InOrder
<1>5. CASE y \in B /\ y \notin Reach(f, B)
  <2>1. Reach(f, C) \subseteq Reach(f, B)
    <3>1. \A r \in Reach(f, B) \ C : f[r].next # 0 => r \notin B /\ f[r].next = f[r].next
      BY Zenon, <1>1, <1>5
    <3>. QED  BY Zenon, <3>1, ReachWithin
  <2>2. p \in Reach(f, B) \ B /\ f[p].next \in B /\ x \in B
    BY Zenon, <1>1, <1>5, <2>1
  <2>. QED  BY Zenon, <2>2, <1>2
<1>. QED  BY Zenon, <1>3, <1>4, <1>5

\* g is f with the end c linked to q, where a walk ends.
NewLink(f, g, c, q) ==
  /\ f[c].next = 0 /\ g[c].next = q
  /\ \A r \in Pages \ {c} : g[r].next = f[r].next
  /\ q # c => f[q].next = 0

\* No walk gets to the end past a page of N before q.
PassedBy(f, N, q) ==
  \A x \in N : x < q => \A p \in Before(f, x) : f[p].next # 0

\* The end c of the chain is linked to page q.
LEMMA OrderLinked ==
  ASSUME NEW f, NEW g, Linked(f), NEW N, N \subseteq Pages, InOrder(f, N),
         NEW c \in Pages, NEW q \in Pages, NewLink(f, g, c, q), PassedBy(f, N, q)
  PROVE  InOrder(g, N)
<1>. /\ f[c].next = 0 /\ g[c].next = q
     /\ \A r \in Pages \ {c} : g[r].next = f[r].next
     /\ q # c => f[q].next = 0
     /\ \A x \in N : x < q => \A p \in Before(f, x) : f[p].next # 0
  BY Zenon DEF NewLink, PassedBy
<1>. SUFFICES ASSUME NEW m \in Nat, NEW p \in Reach(g, From(N, m)) \ From(N, m),
                     g[p].next \in From(N, m), NEW x \in From(N, m)
              PROVE  g[p].next <= x
  BY Zenon DEF InOrder
<1>. DEFINE B == From(N, m)
<1>1. B \subseteq Pages /\ Pages \subseteq Nat /\ 0 \notin B
  BY Zenon, RootIsPage DEF From
<1>2. Reach(g, B) \subseteq Reach(f, B) \union {q}
  <2>1. /\ \A r \in Pages : g[r].next # 0 => g[r].next = f[r].next \/ g[r].next = q
        /\ g[q].next \in {0, q}
    BY Zenon
  <2>. QED  BY ZenonT(60), <2>1, ReachLinked
<1>3. p \in Pages
  BY Zenon DEF Reach
<1>4. CASE p # c
  <2>1. g[p].next = f[p].next
    BY Zenon, <1>3, <1>4
  <2>2. p # q
    BY Zenon, <1>1, <1>4, <2>1
  <2>. QED  BY Zenon, <1>2, <2>1, <2>2 DEF InOrder
<1>5. CASE p = c
  <2>1. q \in B /\ g[p].next = q
    BY Zenon, <1>5
  <2>2. c \in Reach(f, B) \ B
    BY Zenon, <1>2, <1>5, <2>1
  <2>3. ASSUME x < q PROVE FALSE
    <3>1. Reach(f, B) \subseteq Reach(f, {x})
      <4>1. {x} \subseteq B
        BY Zenon
      <4>. QED  BY Zenon, <4>1, ReachStops
    <3>2. c \in Before(f, x)
      BY Zenon, <2>2, <3>1 DEF Before
    <3>3. x \in N
      BY Zenon DEF From
    <3>. QED  BY Zenon, <2>3, <3>2, <3>3
  <2>4. x \in Nat /\ q \in Nat
    BY Zenon, <1>1
  <2>. QED  BY <2>1, <2>3, <2>4
<1>. QED  BY Zenon, <1>4, <1>5

\* The first of all the pages of N comes first.
LEMMA OrderFirst ==
  ASSUME NEW f, NEW N, N = From(N, 0), 0 \in Nat, InOrder(f, N),
         NEW p \in Reach(f, N) \ N, f[p].next \in N, NEW x \in N
  PROVE  f[p].next <= x
<1>1. PICK M : M = From(N, 0)
  BY Zenon
<1>2. p \in Reach(f, M) \ M /\ f[p].next \in M /\ x \in M
  BY Zenon, <1>1
<1>3. \A r \in Reach(f, M) \ M : f[r].next \in M => \A z \in M : f[r].next <= z
  BY Zenon, <1>1 DEF InOrder
<1>. QED  BY Zenon, <1>2, <1>3

\* After a crash, memory is what the disk held: g, with less than f.
LEMMA OrderCrashed ==
  ASSUME NEW f, NEW g, Linked(f), Linked(g), NEW N, N \subseteq Pages, InOrder(f, N),
         \A r \in Pages : g[r].next # 0 => r \notin N /\ f[r].next = g[r].next
  PROVE  /\ \A p \in Chain(g) : g[p].next \in N => \A x \in N : g[p].next <= x
         /\ InOrder(g, N)
<1>1. N = From(N, 0) /\ 0 \in Nat /\ 0 \notin N
  <2>1. \A x \in N : x >= 0
    <3>1. \A x \in N : x \in Nat
      BY Zenon, RootIsPage
    <3>. QED  BY <3>1
  <2>. QED  BY Zenon, <2>1, RootIsPage DEF From
<1>2. Chain(g) \subseteq Reach(f, N)
  <2>1. Reach(f, N) \subseteq Pages
    BY Zenon DEF Reach
  <2>2. Reach(g, {}) \subseteq Reach(f, N)
    BY Zenon, <2>1, ReachWithin
  <2>. QED  BY Zenon, <2>2, ChainIsReach
<1>3. Chain(g) \subseteq Pages
  BY Zenon DEF Chain
<1>4. ASSUME NEW p \in Chain(g), g[p].next \in N, NEW x \in N PROVE g[p].next <= x
  <2>1. p \in Reach(f, N) \ N /\ f[p].next = g[p].next
    BY Zenon, <1>1, <1>2, <1>3, <1>4
  <2>2. f[p].next \in N
    BY Zenon, <1>4, <2>1
  <2>3. f[p].next <= x
    BY Zenon, <1>1, <1>4, <2>1, <2>2, OrderFirst
  <2>. QED  BY Zenon, <2>1, <2>3
<1>5. ASSUME NEW m \in Nat, NEW p \in Reach(g, From(N, m)), g[p].next \in From(N, m),
             NEW x \in From(N, m)
      PROVE  g[p].next <= x
  <2>1. Reach(g, From(N, m)) \subseteq Chain(g)
    BY Zenon, ReachStops, ChainIsReach
  <2>2. From(N, m) \subseteq N
    BY Zenon DEF From
  <2>. QED  BY Zenon, <1>4, <1>5, <2>1, <2>2
<1>. QED  BY Zenon, <1>4, <1>5 DEF InOrder

-----------------------------------------------------------------------------
(* What a step does to the executors. *)

OnlyMoves(e) ==
  exec' \in [Execs -> Records] /\ \A f \in Execs : f # e => exec'[f] = exec[f]

Stores(x) == x.phase \in {"link", "walinit", "walinsert"}

\* The links and the pages of the types.
LEMMA Images2 ==
  ASSUME Types
  PROVE  /\ Linked(mem) /\ Linked(disk)
         /\ \A p \in Pages : mem[p] \in Images /\ disk[p] \in Images
<1>1. \A p \in Pages : mem[p] \in Images /\ disk[p] \in Images
  BY Zenon DEF Types
<1>2. \A x \in Images : x.next \in Pages \union {0}
  BY DEF Images
<1>. QED  BY Zenon, <1>1, <1>2 DEF Linked

\* The phases run for an executor of the list.
LEMMA AtCur ==
  ASSUME Types, NEW ph, ph # "idle", At(ph)
  PROVE  /\ cur \in Execs /\ exec[cur].phase = ph /\ exec[cur] \in Records
         /\ exec[cur].pk \in Pks /\ exec[cur].cursor \in Pages
<1>1. cur \in Execs
  BY Zenon DEF Types, At
<1>. QED  BY Zenon, <1>1 DEF Types, At

\* One executor gets a new record.
LEMMA MoveEffect ==
  ASSUME Types, NEW e \in Execs, NEW x \in Records, exec' = [exec EXCEPT ![e] = x]
  PROVE  OnlyMoves(e) /\ exec'[e] = x
BY Zenon DEF OnlyMoves, Types

\* An executor that is not running has the record of none.
LEMMA NoExecType == NoExec \in Records /\ NoExec.phase = "idle"
BY DEF NoExec, Records, PhaseNames

\* The executor ends.
LEMMA FinishEffect ==
  ASSUME Types, cur \in Execs, Finish
  PROVE  OnlyMoves(cur) /\ exec'[cur].phase = "idle" /\ cur' = 0
<1>1. exec' = [exec EXCEPT ![cur] = NoExec] /\ cur' = 0
  BY Zenon DEF Finish
<1>. QED  BY Zenon, <1>1, NoExecType, MoveEffect

\* y is the record x with phase ph, cursor c and target t.
Changed(x, y, ph, c, t) ==
  y \in Records /\ y.phase = ph /\ y.pk = x.pk /\ y.cursor = c /\ y.target = t

\* What is stored in a record by EXCEPT.
LEMMA SetPhase ==
  ASSUME NEW x \in Records, NEW ph \in PhaseNames, NEW y, y = [x EXCEPT !.phase = ph]
  PROVE  Changed(x, y, ph, x.cursor, x.target)
BY DEF Records, Changed

\* The cursor moves.
LEMMA SetCursor ==
  ASSUME NEW x \in Records, NEW c \in Pages, NEW y, y = [x EXCEPT !.cursor = c]
  PROVE  Changed(x, y, x.phase, c, x.target)
BY DEF Records, Changed

\* The cursor moves to another phase.
LEMMA SetPhaseCursor ==
  ASSUME NEW x \in Records, NEW ph \in PhaseNames, NEW c \in Pages,
         NEW y, y = [x EXCEPT !.phase = ph, !.cursor = c]
  PROVE  Changed(x, y, ph, c, x.target)
BY ZenonT(40) DEF Records, Changed

\* The row has its page.
LEMMA SetPhaseTarget ==
  ASSUME NEW x \in Records, NEW ph \in PhaseNames, NEW t \in Pages,
         NEW y, y = [x EXCEPT !.phase = ph, !.target = t]
  PROVE  Changed(x, y, ph, x.cursor, t)
BY ZenonT(40) DEF Records, Changed

\* The row has a page of its own.
LEMMA SetPhaseNew ==
  ASSUME NEW x \in Records, NEW ph \in PhaseNames, NEW t \in Pages,
         NEW y, y = [x EXCEPT !.phase = ph, !.target = t, !.new = TRUE]
  PROVE  Changed(x, y, ph, x.cursor, t)
BY ZenonT(40) DEF Records, Changed

\* The types of the state after a step of one executor.
LEMMA TypesMoved ==
  ASSUME Types, NEW e \in Execs, OnlyMoves(e),
         exec'[e].phase # "idle" => exec'[e].pk \in Pks /\ exec'[e].cursor \in Pages,
         mem' \in [Pages -> Images], \A p \in Pages : Len(mem'[p].rows) <= PageCap,
         dirty' \subseteq Pages, free' \subseteq Pages, cur' \in Execs \union {0},
         UNCHANGED <<disk, todo, ckpc>>
  PROVE  Types'
<1>1. \A f \in Execs : exec'[f].phase # "idle" => exec'[f].pk \in Pks /\ exec'[f].cursor \in Pages
  BY Zenon DEF Types, OnlyMoves
<1>. QED  BY Zenon, <1>1 DEF Types, OnlyMoves

\* No page comes to hang or is linked.
LEMMA HangingSame ==
  ASSUME NEW e \in Execs, OnlyMoves(e), exec[e].phase # "link", exec'[e].phase # "link"
  PROVE  Hanging' = Hanging
<1>1. \A f \in Execs : exec'[f].phase = "link" \/ exec[f].phase = "link" => exec'[f] = exec[f]
  BY Zenon DEF OnlyMoves
<1>. QED  BY Zenon, <1>1 DEF Hanging

-----------------------------------------------------------------------------
(* What keeps each part of the invariant. *)

\* The order of the pages is a matter of links.
LEMMA OrderKept ==
  ASSUME OrderInv, \A p \in Pages : mem'[p].next = mem[p].next,
         UNCHANGED <<disk, free>>, Hanging' = Hanging
  PROVE  OrderInv'
<1>1. \A s : Reach(mem', s) = Reach(mem, s)
  BY Zenon, SameLinks
<1>2. Chain(mem') = Chain(mem) /\ \A x : Before(mem', x) = Before(mem, x)
  BY Zenon, <1>1, ChainIsReach DEF Before
<1>3. /\ \A s : Reach(mem, s) \subseteq Pages
      /\ Chain(mem) \subseteq Pages /\ \A x : Before(mem, x) \subseteq Pages
  BY Zenon DEF Reach, Chain, Before
<1>4. Unsaved' = Unsaved
  BY Zenon DEF Unsaved
<1>5. AllocInOrder'
  BY Zenon, <1>1, <1>3, <1>4 DEF OrderInv, AllocInOrder, InOrder
<1>6. UnsavedInChain'
  BY Zenon, <1>2, <1>3, <1>4 DEF OrderInv, UnsavedInChain
<1>7. BlankIsNext'
  BY Zenon, <1>2, <1>3 DEF OrderInv, BlankIsNext
<1>. QED  BY Zenon, <1>5, <1>6, <1>7 DEF OrderInv

\* A step of one executor that leaves the table alone.
LEMMA ExecKept ==
  ASSUME ExecInv, NEW e \in Execs, OnlyMoves(e), UNCHANGED <<mem, free>>,
         exec'[e].phase # "link",
         exec'[e].phase # "idle" => exec'[e].cursor \in Chain(mem),
         Stores(exec'[e]) => cur' = e /\ exec'[e].pk \in Rows(mem),
         \A f \in Execs : f # e /\ Stores(exec[f]) => cur' = f
  PROVE  ExecInv'
<1>1. OnlyCurStores'
  BY Zenon DEF OnlyCurStores, OnlyMoves, Stores
<1>2. CursorInChain'
  BY Zenon DEF ExecInv, CursorInChain, OnlyMoves
<1>3. LinkReady'
  BY Zenon DEF ExecInv, LinkReady, OnlyMoves
<1>4. StoredIsVisible'
  BY Zenon DEF ExecInv, StoredIsVisible, OnlyMoves, Stores
<1>. QED  BY Zenon, <1>1, <1>2, <1>3, <1>4 DEF ExecInv

\* A step of one executor that leaves the table alone keeps the keys apart.
LEMMA UniqueKept ==
  ASSUME UniqueInv, NEW e \in Execs, OnlyMoves(e), UNCHANGED <<mem, clash>>,
         Hanging' = Hanging,
         exec'[e].phase # "idle" => exec[e].phase # "idle" /\ exec'[e].pk = exec[e].pk,
         exec'[e].phase = "dup" /\ exec'[e].pk \notin clash =>
           \A p \in Before(mem, exec'[e].cursor) : exec'[e].pk \notin Range(mem[p].rows),
         exec'[e].phase = "tail" /\ exec'[e].pk \notin clash => exec'[e].pk \notin Rows(mem)
  PROVE  UniqueInv'
<1>1. \A f \in Execs : exec'[f].phase # "idle" => exec[f].phase # "idle" /\ exec'[f].pk = exec[f].pk
  BY Zenon DEF OnlyMoves
<1>2. ClashIsKnown'
  BY Zenon, <1>1 DEF UniqueInv, ClashIsKnown
<1>3. ScanIsClear'
  BY Zenon DEF UniqueInv, ScanIsClear, OnlyMoves
<1>4. LiveUnique'
  BY Zenon DEF UniqueInv, LiveUnique
<1>. QED  BY Zenon, <1>2, <1>3, <1>4 DEF UniqueInv

\* The checkpointer's promises grow with the table.
LEMMA CkptGrows ==
  ASSUME Types, CkptInv, mem' \in [Pages -> Images], Below(mem, mem'),
         UNCHANGED <<disk, todo, ckpc, acked, covered, durable>>
  PROVE  CkptInv'
<1>1. mem \in [Pages -> Images] /\ disk \in [Pages -> Images]
  BY Zenon DEF Types
<1>2. Rows(mem) \subseteq Rows(mem')
  BY Zenon, <1>1, RowsGrow
<1>3. /\ Merged \in [Pages -> Images] /\ Merged' \in [Pages -> Images]
      /\ \A p \in Pages : /\ p \in todo => Merged[p] = mem[p] /\ Merged'[p] = mem'[p]
                          /\ p \notin todo => Merged[p] = disk[p] /\ Merged'[p] = disk[p]
  BY Zenon, <1>1 DEF Merged
<1>4. Below(disk, disk)
  BY Zenon, <1>1, BelowSelf
<1>5. Below(Merged, Merged')
  BY ZenonT(60), <1>3, <1>4 DEF Below
<1>6. Rows(Merged) \subseteq Rows(Merged')
  BY Zenon, <1>3, <1>5, RowsGrow
<1>. QED  BY Zenon, <1>2, <1>6 DEF CkptInv

\* A step of one executor that leaves the table alone, and the checkpointer.
LEMMA ExecStep ==
  ASSUME HInv, NEW e \in Execs, OnlyMoves(e), UNCHANGED <<mem, disk, dirty, free, todo, ckpc>>,
         exec[e].phase # "link", exec'[e].phase # "link",
         exec'[e].phase # "idle" => exec'[e].pk \in Pks /\ exec'[e].cursor \in Chain(mem),
         Stores(exec'[e]) => cur' = e /\ exec'[e].pk \in Rows(mem),
         \A f \in Execs : f # e /\ Stores(exec[f]) => cur' = f,
         cur' \in Execs \union {0}
  PROVE  Types' /\ TableInv' /\ OrderInv' /\ ExecInv' /\ Hanging' = Hanging
<1>1. Types /\ ExecInv /\ OrderInv /\ TableInv
  BY Zenon DEF HInv
<1>2. Types'
  <2>1. Chain(mem) \subseteq Pages
    BY Zenon DEF Chain
  <2>. QED  BY Zenon, <1>1, <2>1, TypesMoved DEF Types
<1>3. TableInv'
  BY Zenon, <1>1 DEF TableInv, FreeIsBlank, CleanIsSaved
<1>4. Hanging' = Hanging
  BY Zenon, HangingSame
<1>5. OrderInv'
  BY Zenon, <1>1, <1>4, OrderKept
<1>6. ExecInv'
  BY Zenon, <1>1, ExecKept
<1>. QED  BY Zenon, <1>2, <1>3, <1>4, <1>5, <1>6

\* The records of the log are counted.
LEMMA LogAppended ==
  ASSUME LogTypes, NEW rec, WalAppend(rec), UNCHANGED <<flushed, ckpt>>
  PROVE  LogTypes'
<1>1. PICK T : log \in Seq(T)
  BY Zenon DEF LogTypes
<1>2. flushed \in 0 .. Len(log) /\ ckpt \in 0 .. flushed
  BY Zenon DEF LogTypes
<1>3. CASE log' = log
  BY Zenon, <1>1, <1>2, <1>3 DEF LogTypes
<1>4. CASE log' = Append(log, rec)
  <2>1. log' \in Seq(T \union {rec}) /\ Len(log') = Len(log) + 1 /\ Len(log) \in Nat
    BY <1>1, <1>4
  <2>2. flushed \in 0 .. Len(log')
    BY <1>2, <2>1
  <2>. QED  BY Zenon, <1>2, <2>1, <2>2 DEF LogTypes
<1>. QED  BY Zenon, <1>3, <1>4 DEF WalAppend

-----------------------------------------------------------------------------
(* One lemma per handler. *)

\* A client's insert is handed to its executor.
LEMMA SubmitStep ==
  ASSUME HInv, NEW e \in Execs, NEW pk \in Pks, Submit(e, pk)
  PROVE  HInv'
<1>1. /\ Types /\ ExecInv /\ UniqueInv /\ CkptInv /\ LogTypes
      /\ UNCHANGED <<free, mem, disk, dirty, cur, log, flushed, ckpt>>
      /\ UNCHANGED <<ckpc, todo, covered, durable, acked>>
  BY Zenon DEF HInv, Submit, table, wal, checkpointer
<1>2. PICK x : /\ x = [phase |-> "dup", pk |-> pk, cursor |-> Root, target |-> 0, new |-> FALSE]
               /\ exec' = [exec EXCEPT ![e] = x]
  BY Zenon DEF Submit
<1>3. /\ x \in Records /\ x.phase = "dup" /\ x.pk = pk /\ x.cursor = Root
  BY <1>2, RootIsPage DEF Records, PhaseNames
<1>4. OnlyMoves(e) /\ exec'[e] = x /\ exec[e].phase = "idle"
  BY Zenon, <1>1, <1>2, <1>3, MoveEffect DEF Submit
<1>5. /\ exec[e].phase # "link" /\ exec'[e].phase # "link" /\ exec'[e].phase # "tail"
      /\ ~ Stores(exec'[e])
  BY <1>3, <1>4 DEF Stores
<1>6. Root \in Chain(mem)
  BY Zenon, <1>1, Images2, ReachClosed, ChainIsReach
<1>7. Types' /\ TableInv' /\ OrderInv' /\ ExecInv' /\ Hanging' = Hanging
  <2>1. \A f \in Execs : f # e /\ Stores(exec[f]) => cur' = f
    BY Zenon, <1>1 DEF ExecInv, OnlyCurStores, Stores
  <2>2. cur' \in Execs \union {0}
    BY Zenon, <1>1 DEF Types
  <2>. QED  BY Zenon, <1>1, <1>3, <1>4, <1>5, <1>6, <2>1, <2>2, ExecStep
<1>8. UniqueInv'
  <2>1. /\ clash \subseteq clash'
        /\ \A f \in Execs : exec[f].phase # "idle" /\ exec[f].pk = pk => pk \in clash'
    BY Zenon DEF Submit
  <2>2. ClashIsKnown'
    <3>1. ASSUME NEW f \in Execs, NEW g \in Execs, f # g, exec'[f].phase # "idle",
                 exec'[g].phase # "idle", exec'[f].pk = exec'[g].pk
          PROVE  exec'[f].pk \in clash'
      <4>1. CASE f = e
        <5>1. exec'[g] = exec[g]
          BY Zenon, <3>1, <4>1, <1>4 DEF OnlyMoves
        <5>. QED  BY Zenon, <3>1, <4>1, <5>1, <1>3, <1>4, <2>1
      <4>2. CASE g = e
        <5>1. exec'[f] = exec[f]
          BY Zenon, <3>1, <4>2, <1>4 DEF OnlyMoves
        <5>. QED  BY Zenon, <3>1, <4>2, <5>1, <1>3, <1>4, <2>1
      <4>3. CASE f # e /\ g # e
        BY Zenon, <3>1, <4>3, <1>1, <1>4, <2>1 DEF OnlyMoves, UniqueInv, ClashIsKnown
      <4>. QED  BY Zenon, <4>1, <4>2, <4>3
    <3>. QED  BY Zenon, <3>1 DEF ClashIsKnown
  <2>3. ScanIsClear'
    <3>1. Before(mem, Root) = {}
      <4>1. Closed(mem, {Root}, {Root}) /\ {Root} \subseteq Pages
        BY Zenon, RootIsPage DEF Closed
      <4>2. Reach(mem, {Root}) \subseteq {Root}
        BY Zenon, <4>1, ReachLeast
      <4>. QED  BY Zenon, <4>2 DEF Before
    <3>2. ASSUME NEW f \in Execs, f # e PROVE exec'[f] = exec[f]
      BY Zenon, <1>4, <3>2 DEF OnlyMoves
    <3>3. ASSUME NEW f \in Execs, exec'[f].pk \notin clash', exec'[f].phase = "dup"
          PROVE  \A p \in Before(mem, exec'[f].cursor) : exec'[f].pk \notin Range(mem[p].rows)
      <4>1. CASE f = e
        BY Zenon, <4>1, <3>1, <1>3, <1>4
      <4>2. CASE f # e
        BY Zenon, <4>2, <3>2, <3>3, <2>1, <1>1 DEF UniqueInv, ScanIsClear
      <4>. QED  BY Zenon, <4>1, <4>2
    <3>4. ASSUME NEW f \in Execs, exec'[f].pk \notin clash', exec'[f].phase = "tail"
          PROVE  exec'[f].pk \notin Rows(mem)
      BY Zenon, <3>2, <3>4, <2>1, <1>1, <1>5 DEF UniqueInv, ScanIsClear
    <3>. QED  BY Zenon, <3>3, <3>4, <1>1 DEF ScanIsClear
  <2>4. LiveUnique'
    <3>1. Unique(mem, Hanging, clash) /\ clash \subseteq clash'
      BY Zenon, <1>1, <2>1 DEF UniqueInv, LiveUnique
    <3>2. Unique(mem, Hanging, clash')
      BY Zenon, <3>1, UniqueLess
    <3>. QED  BY Zenon, <1>1, <1>7, <3>2 DEF LiveUnique
  <2>. QED  BY Zenon, <2>2, <2>3, <2>4 DEF UniqueInv
<1>9. CkptInv' /\ LogTypes'
  BY Zenon, <1>1 DEF CkptInv, LogTypes, Merged
<1>. QED  BY Zenon, <1>7, <1>8, <1>9 DEF HInv

\* A slice begins, or ends between two pages.
LEMMA SliceStep ==
  ASSUME HInv, (\E e \in Execs : Pick(e)) \/ Expire \/ UNCHANGED vars
  PROVE  HInv'
<1>1. UNCHANGED <<free, table, exec, wal, checkpointer, boot>>
  BY Zenon DEF Pick, Expire, vars, proc
<1>2. /\ UNCHANGED <<free, mem, disk, dirty, exec, log, flushed, ckpt>>
      /\ UNCHANGED <<ckpc, todo, covered, durable, acked, clash>>
  BY Zenon, <1>1 DEF table, wal, checkpointer, boot
<1>3. /\ cur' \in Execs \union {0}
      /\ \A e \in Execs : Stores(exec[e]) => e = cur'
  <2>1. /\ cur \in Execs \union {0} /\ 0 \notin Execs
        /\ \A e \in Execs : Stores(exec[e]) => e = cur
    <3>1. 0 \notin Execs
      BY HeapInsertAssumption DEF Execs
    <3>. QED  BY Zenon, <3>1 DEF HInv, Types, ExecInv, OnlyCurStores, Stores
  <2>2. ASSUME NEW e \in Execs, Pick(e) PROVE cur = 0 /\ cur' = e
    BY Zenon, <2>2 DEF Pick
  <2>3. ASSUME Expire PROVE cur \in Execs /\ cur' = 0 /\ ~ Stores(exec[cur])
    <3>1. cur \in Execs /\ cur' = 0 /\ (exec[cur].phase = "dup" \/ exec[cur].phase = "tail")
      BY Zenon, <2>1, <2>3 DEF Expire
    <3>. QED  BY <3>1 DEF Stores
  <2>4. ASSUME UNCHANGED vars PROVE cur' = cur
    BY Zenon, <2>4 DEF vars, proc
  <2>. QED  BY Zenon, <2>1, <2>2, <2>3, <2>4
<1>4. Types' /\ LogTypes'
  BY Zenon, <1>2, <1>3 DEF HInv, Types, LogTypes
<1>5. TableInv'
  BY Zenon, <1>2 DEF HInv, TableInv, FreeIsBlank, CleanIsSaved
<1>6. OrderInv'
  BY Zenon, <1>2
     DEF HInv, OrderInv, AllocInOrder, UnsavedInChain, BlankIsNext, Unsaved, Hanging
<1>7. ExecInv'
  BY Zenon, <1>2, <1>3
     DEF HInv, ExecInv, OnlyCurStores, CursorInChain, LinkReady, StoredIsVisible, Stores
<1>8. CkptInv'
  BY Zenon, <1>2 DEF HInv, CkptInv, Merged
<1>9. UniqueInv'
  <2>1. Hanging' = Hanging
    BY Zenon, <1>2 DEF Hanging
  <2>2. ClashIsKnown'
    BY Zenon, <1>2 DEF HInv, UniqueInv, ClashIsKnown
  <2>3. ScanIsClear'
    BY Zenon, <1>2 DEF HInv, UniqueInv, ScanIsClear
  <2>4. LiveUnique'
    BY Zenon, <2>1, <1>2 DEF HInv, UniqueInv, LiveUnique
  <2>. QED  BY Zenon, <2>2, <2>3, <2>4 DEF UniqueInv
<1>. QED  BY Zenon, <1>4, <1>5, <1>6, <1>7, <1>8, <1>9 DEF HInv

\* Nobody but the executor that runs stores.
LEMMA OthersStoreNothing ==
  ASSUME HInv, cur \in Execs
  PROVE  \A f \in Execs : f # cur => ~ Stores(exec[f])
BY Zenon DEF HInv, ExecInv, OnlyCurStores, Stores

\* The insert ends without a row, or its record is written and it is answered.
LEMMA EndStep ==
  ASSUME HInv, DupFound \/ GrowFails \/ WalInsert
  PROVE  HInv'
<1>1. /\ Types /\ UniqueInv /\ CkptInv /\ LogTypes
      /\ UNCHANGED <<free, mem, disk, dirty, ckpc, todo, covered, durable, clash, flushed, ckpt>>
      /\ Finish
  BY Zenon DEF HInv, DupFound, GrowFails, WalInsert, table, wal, checkpointer, boot
<1>2. cur \in Execs /\ exec[cur].phase \in {"dup", "tail", "walinsert"}
  <2>1. PICK ph \in {"dup", "tail", "walinsert"} : At(ph)
    BY Zenon DEF DupFound, GrowFails, LastIsFull, WalInsert
  <2>2. ph # "idle"
    BY <2>1
  <2>. QED  BY Zenon, <1>1, <2>1, <2>2, AtCur
<1>3. OnlyMoves(cur) /\ exec'[cur].phase = "idle" /\ cur' = 0
  BY Zenon, <1>1, <1>2, FinishEffect
<1>4. /\ exec[cur].phase # "link" /\ exec'[cur].phase \notin {"link", "dup", "tail"}
      /\ ~ Stores(exec'[cur])
  BY <1>2, <1>3 DEF Stores
<1>5. Types' /\ TableInv' /\ OrderInv' /\ ExecInv' /\ Hanging' = Hanging
  BY Zenon, <1>1, <1>2, <1>3, <1>4, OthersStoreNothing, ExecStep
<1>6. UniqueInv'
  BY Zenon, <1>1, <1>2, <1>3, <1>4, <1>5, UniqueKept
<1>7. LogTypes'
  <2>1. CASE DupFound \/ GrowFails
    BY Zenon, <1>1, <2>1 DEF DupFound, GrowFails, wal, LogTypes
  <2>2. CASE WalInsert
    BY Zenon, <1>1, <2>2, LogAppended DEF WalInsert
  <2>. QED  BY Zenon, <2>1, <2>2
<1>8. CkptInv'
  <2>1. acked' \subseteq Rows(mem)
    <3>1. CASE DupFound \/ GrowFails
      BY Zenon, <1>1, <3>1 DEF DupFound, GrowFails, boot, CkptInv
    <3>2. CASE WalInsert
      <4>1. exec[cur].pk \in Rows(mem)
        BY Zenon, <3>2, <1>2 DEF WalInsert, At, HInv, ExecInv, StoredIsVisible
      <4>. QED  BY Zenon, <4>1, <3>2, <1>1 DEF WalInsert, CkptInv
    <3>. QED  BY Zenon, <3>1, <3>2
  <2>. QED  BY Zenon, <1>1, <2>1 DEF CkptInv, Merged
<1>. QED  BY Zenon, <1>5, <1>6, <1>7, <1>8 DEF HInv

\* The walk to the next page is the walk to this one and this one.
LEMMA BeforeNext ==
  ASSUME NEW f, Linked(f), NEW c \in Pages, f[c].next # 0
  PROVE  Before(f, f[c].next) \subseteq Before(f, c) \union {c}
<1>. DEFINE n == f[c].next
            S == Reach(f, {c}) \union {n}
<1>1. n \in Pages
  BY Zenon DEF Linked
<1>2. /\ Reach(f, {c}) \subseteq Pages /\ Root \in Reach(f, {c})
      /\ \A r \in Reach(f, {c}) \ {c} : f[r].next # 0 => f[r].next \in Reach(f, {c})
  BY Zenon, ReachClosed
<1>3. S \subseteq Pages /\ Closed(f, {n}, S)
  BY Zenon, <1>1, <1>2 DEF Closed
<1>4. Reach(f, {n}) \subseteq S
  BY Zenon, <1>3, ReachLeast
<1>. QED  BY Zenon, <1>4 DEF Before

\* The walk to the end of the chain and the end are the whole chain.
LEMMA BeforeEnd ==
  ASSUME NEW f, Linked(f), NEW c \in Pages, f[c].next = 0
  PROVE  Chain(f) \subseteq Before(f, c) \union {c}
<1>1. Reach(f, {}) \subseteq Reach(f, {c})
  BY Zenon, ReachWithin
<1>. QED  BY Zenon, <1>1, ChainIsReach DEF Before

\* The scan has not found the key on a page and moves on.
LEMMA DupPageStep ==
  ASSUME HInv, DupPage
  PROVE  HInv'
<1>. DEFINE c == exec[cur].cursor
            n == mem[c].next
            k == exec[cur].pk
<1>1. /\ Types /\ ExecInv /\ UniqueInv /\ CkptInv /\ LogTypes
      /\ UNCHANGED <<free, mem, disk, dirty, ckpc, todo, covered, durable>>
      /\ UNCHANGED <<log, flushed, ckpt, clash, acked, cur>>
  BY Zenon DEF HInv, DupPage, Goto, table, wal, checkpointer, boot
<1>2. /\ cur \in Execs /\ exec[cur].phase = "dup" /\ exec[cur] \in Records
      /\ k \in Pks /\ c \in Pages /\ k \notin Range(mem[c].rows)
  <2>1. "dup" # "idle"
    OBVIOUS
  <2>. QED  BY Zenon, <1>1, <2>1, AtCur DEF DupPage
<1>3. Linked(mem) /\ Root \in Chain(mem) /\ c \in Chain(mem)
  <2>1. exec[cur].phase # "idle"
    BY <1>2
  <2>2. Linked(mem) /\ c \in Chain(mem)
    BY Zenon, <1>1, <1>2, <2>1, Images2 DEF ExecInv, CursorInChain
  <2>. QED  BY Zenon, <2>2, ReachClosed, ChainIsReach
<1>4. PICK x : /\ exec' = [exec EXCEPT ![cur] = x]
               /\ n = 0 => x = [exec[cur] EXCEPT !.phase = "tail", !.cursor = Root]
               /\ n # 0 => x = [exec[cur] EXCEPT !.cursor = n]
  BY Zenon DEF DupPage, Goto
<1>5. /\ x \in Records /\ x.pk = k /\ x.cursor \in Chain(mem)
      /\ n = 0 => x.phase = "tail"
      /\ n # 0 => x.phase = "dup" /\ x.cursor = n
  <2>1. CASE n = 0
    <3>1. "tail" \in PhaseNames
      BY DEF PhaseNames
    <3>2. Changed(exec[cur], x, "tail", Root, exec[cur].target)
      BY Zenon, <2>1, <3>1, <1>2, <1>4, RootIsPage, SetPhaseCursor
    <3>. QED  BY Zenon, <2>1, <3>2, <1>3 DEF Changed
  <2>2. CASE n # 0
    <3>2. n \in Pages /\ n \in Chain(mem)
      BY Zenon, <2>2, <1>2, <1>3, ReachClosed, ChainIsReach DEF Linked
    <3>3. Changed(exec[cur], x, exec[cur].phase, n, exec[cur].target)
      BY Zenon, <2>2, <3>2, <1>2, <1>4, SetCursor
    <3>. QED  BY Zenon, <2>2, <3>2, <3>3, <1>2 DEF Changed
  <2>. QED  BY Zenon, <2>1, <2>2
<1>6. OnlyMoves(cur) /\ exec'[cur] = x
  BY Zenon, <1>1, <1>2, <1>4, <1>5, MoveEffect
<1>7. /\ exec[cur].phase # "link" /\ exec[cur].phase # "idle"
      /\ x.phase # "link" /\ ~ Stores(x)
      /\ x.phase = "dup" => n # 0
      /\ x.phase = "tail" => n = 0
  BY <1>2, <1>5 DEF Stores
<1>8. Types' /\ TableInv' /\ OrderInv' /\ ExecInv' /\ Hanging' = Hanging
  BY Zenon, <1>1, <1>2, <1>5, <1>6, <1>7, OthersStoreNothing, ExecStep
<1>9. UniqueInv'
  <2>1. k \notin clash => \A p \in Before(mem, c) \union {c} : k \notin Range(mem[p].rows)
    BY Zenon, <1>1, <1>2 DEF UniqueInv, ScanIsClear
  <2>2. x.phase = "dup" /\ k \notin clash =>
          \A p \in Before(mem, x.cursor) : k \notin Range(mem[p].rows)
    BY Zenon, <2>1, <1>2, <1>3, <1>5, <1>7, BeforeNext
  <2>3. x.phase = "tail" /\ k \notin clash => k \notin Rows(mem)
    <3>. SUFFICES ASSUME x.phase = "tail", k \notin clash, NEW p \in Chain(mem),
                         k \in Range(mem[p].rows)
                  PROVE  FALSE
      BY Zenon DEF Rows
    <3>1. n = 0
      BY Zenon, <1>7
    <3>2. p \in Before(mem, c) \union {c}
      BY Zenon, <3>1, <1>2, <1>3, BeforeEnd
    <3>. QED  BY Zenon, <2>1, <3>2
  <2>. QED  BY Zenon, <1>1, <1>2, <1>5, <1>6, <1>7, <1>8, <2>2, <2>3, UniqueKept
<1>10. CkptInv' /\ LogTypes'
  BY Zenon, <1>1 DEF CkptInv, LogTypes, Merged
<1>. QED  BY Zenon, <1>8, <1>9, <1>10 DEF HInv

\* The search for room moves on.
LEMMA TailNextStep ==
  ASSUME HInv, TailNext
  PROVE  HInv'
<1>. DEFINE c == exec[cur].cursor
            n == mem[c].next
            k == exec[cur].pk
<1>1. /\ Types /\ ExecInv /\ UniqueInv /\ CkptInv /\ LogTypes
      /\ UNCHANGED <<free, mem, disk, dirty, ckpc, todo, covered, durable>>
      /\ UNCHANGED <<log, flushed, ckpt, clash, acked, cur>>
  BY Zenon DEF HInv, TailNext, Goto, table, wal, checkpointer, boot
<1>2. /\ cur \in Execs /\ exec[cur].phase = "tail" /\ exec[cur] \in Records
      /\ k \in Pks /\ c \in Pages /\ n # 0
  <2>1. "tail" # "idle"
    OBVIOUS
  <2>. QED  BY Zenon, <1>1, <2>1, AtCur DEF TailNext
<1>3. n \in Pages /\ n \in Chain(mem)
  <2>1. exec[cur].phase # "idle"
    BY <1>2
  <2>2. Linked(mem) /\ c \in Chain(mem)
    BY Zenon, <1>1, <1>2, <2>1, Images2 DEF ExecInv, CursorInChain
  <2>. QED  BY Zenon, <1>2, <2>2, ReachClosed, ChainIsReach DEF Linked
<1>4. PICK x : exec' = [exec EXCEPT ![cur] = x] /\ x = [exec[cur] EXCEPT !.cursor = n]
  BY Zenon DEF TailNext, Goto
<1>5. x \in Records /\ x.pk = k /\ x.cursor = n /\ x.phase = "tail"
  <2>1. Changed(exec[cur], x, exec[cur].phase, n, exec[cur].target)
    BY Zenon, <1>2, <1>3, <1>4, SetCursor
  <2>. QED  BY Zenon, <2>1, <1>2 DEF Changed
<1>6. OnlyMoves(cur) /\ exec'[cur] = x
  BY Zenon, <1>1, <1>2, <1>4, <1>5, MoveEffect
<1>7. /\ exec[cur].phase # "link" /\ exec[cur].phase # "idle"
      /\ x.phase # "link" /\ ~ Stores(x) /\ x.phase # "dup"
  BY <1>2, <1>5 DEF Stores
<1>8. Types' /\ TableInv' /\ OrderInv' /\ ExecInv' /\ Hanging' = Hanging
  BY Zenon, <1>1, <1>2, <1>3, <1>5, <1>6, <1>7, OthersStoreNothing, ExecStep
<1>9. UniqueInv'
  <2>1. k \notin clash => k \notin Rows(mem)
    BY Zenon, <1>1, <1>2 DEF UniqueInv, ScanIsClear
  <2>. QED  BY Zenon, <1>1, <1>2, <1>5, <1>6, <1>7, <1>8, <2>1, UniqueKept
<1>10. CkptInv' /\ LogTypes'
  BY Zenon, <1>1 DEF CkptInv, LogTypes, Merged
<1>. QED  BY Zenon, <1>8, <1>9, <1>10 DEF HInv

\* The new page's record is written, or dropped.
LEMMA WalInitStep ==
  ASSUME HInv, WalInitPage
  PROVE  HInv'
<1>. DEFINE k == exec[cur].pk
<1>1. /\ Types /\ ExecInv /\ UniqueInv /\ CkptInv /\ LogTypes
      /\ UNCHANGED <<free, mem, disk, dirty, ckpc, todo, covered, durable>>
      /\ UNCHANGED <<flushed, ckpt, clash, acked, cur>>
  BY Zenon DEF HInv, WalInitPage, Goto, table, checkpointer, boot
<1>2. /\ cur \in Execs /\ exec[cur].phase = "walinit" /\ exec[cur] \in Records
      /\ k \in Pks /\ exec[cur].cursor \in Pages
  <2>1. "walinit" # "idle"
    OBVIOUS
  <2>. QED  BY Zenon, <1>1, <2>1, AtCur DEF WalInitPage
<1>3. exec[cur].cursor \in Chain(mem) /\ k \in Rows(mem)
  <2>1. exec[cur].phase # "idle"
    BY <1>2
  <2>. QED  BY Zenon, <1>1, <1>2, <2>1 DEF ExecInv, CursorInChain, StoredIsVisible
<1>4. PICK x : exec' = [exec EXCEPT ![cur] = x] /\ x = [exec[cur] EXCEPT !.phase = "walinsert"]
  BY Zenon DEF WalInitPage, Goto
<1>5. x \in Records /\ x.pk = k /\ x.cursor = exec[cur].cursor /\ x.phase = "walinsert"
  <2>1. "walinsert" \in PhaseNames
    BY DEF PhaseNames
  <2>2. Changed(exec[cur], x, "walinsert", exec[cur].cursor, exec[cur].target)
    BY Zenon, <2>1, <1>2, <1>4, SetPhase
  <2>. QED  BY Zenon, <2>2 DEF Changed
<1>6. OnlyMoves(cur) /\ exec'[cur] = x
  BY ZenonT(20), <1>1, <1>2, <1>4, <1>5, MoveEffect
<1>7. /\ exec[cur].phase # "link" /\ exec[cur].phase # "idle"
      /\ x.phase # "link" /\ x.phase # "dup" /\ x.phase # "tail"
  BY <1>2, <1>5
<1>8. Types' /\ TableInv' /\ OrderInv' /\ ExecInv' /\ Hanging' = Hanging
  BY Zenon, <1>1, <1>2, <1>3, <1>5, <1>6, <1>7, OthersStoreNothing, ExecStep
<1>9. UniqueInv'
  BY Zenon, <1>1, <1>2, <1>5, <1>6, <1>7, <1>8, UniqueKept
<1>10. CkptInv' /\ LogTypes'
  BY Zenon, <1>1, LogAppended DEF CkptInv, Merged, WalInitPage
<1>. QED  BY Zenon, <1>8, <1>9, <1>10 DEF HInv

-----------------------------------------------------------------------------
(* Rows and links are added. *)

\* Page p has got a row with key k and is initialised.
RowStored(p, k) ==
  /\ mem' \in [Pages -> Images]
  /\ \A r \in Pages : Len(mem'[r].rows) <= PageCap /\ mem'[r].next = mem[r].next
  /\ \A r \in Pages \ {p} : mem'[r] = mem[r]
  /\ mem'[p].init
  /\ Below(mem, mem')
  /\ \A i \in DOMAIN mem'[p].rows :
       \/ i \in DOMAIN mem[p].rows /\ mem'[p].rows[i] = mem[p].rows[i]
       \/ i = Len(mem[p].rows) + 1 /\ mem'[p].rows[i] = k
  /\ Len(mem[p].rows) + 1 \in DOMAIN mem'[p].rows
  /\ mem'[p].rows[Len(mem[p].rows) + 1] = k

\* The rows of image y are those of x and one with key k.
Appended(x, y, k) ==
  /\ Len(y.rows) = Len(x.rows) + 1 /\ Len(x.rows) \in Nat
  /\ Len(x.rows) <= Len(y.rows)
  /\ \A i \in 1 .. Len(x.rows) : y.rows[i] = x.rows[i]
  /\ \A i \in DOMAIN y.rows :
       \/ i \in DOMAIN x.rows /\ y.rows[i] = x.rows[i]
       \/ i = Len(x.rows) + 1 /\ y.rows[i] = k
  /\ Len(x.rows) + 1 \in DOMAIN y.rows /\ y.rows[Len(x.rows) + 1] = k

\* What it is to append to an image.
LEMMA AppendedImage ==
  ASSUME NEW x \in Images, NEW y \in Images, NEW k \in Pks, y.rows = Append(x.rows, k)
  PROVE  Appended(x, y, k)
<1>1. x.rows \in Seq(Pks) /\ y.rows \in Seq(Pks)
  BY DEF Images
<1>. QED  BY <1>1 DEF Appended

\* y is the image x with the rows s.
WithRows(x, y, s) == y \in Images /\ y.rows = s /\ y.next = x.next /\ y.init = x.init

\* What is stored in an image by EXCEPT.
LEMMA RowImage ==
  ASSUME NEW x \in Images, NEW s \in Seq(Pks), NEW y, y = [x EXCEPT !.rows = s]
  PROVE  WithRows(x, y, s)
BY ZenonT(40) DEF Images, WithRows

\* The table after a page got a row.
LEMMA RowEffect ==
  ASSUME Types, NEW p \in Pages, NEW k \in Pks, NEW y \in Images,
         mem' = [mem EXCEPT ![p] = y], y.rows = Append(mem[p].rows, k),
         y.next = mem[p].next, y.init, Len(mem[p].rows) < PageCap
  PROVE  RowStored(p, k)
<1>1. /\ mem' \in [Pages -> Images] /\ mem'[p] = y
      /\ \A r \in Pages \ {p} : mem'[r] = mem[r]
      /\ \A r \in Pages : mem'[r].next = mem[r].next
      /\ mem[p] \in Images
  BY Zenon DEF Types
<1>2. Appended(mem[p], y, k)
  BY Zenon, <1>1, AppendedImage
<1>3. Len(y.rows) <= PageCap
  <2>1. Len(y.rows) = Len(mem[p].rows) + 1 /\ Len(mem[p].rows) \in Nat
    BY Zenon, <1>2 DEF Appended
  <2>. QED  BY <2>1, HeapInsertAssumption
<1>4. \A r \in Pages : Len(mem'[r].rows) <= PageCap
  BY Zenon, <1>1, <1>3 DEF Types
<1>5. Below(mem, mem')
  <2>1. Below(mem, mem)
    BY Zenon, BelowSelf DEF Types
  <2>. QED  BY ZenonT(40), <2>1, <1>1, <1>2 DEF Below, Appended
<1>. QED  BY Zenon, <1>1, <1>2, <1>4, <1>5 DEF RowStored, Appended

\* What is in the rows of a page after it got one.
LEMMA StoredRange ==
  ASSUME NEW p \in Pages, NEW k, RowStored(p, k), NEW r \in Pages
  PROVE  /\ Range(mem'[r].rows) \subseteq Range(mem[r].rows) \union {k}
         /\ k \in Range(mem'[p].rows)
<1>1. CASE r = p
  BY ZenonT(40), <1>1 DEF RowStored, Range
<1>2. CASE r # p
  BY Zenon, <1>2 DEF RowStored, Range
<1>. QED  BY Zenon, <1>1, <1>2

\* The table's own invariant.
LEMMA TableStored ==
  ASSUME Types, TableInv, NEW p \in Pages, NEW k, RowStored(p, k),
         dirty' = dirty \union {p}, free' = free \ {p}, UNCHANGED disk
  PROVE  TableInv'
<1>1. FreeIsBlank'
  <2>1. ASSUME NEW r \in Pages
        PROVE  /\ r \in free' <=> ~ mem'[r].init
               /\ ~ mem'[r].init => mem'[r].rows = <<>> /\ mem'[r].next = 0
               /\ ~ disk[r].init => disk[r].rows = <<>> /\ disk[r].next = 0
               /\ disk[r].init => mem'[r].init
    <3>1. CASE r = p
      <4>1. mem'[r].init /\ r \notin free'
        BY Zenon, <3>1 DEF RowStored
      <4>2. ~ disk[r].init => disk[r].rows = <<>> /\ disk[r].next = 0
        BY Zenon DEF TableInv, FreeIsBlank
      <4>. QED  BY Zenon, <4>1, <4>2
    <3>2. CASE r # p
      <4>1. mem'[r] = mem[r] /\ (r \in free' <=> r \in free)
        BY Zenon, <3>2 DEF RowStored
      <4>. QED  BY Zenon, <4>1 DEF TableInv, FreeIsBlank
    <3>. QED  BY Zenon, <3>1, <3>2
  <2>2. mem'[Root].init
    <3>1. mem[Root].init
      BY Zenon DEF TableInv, FreeIsBlank
    <3>. QED  BY Zenon, <3>1, RootIsPage DEF RowStored
  <2>. QED  BY Zenon, <2>1, <2>2 DEF FreeIsBlank
<1>2. CleanIsSaved'
  BY ZenonT(20) DEF TableInv, CleanIsSaved, RowStored
<1>3. Below(disk, mem)'
  BY Zenon, BelowTrans DEF TableInv, Types, RowStored
<1>. QED  BY Zenon, <1>1, <1>2, <1>3 DEF TableInv

\* The scans of the others are as clear as before, but for a key they share.
LEMMA ScansGrown ==
  ASSUME ClashIsKnown, ScanIsClear, cur \in Execs, OnlyMoves(cur), UNCHANGED clash,
         exec[cur].phase # "idle", exec'[cur].phase # "dup", exec'[cur].phase # "tail",
         exec'[cur].pk = exec[cur].pk,
         \A c \in Pages : \A r \in Before(mem', c) :
           \/ /\ r \in Before(mem, c)
              /\ Range(mem'[r].rows) \subseteq Range(mem[r].rows) \union {exec[cur].pk}
           \/ Range(mem'[r].rows) \subseteq {exec[cur].pk},
         Rows(mem') \subseteq Rows(mem) \union {exec[cur].pk},
         \A f \in Execs : exec[f].phase # "idle" => exec[f].cursor \in Pages
  PROVE  ClashIsKnown' /\ ScanIsClear'
<1>1. ClashIsKnown'
  BY ZenonT(40) DEF ClashIsKnown, OnlyMoves
<1>2. ASSUME NEW f \in Execs, exec'[f].pk \notin clash,
             exec'[f].phase = "dup" \/ exec'[f].phase = "tail"
      PROVE  /\ f # cur /\ exec'[f] = exec[f] /\ exec[f].pk # exec[cur].pk
             /\ exec[f].cursor \in Pages
  <2>1. f # cur /\ exec'[f] = exec[f]
    BY Zenon, <1>2 DEF OnlyMoves
  <2>2. exec[f].phase # "idle"
    BY <1>2, <2>1
  <2>. QED  BY Zenon, <1>2, <2>1, <2>2 DEF ClashIsKnown
<1>3. ASSUME NEW f \in Execs, exec'[f].pk \notin clash', exec'[f].phase = "dup",
             NEW r \in Before(mem', exec'[f].cursor)
      PROVE  exec'[f].pk \notin Range(mem'[r].rows)
  <2>1. /\ exec'[f] = exec[f] /\ exec[f].pk # exec[cur].pk /\ exec[f].cursor \in Pages
        /\ exec[f].phase = "dup" /\ exec[f].pk \notin clash
    BY Zenon, <1>2, <1>3
  <2>2. \A p \in Before(mem, exec[f].cursor) : exec[f].pk \notin Range(mem[p].rows)
    BY Zenon, <2>1 DEF ScanIsClear
  <2>. QED  BY Zenon, <1>3, <2>1, <2>2
<1>4. ASSUME NEW f \in Execs, exec'[f].pk \notin clash', exec'[f].phase = "tail"
      PROVE  exec'[f].pk \notin Rows(mem')
  BY Zenon, <1>2, <1>4 DEF ScanIsClear
<1>5. ScanIsClear'
  BY Zenon, <1>3, <1>4 DEF ScanIsClear
<1>. QED  BY Zenon, <1>1, <1>5

\* Only the executor that runs may have a page to link.
LEMMA NothingHangs ==
  ASSUME ExecInv, cur \in Execs, exec[cur].phase # "link"
  PROVE  Hanging = {}
<1>1. \A f \in Execs : exec[f].phase # "link"
  BY Zenon DEF ExecInv, OnlyCurStores
<1>. QED  BY Zenon, <1>1 DEF Hanging

\* The keys stay apart when the running insert stores its row.
LEMMA UniqueStored ==
  ASSUME Types, ExecInv, UniqueInv, NEW p \in Pages, cur \in Execs,
         RowStored(p, exec[cur].pk), exec[cur].phase = "tail", OnlyMoves(cur),
         exec'[cur].phase # "dup", exec'[cur].phase # "tail",
         exec'[cur].pk = exec[cur].pk, UNCHANGED clash,
         \A r \in Hanging' : r = p /\ DOMAIN mem[p].rows = {}
  PROVE  UniqueInv'
<1>. DEFINE k == exec[cur].pk
<1>1. exec[cur].phase # "idle" /\ exec[cur].phase # "link"
  OBVIOUS
<1>2. \A r \in Pages : mem'[r].next = mem[r].next
  BY Zenon DEF RowStored
<1>3. /\ Chain(mem') = Chain(mem) /\ \A x : Before(mem', x) = Before(mem, x)
      /\ Chain(mem) \subseteq Pages /\ \A x : Before(mem, x) \subseteq Pages
  <2>1. Chain(mem') = Chain(mem) /\ \A x : Before(mem', x) = Before(mem, x)
    BY Zenon, <1>2, SameChain
  <2>. QED  BY Zenon, <2>1 DEF Before, Reach, Chain
<1>4. Rows(mem') \subseteq Rows(mem) \union {k}
  <2>1. ASSUME NEW r \in Chain(mem') PROVE Range(mem'[r].rows) \subseteq Rows(mem) \union {k}
    <3>1. r \in Chain(mem) /\ r \in Pages
      BY Zenon, <1>3, <2>1
    <3>2. Range(mem'[r].rows) \subseteq Range(mem[r].rows) \union {k}
      BY Zenon, <3>1, StoredRange
    <3>. QED  BY Zenon, <3>1, <3>2, RowIn
  <2>. QED  BY Zenon, <2>1, RowsWithin
<1>5. ClashIsKnown' /\ ScanIsClear'
  <2>1. \A c \in Pages : \A r \in Before(mem', c) :
          r \in Before(mem, c) /\ Range(mem'[r].rows) \subseteq Range(mem[r].rows) \union {k}
    BY ZenonT(40), <1>3, StoredRange
  <2>. QED  BY Zenon, <1>1, <1>4, <2>1, ScansGrown DEF UniqueInv, Types
<1>6. k \notin clash => k \notin Rows(mem)
  BY Zenon DEF UniqueInv, ScanIsClear
<1>7. Hanging = {}
  BY Zenon, <1>1, NothingHangs
<1>8. ASSUME NEW r, NEW i, NEW v, IsRow(mem', Chain(mem') \union Hanging', r, i, v)
      PROVE  \/ IsRow(mem, Chain(mem) \union Hanging, r, i, v)
             \/ r = p /\ i = Len(mem[p].rows) + 1 /\ v = k
  <2>1. CASE r = p
    <3>1. /\ i \in DOMAIN mem'[p].rows /\ mem'[p].rows[i] = v
          /\ p \in Chain(mem) \/ DOMAIN mem[p].rows = {}
      BY Zenon, <1>3, <1>8, <2>1 DEF IsRow
    <3>2. \/ i \in DOMAIN mem[p].rows /\ mem'[p].rows[i] = mem[p].rows[i]
          \/ i = Len(mem[p].rows) + 1 /\ mem'[p].rows[i] = k
      BY Zenon, <3>1 DEF RowStored
    <3>. QED  BY Zenon, <2>1, <3>1, <3>2 DEF IsRow
  <2>2. CASE r # p
    <3>1. r \in Chain(mem) /\ mem'[r] = mem[r]
      BY Zenon, <1>3, <1>8, <2>2 DEF RowStored, IsRow
    <3>. QED  BY Zenon, <1>8, <3>1 DEF IsRow
  <2>. QED  BY Zenon, <2>1, <2>2
<1>9. ASSUME NEW r, NEW i, IsRow(mem, Chain(mem) \union Hanging, r, i, k)
      PROVE  k \in clash
  <2>1. r \in Chain(mem) /\ k \in Range(mem[r].rows)
    BY Zenon, <1>7, <1>9 DEF Range, IsRow
  <2>2. k \in Rows(mem)
    BY Zenon, <2>1, RowIn
  <2>. QED  BY Zenon, <2>2, <1>6
<1>10. LiveUnique'
  <2>1. Unique(mem, Hanging, clash)
    BY Zenon DEF UniqueInv, LiveUnique
  <2>2. Unique(mem', Hanging', clash)
    <3>. SUFFICES ASSUME NEW r, NEW t, NEW i, NEW j, NEW v, v \notin clash,
                         IsRow(mem', Chain(mem') \union Hanging', r, i, v),
                         IsRow(mem', Chain(mem') \union Hanging', t, j, v)
                  PROVE  r = t /\ i = j
      BY Zenon DEF Unique
    <3>1. \/ IsRow(mem, Chain(mem) \union Hanging, r, i, v)
          \/ r = p /\ i = Len(mem[p].rows) + 1 /\ v = k
      BY Zenon, <1>8
    <3>2. \/ IsRow(mem, Chain(mem) \union Hanging, t, j, v)
          \/ t = p /\ j = Len(mem[p].rows) + 1 /\ v = k
      BY Zenon, <1>8
    <3>3. /\ ~ (v = k /\ IsRow(mem, Chain(mem) \union Hanging, r, i, v))
          /\ ~ (v = k /\ IsRow(mem, Chain(mem) \union Hanging, t, j, v))
      BY Zenon, <1>9
    <3>4. CASE /\ IsRow(mem, Chain(mem) \union Hanging, r, i, v)
               /\ IsRow(mem, Chain(mem) \union Hanging, t, j, v)
      BY ZenonT(40), <2>1, <3>4 DEF Unique
    <3>. QED  BY Zenon, <3>1, <3>2, <3>3, <3>4
  <2>. QED  BY Zenon, <2>2 DEF LiveUnique
<1>. QED  BY Zenon, <1>5, <1>10 DEF UniqueInv

\* The page has room, and the row goes there.
LEMMA TailInsertStep ==
  ASSUME HInv, TailInsert
  PROVE  HInv'
<1>1. /\ Types /\ ExecInv /\ UniqueInv /\ CkptInv /\ LogTypes /\ TableInv /\ OrderInv
      /\ UNCHANGED <<free, disk, ckpc, todo, covered, durable>>
      /\ UNCHANGED <<log, flushed, ckpt, clash, acked, cur>>
  BY Zenon DEF HInv, TailInsert, Goto, wal, checkpointer, boot
<1>2. /\ cur \in Execs /\ exec[cur].phase = "tail" /\ exec[cur] \in Records
      /\ exec[cur].pk \in Pks /\ exec[cur].cursor \in Pages
  <2>1. "tail" # "idle"
    OBVIOUS
  <2>. QED  BY Zenon, <1>1, <2>1, AtCur DEF TailInsert
<1>3. PICK p, x, y :
        /\ p \in Pages /\ p = exec[cur].cursor /\ HasRoom(p) /\ dirty' = dirty \union {p}
        /\ y = [mem[p] EXCEPT !.rows = Append(mem[p].rows, exec[cur].pk)]
        /\ mem' = [mem EXCEPT ![p] = y]
        /\ x = [exec[cur] EXCEPT !.phase = "walinsert", !.target = p]
        /\ exec' = [exec EXCEPT ![cur] = x]
  BY Zenon, <1>2 DEF TailInsert, Goto, WithRow
<1>4. /\ x \in Records /\ x.pk = exec[cur].pk /\ x.cursor = p /\ x.phase = "walinsert"
  <2>1. "walinsert" \in PhaseNames
    BY DEF PhaseNames
  <2>2. Changed(exec[cur], x, "walinsert", exec[cur].cursor, p)
    BY Zenon, <2>1, <1>2, <1>3, SetPhaseTarget
  <2>. QED  BY Zenon, <2>2, <1>3 DEF Changed
<1>5. OnlyMoves(cur) /\ exec'[cur] = x
  BY Zenon, <1>1, <1>2, <1>3, <1>4, MoveEffect
<1>6. /\ exec[cur].phase # "link" /\ exec[cur].phase # "idle"
      /\ x.phase # "link" /\ x.phase # "dup" /\ x.phase # "tail"
  BY <1>2, <1>4
<1>7. p \in Chain(mem) /\ mem[p].init /\ Len(mem[p].rows) < PageCap /\ p \notin free
  BY Zenon, <1>1, <1>2, <1>3, <1>6
     DEF ExecInv, CursorInChain, HasRoom, TableInv, FreeIsBlank
<1>8. RowStored(p, exec[cur].pk)
  <2>1. mem[p] \in Images
    BY Zenon, <1>1, <1>3 DEF Types
  <2>2. /\ y \in Images /\ y.rows = Append(mem[p].rows, exec[cur].pk)
        /\ y.next = mem[p].next /\ y.init = mem[p].init
    <3>1. Append(mem[p].rows, exec[cur].pk) \in Seq(Pks)
      <4>1. mem[p].rows \in Seq(Pks)
        BY <2>1 DEF Images
      <4>. QED  BY <4>1, <1>2
    <3>2. y = [mem[p] EXCEPT !.rows = Append(mem[p].rows, exec[cur].pk)]
      BY Zenon, <1>3
    <3>3. WithRows(mem[p], y, Append(mem[p].rows, exec[cur].pk))
      BY Zenon, <2>1, <3>1, <3>2, RowImage
    <3>. QED  BY Zenon, <3>3 DEF WithRows
  <2>3. y.init
    BY Zenon, <2>2, <1>7
  <2>. QED  BY ZenonT(20), <1>1, <1>2, <1>3, <1>7, <2>2, <2>3, RowEffect
<1>9. Hanging = {} /\ Hanging' = {}
  BY ZenonT(20), <1>1, <1>2, <1>5, <1>6, NothingHangs, HangingSame
<1>10. Types'
  <2>1. dirty' \subseteq Pages /\ free' \subseteq Pages /\ cur' \in Execs \union {0}
    BY Zenon, <1>1, <1>3 DEF Types
  <2>. QED  BY ZenonT(40), <1>1, <1>2, <1>3, <1>4, <1>5, <1>8, <2>1, TypesMoved
               DEF RowStored
<1>11. TableInv'
  <2>1. free' = free \ {p}
    BY Zenon, <1>1, <1>7
  <2>. QED  BY Zenon, <2>1, <1>1, <1>3, <1>8, TableStored
<1>12. OrderInv'
  BY Zenon, <1>1, <1>8, <1>9, OrderKept DEF RowStored
<1>13. Chain(mem') = Chain(mem) /\ Rows(mem) \subseteq Rows(mem')
  <2>1. Chain(mem') = Chain(mem)
    <3>1. \A r \in Pages : mem'[r].next = mem[r].next
      BY Zenon, <1>8 DEF RowStored
    <3>. QED  BY Zenon, <3>1, SameChain
  <2>. QED  BY Zenon, <2>1, <1>1, <1>8, RowsGrow DEF Types, RowStored
<1>14. ExecInv'
  <2>1. OnlyCurStores'
    BY Zenon, <1>1, <1>5 DEF ExecInv, OnlyCurStores, OnlyMoves
  <2>2. CursorInChain'
    BY Zenon, <1>1, <1>4, <1>5, <1>7, <1>13 DEF ExecInv, CursorInChain, OnlyMoves
  <2>3. \A f \in Execs : f # cur => ~ Stores(exec[f])
    BY Zenon, <1>2, OthersStoreNothing
  <2>4. LinkReady'
    BY Zenon, <1>5, <1>6, <2>3 DEF LinkReady, OnlyMoves, Stores
  <2>5. exec[cur].pk \in Rows(mem')
    <3>1. exec[cur].pk \in Range(mem'[p].rows) /\ p \in Chain(mem')
      BY Zenon, <1>3, <1>7, <1>8, <1>13, StoredRange
    <3>. QED  BY Zenon, <3>1, RowIn
  <2>6. StoredIsVisible'
    BY Zenon, <1>4, <1>5, <2>3, <2>5 DEF StoredIsVisible, OnlyMoves, Stores
  <2>. QED  BY Zenon, <2>1, <2>2, <2>4, <2>6 DEF ExecInv
<1>15. UniqueInv'
  BY Zenon, <1>1, <1>2, <1>3, <1>4, <1>5, <1>6, <1>8, <1>9, UniqueStored
<1>16. CkptInv' /\ LogTypes'
  BY Zenon, <1>1, <1>8, CkptGrows DEF RowStored, LogTypes
<1>. QED  BY Zenon, <1>10, <1>11, <1>12, <1>14, <1>15, <1>16 DEF HInv

\* A page is allocated and given the row.  It may be the end of the chain.
LEMMA GrowInsertStep ==
  ASSUME HInv, NEW q \in Pages, GrowInsert(q)
  PROVE  HInv'
<1>1. /\ Types /\ ExecInv /\ UniqueInv /\ CkptInv /\ LogTypes /\ TableInv /\ OrderInv
      /\ UNCHANGED <<disk, ckpc, todo, covered, durable>>
      /\ UNCHANGED <<log, flushed, ckpt, clash, acked, cur>>
  BY Zenon DEF HInv, GrowInsert, Goto, wal, checkpointer, boot
<1>2. /\ cur \in Execs /\ exec[cur].phase = "tail" /\ exec[cur] \in Records
      /\ exec[cur].pk \in Pks /\ exec[cur].cursor \in Pages
  <2>1. "tail" # "idle"
    OBVIOUS
  <2>. QED  BY Zenon, <1>1, <2>1, AtCur DEF GrowInsert, LastIsFull
<1>3. PICK x, y, c, k :
        /\ c \in Pages /\ k \in Pks
        /\ q \in free /\ (\A p \in free : q <= p) /\ free' = free \ {q}
        /\ c = exec[cur].cursor /\ mem[c].next = 0 /\ k = exec[cur].pk
        /\ y = [Empty EXCEPT !.rows = <<k>>]
        /\ mem' = [mem EXCEPT ![q] = y] /\ dirty' = dirty \union {q}
        /\ x = [exec[cur] EXCEPT !.phase = "link", !.target = q, !.new = TRUE]
        /\ exec' = [exec EXCEPT ![cur] = x]
  BY Zenon, <1>2 DEF GrowInsert, LastIsFull, Goto
<1>4. /\ x \in Records /\ x.pk = k /\ x.cursor = c /\ x.phase = "link" /\ x.target = q
  <2>1. "link" \in PhaseNames
    BY DEF PhaseNames
  <2>2. Changed(exec[cur], x, "link", exec[cur].cursor, q)
    BY Zenon, <2>1, <1>2, <1>3, SetPhaseNew
  <2>. QED  BY Zenon, <2>2, <1>3 DEF Changed
<1>5. OnlyMoves(cur) /\ exec'[cur] = x
  BY Zenon, <1>1, <1>2, <1>3, <1>4, MoveEffect
<1>6. /\ exec[cur].phase # "link" /\ exec[cur].phase # "idle"
      /\ x.phase # "dup" /\ x.phase # "tail" /\ x.phase # "idle"
      /\ x.phase # "walinit" /\ x.phase # "walinsert"
  BY <1>2, <1>4
<1>7. /\ c \in Chain(mem) /\ mem[q].rows = <<>> /\ mem[q].next = 0
      /\ mem[Root].init /\ Root \notin free
  BY Zenon, <1>1, <1>2, <1>3, <1>6, RootIsPage
     DEF ExecInv, CursorInChain, TableInv, FreeIsBlank
<1>8. y \in Images /\ y.rows = <<k>> /\ y.next = 0 /\ y.init /\ y.rows = Append(mem[q].rows, k)
  <2>1. /\ y \in Images /\ y.rows = <<k>> /\ y.next = 0 /\ y.init
        /\ y.rows = Append(<<>>, k)
    <3>1. Empty \in Images /\ Empty.next = 0 /\ Empty.init
      BY DEF Empty, Images
    <3>2. k \in Pks
      BY Zenon, <1>3
    <3>3. <<k>> \in Seq(Pks) /\ <<k>> = Append(<<>>, k)
      BY <3>2
    <3>4. y = [Empty EXCEPT !.rows = <<k>>]
      BY Zenon, <1>3
    <3>5. WithRows(Empty, y, <<k>>)
      BY Zenon, <3>1, <3>3, <3>4, RowImage
    <3>. QED  BY Zenon, <3>1, <3>3, <3>5 DEF WithRows
  <2>. QED  BY Zenon, <2>1, <1>7
<1>9. RowStored(q, k)
  <2>1. Len(mem[q].rows) < PageCap /\ DOMAIN mem[q].rows = {}
    BY <1>7, HeapInsertAssumption
  <2>. QED  BY ZenonT(40), <1>1, <1>3, <1>7, <1>8, <2>1, RowEffect
<1>10. Hanging = {} /\ Hanging' = {q}
  <2>1. Hanging = {}
    BY Zenon, <1>1, <1>2, <1>6, NothingHangs
  <2>2. \A f \in Execs : exec'[f].phase = "link" <=> f = cur
    BY Zenon, <1>1, <1>4, <1>5, <1>6 DEF ExecInv, OnlyCurStores, OnlyMoves
  <2>. QED  BY Zenon, <2>1, <2>2, <1>2, <1>4, <1>5 DEF Hanging
<1>11. Types'
  <2>1. dirty' \subseteq Pages /\ free' \subseteq Pages /\ cur' \in Execs \union {0}
    BY Zenon, <1>1, <1>3 DEF Types
  <2>2. mem' \in [Pages -> Images] /\ \A r \in Pages : Len(mem'[r].rows) <= PageCap
    BY Zenon, <1>9 DEF RowStored
  <2>3. exec'[cur].pk \in Pks /\ exec'[cur].cursor \in Pages
    BY Zenon, <1>3, <1>4, <1>5
  <2>. QED  BY ZenonT(40), <1>1, <1>2, <1>5, <2>1, <2>2, <2>3, TypesMoved
<1>12. TableInv'
  BY Zenon, <1>1, <1>3, <1>9, TableStored
<1>13. /\ \A s : Reach(mem', s) = Reach(mem, s)
       /\ Chain(mem') = Chain(mem) /\ \A z : Before(mem', z) = Before(mem, z)
       /\ \A s : Reach(mem, s) \subseteq Pages
       /\ Chain(mem) \subseteq Pages /\ \A z : Before(mem, z) \subseteq Pages
       /\ \A r \in Pages : mem'[r].next = mem[r].next
  <2>1. \A s : Reach(mem', s) = Reach(mem, s)
    <3>1. \A r \in Pages : mem'[r].next = mem[r].next
      BY Zenon, <1>9 DEF RowStored
    <3>. QED  BY Zenon, <3>1, SameLinks
  <2>2. \A s : Reach(mem, s) \subseteq Pages
    BY Zenon DEF Reach
  <2>3. Chain(mem') = Chain(mem) /\ Chain(mem) \subseteq Pages
    BY Zenon, <2>1, <2>2, ChainIsReach
  <2>. QED  BY Zenon, <2>1, <2>2, <2>3, <1>9 DEF Before, RowStored
<1>14. \A p \in free : p <= q => p = q
  <2>1. \A p \in free : q <= p /\ p \in Nat /\ q \in Nat
    BY Zenon, <1>1, <1>3, RootIsPage DEF Types
  <2>. QED  BY <2>1
<1>15. OrderInv'
  <2>1. Unsaved' = Unsaved
    BY Zenon, <1>1 DEF Unsaved
  <2>2. AllocInOrder'
    <3>1. \A s : Reach(mem', s) = Reach(mem, s)
      BY Zenon, <1>13
    <3>2. /\ \A s : Reach(mem, s) \subseteq Pages
          /\ \A r \in Pages : mem'[r].next = mem[r].next
      BY Zenon, <1>13
    <3>3. InOrder(mem, Unsaved)
      BY Zenon, <1>1 DEF OrderInv, AllocInOrder
    <3>4. InOrder(mem', Unsaved)
      BY Zenon, <3>1, <3>2, <3>3 DEF InOrder
    <3>. QED  BY Zenon, <3>4, <2>1 DEF AllocInOrder
  <2>3. UnsavedInChain'
    <3>1. ASSUME NEW x0 \in (Unsaved' \ free') \ Hanging', NEW p \in Before(mem', x0)
          PROVE  mem'[p].next # 0
      <4>1. x0 \in (Unsaved \ free) \ Hanging
        BY Zenon, <1>3, <1>10, <2>1
      <4>2. p \in Before(mem, x0) /\ mem'[p].next = mem[p].next
        BY Zenon, <1>13
      <4>. QED  BY Zenon, <4>1, <4>2, <1>1 DEF OrderInv, UnsavedInChain
    <3>. QED  BY Zenon, <3>1 DEF UnsavedInChain
  <2>4. BlankIsNext'
    <3>1. ASSUME NEW p \in Chain(mem'), mem'[p].next \in free', NEW z \in free'
          PROVE  mem'[p].next <= z
      <4>1. p \in Chain(mem) /\ mem'[p].next = mem[p].next
        BY Zenon, <1>13, <3>1
      <4>2. mem[p].next \in free /\ z \in free
        <5>1. free' \subseteq free
          BY Zenon, <1>3
        <5>2. mem[p].next \in free'
          BY Zenon, <3>1, <4>1
        <5>. QED  BY Zenon, <3>1, <5>1, <5>2
      <4>3. mem[p].next <= z
        BY Zenon, <1>1, <4>1, <4>2 DEF OrderInv, BlankIsNext
      <4>. QED  BY Zenon, <4>1, <4>3
    <3>. QED  BY Zenon, <3>1 DEF BlankIsNext
  <2>. QED  BY Zenon, <2>2, <2>3, <2>4 DEF OrderInv
<1>16. c \notin free'
  <2>. SUFFICES ASSUME c \in free, c # q PROVE FALSE
    BY Zenon, <1>3
  <2>1. c # Root /\ Linked(mem)
    BY Zenon, <1>1, <1>7, Images2
  <2>2. PICK r \in Chain(mem) : mem[r].next = c
    BY Zenon, <1>7, <2>1, LedTo
  <2>3. c <= q
    BY Zenon, <1>1, <1>3, <2>2 DEF OrderInv, BlankIsNext
  <2>. QED  BY Zenon, <2>3, <1>14
<1>17. ExecInv'
  <2>1. OnlyCurStores'
    BY Zenon, <1>1, <1>5 DEF ExecInv, OnlyCurStores, OnlyMoves
  <2>2. CursorInChain'
    BY Zenon, <1>1, <1>4, <1>5, <1>7, <1>13 DEF ExecInv, CursorInChain, OnlyMoves
  <2>3. \A f \in Execs : f # cur => ~ Stores(exec[f])
    BY Zenon, <1>2, OthersStoreNothing
  <2>4. /\ q \in Pages \ free' /\ mem'[q].rows = <<k>> /\ mem'[q].next = 0
        /\ mem'[c].next = 0 /\ \A z \in free' : q <= z
    <3>1. mem'[q] = y
      BY Zenon, <1>1, <1>3 DEF Types
    <3>. QED  BY Zenon, <3>1, <1>3, <1>8, <1>13
  <2>5. LinkReady'
    BY ZenonT(40), <1>4, <1>5, <1>16, <2>3, <2>4 DEF LinkReady, OnlyMoves, Stores
  <2>6. StoredIsVisible'
    BY Zenon, <1>5, <1>6, <2>3 DEF StoredIsVisible, OnlyMoves, Stores
  <2>. QED  BY Zenon, <2>1, <2>2, <2>5, <2>6 DEF ExecInv
<1>18. UniqueInv'
  <2>1. DOMAIN mem[q].rows = {}
    BY <1>7
  <2>. QED  BY ZenonT(40), <2>1, <1>1, <1>2, <1>3, <1>4, <1>5, <1>6, <1>9, <1>10,
               UniqueStored
<1>19. CkptInv' /\ LogTypes'
  BY ZenonT(20), <1>1, <1>9, CkptGrows DEF RowStored, LogTypes
<1>. QED  BY Zenon, <1>11, <1>12, <1>15, <1>17, <1>18, <1>19 DEF HInv

\* The end c of the chain is linked to q, and nothing else changes.
LinkStored(c, q) ==
  /\ mem' \in [Pages -> Images]
  /\ \A r \in Pages : mem'[r].rows = mem[r].rows /\ mem'[r].init = mem[r].init
  /\ \A r \in Pages \ {c} : mem'[r].next = mem[r].next
  /\ mem'[c].next = q
  /\ Below(mem, mem')

\* The table after a link was set.
LEMMA LinkEffect ==
  ASSUME Types, NEW c \in Pages, NEW q \in Pages, mem[c].next = 0,
         mem' = [mem EXCEPT ![c].next = q]
  PROVE  LinkStored(c, q)
<1>1. PICK y : y = [mem[c] EXCEPT !.next = q]
  BY Zenon
<1>2. mem[c] \in Images /\ mem' = [mem EXCEPT ![c] = y] /\ mem \in [Pages -> Images]
  BY Zenon, <1>1 DEF Types
<1>3. y \in Images /\ y.rows = mem[c].rows /\ y.init = mem[c].init /\ y.next = q
  BY <1>1, <1>2 DEF Images
<1>4. /\ mem' \in [Pages -> Images] /\ mem'[c] = y
      /\ \A r \in Pages \ {c} : mem'[r] = mem[r]
  BY ZenonT(40), <1>2, <1>3
<1>5. \A r \in Pages : mem'[r].rows = mem[r].rows /\ mem'[r].init = mem[r].init
  BY Zenon, <1>3, <1>4
<1>6. Below(mem, mem')
  <2>1. Below(mem, mem)
    BY Zenon, <1>2, BelowSelf
  <2>. QED  BY Zenon, <2>1, <1>4, <1>5 DEF Below
<1>. QED  BY Zenon, <1>3, <1>4, <1>5, <1>6 DEF LinkStored

\* The chain after it.
LEMMA LinkChain ==
  ASSUME Types, NEW c \in Chain(mem), NEW q \in Pages, LinkStored(c, q),
         mem[c].next = 0, mem[q].next = 0
  PROVE  /\ Chain(mem) \subseteq Chain(mem') /\ Chain(mem') \subseteq Chain(mem) \union {q}
         /\ q \in Chain(mem')
         /\ \A s : Reach(mem', s) \subseteq Reach(mem, s) \union {q}
<1>1. /\ Linked(mem) /\ c \in Pages /\ q # 0
      /\ mem \in [Pages -> Images] /\ mem' \in [Pages -> Images] /\ Below(mem, mem')
  BY Zenon, Images2, RootIsPage DEF Chain, Types, LinkStored
<1>2. Chain(mem) \subseteq Chain(mem')
  BY Zenon, <1>1, RowsGrow
<1>3. Linked(mem')
  <2>1. \A x \in Images : x.next \in Pages \union {0}
    BY DEF Images
  <2>. QED  BY Zenon, <1>1, <2>1 DEF Linked
<1>4. q \in Chain(mem')
  BY Zenon, <1>1, <1>2, <1>3, ReachClosed, ChainIsReach DEF LinkStored
<1>5. ASSUME NEW s PROVE Reach(mem', s) \subseteq Reach(mem, s) \union {q}
  <2>1. /\ \A r \in Pages : mem'[r].next # 0 => mem'[r].next = mem[r].next \/ mem'[r].next = q
        /\ mem'[q].next \in {0, q}
    BY Zenon DEF LinkStored
  <2>. QED  BY Zenon, <1>1, <2>1, ReachLinked
<1>. QED  BY Zenon, <1>2, <1>4, <1>5, ChainIsReach

\* The order of the unsaved pages after it.
LEMMA OrderGrown ==
  ASSUME Types, OrderInv, NEW c \in Chain(mem), NEW q \in Pages \ free, LinkStored(c, q),
         mem[c].next = 0, mem[q].next = 0, \A x \in free : q <= x,
         Hanging = {q}, Hanging' = {}, UNCHANGED <<disk, free>>
  PROVE  OrderInv'
<1>1. /\ Linked(mem) /\ c \in Pages /\ q \in Nat /\ q # 0 /\ 0 \notin free /\ free \subseteq Nat
  BY Zenon, Images2, RootIsPage DEF Chain, Types
<1>2. Unsaved' = Unsaved /\ Unsaved \subseteq Pages
  BY Zenon DEF Unsaved
<1>3. AllocInOrder'
  <2>1. ASSUME NEW x \in Unsaved, x < q PROVE \A p \in Before(mem, x) : mem[p].next # 0
    <3>1. x \notin free /\ x # q
      <4>1. x \in Nat /\ (x \in free => q <= x)
        BY Zenon, <1>2, RootIsPage
      <4>. QED  BY <4>1, <1>1, <2>1
    <3>. QED  BY Zenon, <3>1 DEF OrderInv, UnsavedInChain
  <2>2. InOrder(mem', Unsaved)
    <3>1. NewLink(mem, mem', c, q)
      BY Zenon DEF LinkStored, NewLink
    <3>2. InOrder(mem, Unsaved)
      BY Zenon DEF OrderInv, AllocInOrder
    <3>3. PassedBy(mem, Unsaved, q)
      BY Zenon, <2>1 DEF PassedBy
    <3>. QED  BY Zenon, <1>1, <1>2, <3>1, <3>2, <3>3, OrderLinked
  <2>. QED  BY Zenon, <2>2, <1>2 DEF AllocInOrder
<1>4. ASSUME NEW x \in Unsaved \ free, x # q, NEW p \in Before(mem', x) PROVE mem'[p].next # 0
  <2>1. \A r \in Before(mem, x) : mem[r].next # 0
    BY Zenon, <1>4 DEF OrderInv, UnsavedInChain
  <2>2. Reach(mem', {x}) \subseteq Reach(mem, {x})
    <3>1. \A r \in Reach(mem, {x}) \ {x} : r # c /\ r \in Pages
      BY Zenon, <2>1 DEF Before, Reach
    <3>2. \A r \in Reach(mem, {x}) \ {x} :
            mem'[r].next # 0 => r \notin {x} /\ mem'[r].next = mem[r].next
      BY Zenon, <3>1 DEF LinkStored
    <3>. QED  BY Zenon, <1>1, <3>2, ReachWithin
  <2>3. p \in Before(mem, x) /\ p \in Pages
    BY Zenon, <1>4, <2>2 DEF Before, Reach
  <2>. QED  BY Zenon, <2>1, <2>3, <1>1 DEF LinkStored
<1>5. ASSUME NEW p \in Before(mem', q), mem'[p].next = 0 PROVE FALSE
  <2>1. p \in Reach(mem, {q}) /\ p \in Pages
    BY Zenon, <1>5, LinkChain DEF Before, Reach
  <2>2. p \in Chain(mem)
    <3>1. Reach(mem, {q}) \subseteq Reach(mem, {})
      BY Zenon, <1>1, ReachStops
    <3>. QED  BY Zenon, <2>1, <3>1, ChainIsReach
  <2>3. p # c
    BY Zenon, <1>1, <1>5 DEF LinkStored
  <2>4. mem[p].next = 0
    BY Zenon, <1>5, <2>1, <2>3 DEF LinkStored
  <2>. QED  BY Zenon, <1>1, <2>2, <2>3, <2>4, OneEnd
<1>6. UnsavedInChain'
  BY Zenon, <1>2, <1>4, <1>5 DEF UnsavedInChain
<1>7. BlankIsNext'
  <2>1. ASSUME NEW p \in Chain(mem'), mem'[p].next \in free
        PROVE  p \in Chain(mem) /\ mem'[p].next = mem[p].next
    <3>1. p \in Pages /\ p \in Chain(mem) \union {q}
      BY Zenon, LinkChain DEF Chain
    <3>2. p # c
      BY Zenon, <2>1 DEF LinkStored
    <3>3. mem'[p].next = mem[p].next
      BY Zenon, <3>1, <3>2 DEF LinkStored
    <3>4. p # q
      BY ZenonT(40), <1>1, <2>1, <3>3
    <3>. QED  BY Zenon, <3>1, <3>3, <3>4
  <2>. QED  BY Zenon, <2>1 DEF OrderInv, BlankIsNext
<1>. QED  BY Zenon, <1>3, <1>6, <1>7 DEF OrderInv

\* The new page is linked to the end of the chain.
LEMMA GrowLinkStep ==
  ASSUME HInv, GrowLink
  PROVE  HInv'
<1>1. /\ Types /\ ExecInv /\ UniqueInv /\ CkptInv /\ LogTypes /\ TableInv /\ OrderInv
      /\ UNCHANGED <<free, disk, ckpc, todo, covered, durable>>
      /\ UNCHANGED <<log, flushed, ckpt, clash, acked, cur>>
  BY Zenon DEF HInv, GrowLink, Goto, wal, checkpointer, boot
<1>2. /\ cur \in Execs /\ exec[cur].phase = "link" /\ exec[cur] \in Records
      /\ exec[cur].pk \in Pks /\ exec[cur].cursor \in Pages
  <2>1. "link" # "idle"
    OBVIOUS
  <2>. QED  BY Zenon, <1>1, <2>1, AtCur DEF GrowLink
<1>3. PICK x, c, q, k :
        /\ c \in Pages /\ k \in Pks
        /\ c = exec[cur].cursor /\ q = exec[cur].target /\ k = exec[cur].pk
        /\ mem' = [mem EXCEPT ![c].next = q] /\ dirty' = dirty \union {c}
        /\ x = [exec[cur] EXCEPT !.phase = "walinit"]
        /\ exec' = [exec EXCEPT ![cur] = x]
  BY Zenon, <1>2 DEF GrowLink, Goto
<1>4. /\ x \in Records /\ x.pk = k /\ x.cursor = c /\ x.phase = "walinit"
  <2>1. "walinit" \in PhaseNames
    BY DEF PhaseNames
  <2>2. Changed(exec[cur], x, "walinit", exec[cur].cursor, exec[cur].target)
    BY Zenon, <2>1, <1>2, <1>3, SetPhase
  <2>. QED  BY Zenon, <2>2, <1>3 DEF Changed
<1>5. OnlyMoves(cur) /\ exec'[cur] = x
  BY ZenonT(40), <1>1, <1>2, <1>3, <1>4, MoveEffect
<1>6. /\ exec[cur].phase # "idle" /\ x.phase # "link"
      /\ x.phase # "dup" /\ x.phase # "tail" /\ x.phase # "idle"
  BY <1>2, <1>4
<1>7. /\ c \in Chain(mem) /\ q \in Pages \ free /\ mem[q].rows = <<k>> /\ mem[q].next = 0
      /\ c \notin free /\ mem[c].next = 0 /\ \A z \in free : q <= z
  BY Zenon, <1>1, <1>2, <1>3, <1>6 DEF ExecInv, CursorInChain, LinkReady
<1>8. LinkStored(c, q)
  BY Zenon, <1>1, <1>3, <1>7, LinkEffect
<1>9. Hanging = {q} /\ Hanging' = {}
  <2>1. \A f \in Execs : exec[f].phase = "link" <=> f = cur
    BY Zenon, <1>1, <1>2 DEF ExecInv, OnlyCurStores
  <2>2. \A f \in Execs : exec'[f].phase # "link"
    BY Zenon, <1>5, <1>6, <2>1 DEF OnlyMoves
  <2>. QED  BY Zenon, <2>1, <2>2, <1>2, <1>3 DEF Hanging
<1>10. Types'
  <2>1. dirty' \subseteq Pages /\ free' \subseteq Pages /\ cur' \in Execs \union {0}
    BY Zenon, <1>1, <1>3 DEF Types
  <2>2. \A r \in Pages : Len(mem'[r].rows) <= PageCap
    BY Zenon, <1>1, <1>8 DEF Types, LinkStored
  <2>. QED  BY ZenonT(40), <1>1, <1>2, <1>3, <1>4, <1>5, <1>8, <2>1, <2>2, TypesMoved
               DEF LinkStored
<1>11. TableInv'
  <2>1. FreeIsBlank'
    <3>1. ASSUME NEW r \in Pages
          PROVE  /\ r \in free' <=> ~ mem'[r].init
                 /\ ~ mem'[r].init => mem'[r].rows = <<>> /\ mem'[r].next = 0
                 /\ ~ disk'[r].init => disk'[r].rows = <<>> /\ disk'[r].next = 0
                 /\ disk'[r].init => mem'[r].init
      <4>1. mem'[r].init = mem[r].init /\ mem'[r].rows = mem[r].rows
        BY Zenon, <1>8 DEF LinkStored
      <4>2. /\ r \in free <=> ~ mem[r].init
            /\ ~ mem[r].init => mem[r].rows = <<>> /\ mem[r].next = 0
            /\ ~ disk[r].init => disk[r].rows = <<>> /\ disk[r].next = 0
            /\ disk[r].init => mem[r].init
        BY Zenon, <1>1 DEF TableInv, FreeIsBlank
      <4>3. r \in free => mem'[r].next = mem[r].next
        BY Zenon, <1>7, <1>8 DEF LinkStored
      <4>. QED  BY Zenon, <4>1, <4>2, <4>3, <1>1
    <3>2. mem'[Root].init
      <4>1. mem'[Root].init = mem[Root].init
        BY Zenon, <1>8, RootIsPage DEF LinkStored
      <4>. QED  BY Zenon, <4>1, <1>1 DEF TableInv, FreeIsBlank
    <3>. QED  BY Zenon, <3>1, <3>2 DEF FreeIsBlank
  <2>2. CleanIsSaved'
    BY Zenon, <1>1, <1>3, <1>8 DEF TableInv, CleanIsSaved, LinkStored
  <2>3. Below(disk, mem)'
    BY Zenon, <1>1, <1>8, BelowTrans DEF TableInv, Types, LinkStored
  <2>. QED  BY Zenon, <2>1, <2>2, <2>3 DEF TableInv
<1>12. OrderInv'
  BY Zenon, <1>1, <1>7, <1>8, <1>9, OrderGrown
<1>13. /\ Chain(mem) \subseteq Chain(mem') /\ Chain(mem') \subseteq Chain(mem) \union {q}
       /\ q \in Chain(mem') /\ Chain(mem) \subseteq Pages
       /\ \A s : Reach(mem', s) \subseteq Reach(mem, s) \union {q}
  <2>1. Chain(mem) \subseteq Pages
    BY Zenon DEF Chain
  <2>. QED  BY Zenon, <2>1, <1>1, <1>7, <1>8, LinkChain
<1>14. Range(mem[q].rows) = {k}
  <2>1. mem[q].rows = <<k>>
    BY Zenon, <1>7
  <2>. QED  BY <2>1 DEF Range
<1>15. ExecInv'
  <2>1. OnlyCurStores'
    BY Zenon, <1>1, <1>5 DEF ExecInv, OnlyCurStores, OnlyMoves
  <2>2. CursorInChain'
    BY Zenon, <1>1, <1>4, <1>5, <1>7, <1>13 DEF ExecInv, CursorInChain, OnlyMoves
  <2>3. \A f \in Execs : f # cur => ~ Stores(exec[f])
    BY Zenon, <1>2, OthersStoreNothing
  <2>4. LinkReady'
    BY Zenon, <1>5, <1>6, <2>3 DEF LinkReady, OnlyMoves, Stores
  <2>5. k \in Rows(mem')
    <3>1. mem'[q].rows = mem[q].rows
      BY Zenon, <1>7, <1>8 DEF LinkStored
    <3>2. k \in Range(mem'[q].rows)
      BY Zenon, <3>1, <1>14
    <3>. QED  BY Zenon, <3>2, <1>13, RowIn
  <2>6. StoredIsVisible'
    BY Zenon, <1>4, <1>5, <2>3, <2>5 DEF StoredIsVisible, OnlyMoves, Stores
  <2>. QED  BY Zenon, <2>1, <2>2, <2>4, <2>6 DEF ExecInv
<1>16. UniqueInv'
  <2>1. \A z \in Pages : \A r \in Before(mem', z) :
          \/ /\ r \in Before(mem, z)
             /\ Range(mem'[r].rows) \subseteq Range(mem[r].rows) \union {k}
          \/ Range(mem'[r].rows) \subseteq {k}
    <3>. SUFFICES ASSUME NEW z \in Pages, NEW r \in Before(mem', z)
                  PROVE  \/ /\ r \in Before(mem, z)
                            /\ Range(mem'[r].rows) \subseteq Range(mem[r].rows) \union {k}
                         \/ Range(mem'[r].rows) \subseteq {k}
      BY Zenon
    <3>1. r \in Before(mem, z) \/ r = q
      BY Zenon, <1>13 DEF Before
    <3>2. r \in Pages /\ mem'[r].rows = mem[r].rows
      BY Zenon, <1>8 DEF Before, Reach, LinkStored
    <3>. QED  BY Zenon, <3>1, <3>2, <1>14
  <2>2. Rows(mem') \subseteq Rows(mem) \union {k}
    <3>1. ASSUME NEW r \in Chain(mem')
          PROVE  Range(mem'[r].rows) \subseteq Rows(mem) \union {k}
      <4>1. (r \in Chain(mem) \/ r = q) /\ r \in Pages
        BY Zenon, <1>7, <1>13
      <4>2. mem'[r].rows = mem[r].rows
        BY Zenon, <4>1, <1>8 DEF LinkStored
      <4>. QED  BY Zenon, <4>1, <4>2, <1>14, RowIn
    <3>. QED  BY Zenon, <3>1, RowsWithin
  <2>3. ClashIsKnown' /\ ScanIsClear'
    BY ZenonT(40), <1>1, <1>2, <1>3, <1>4, <1>5, <1>6, <2>1, <2>2, ScansGrown
       DEF UniqueInv, Types
  <2>4. LiveUnique'
    <3>1. Chain(mem') \union Hanging' \subseteq Chain(mem) \union Hanging
      BY Zenon, <1>9, <1>13
    <3>2. \A r \in Chain(mem') \union Hanging' : mem'[r].rows = mem[r].rows
      BY Zenon, <1>7, <1>8, <1>9, <1>13 DEF LinkStored
    <3>3. Unique(mem, Hanging, clash)
      BY Zenon, <1>1 DEF UniqueInv, LiveUnique
    <3>4. ASSUME NEW r, NEW i, NEW v, IsRow(mem', Chain(mem') \union Hanging', r, i, v)
          PROVE  IsRow(mem, Chain(mem) \union Hanging, r, i, v)
      BY Zenon, <3>1, <3>2, <3>4 DEF IsRow
    <3>5. Unique(mem', Hanging', clash)
      BY Zenon, <3>3, <3>4, UniqueMapped
    <3>. QED  BY Zenon, <1>1, <3>5 DEF LiveUnique
  <2>. QED  BY Zenon, <2>3, <2>4 DEF UniqueInv
<1>17. CkptInv' /\ LogTypes'
  BY Zenon, <1>1, <1>8, CkptGrows DEF LinkStored, LogTypes
<1>. QED  BY Zenon, <1>10, <1>11, <1>12, <1>15, <1>16, <1>17 DEF HInv

\* The checkpointer writes a page that is dirty, or passes it by.
LEMMA CkptPageStep ==
  ASSUME HInv, NEW p \in Pages, CkptPage(p)
  PROVE  HInv'
<1>1. /\ Types /\ ExecInv /\ UniqueInv /\ CkptInv /\ LogTypes /\ TableInv /\ OrderInv
      /\ UNCHANGED <<free, mem, exec, cur, ckpc, covered, durable>>
      /\ UNCHANGED <<log, flushed, ckpt, clash, acked>>
      /\ p \in todo /\ todo' = todo \ {p} /\ dirty' = dirty \ {p}
      /\ p \in dirty => disk' = [disk EXCEPT ![p] = mem[p]]
      /\ p \notin dirty => disk' = disk
  BY Zenon DEF HInv, CkptPage, proc, wal, boot
<1>2. mem \in [Pages -> Images] /\ disk \in [Pages -> Images]
  BY Zenon, <1>1 DEF Types
<1>3. /\ disk' \in [Pages -> Images]
      /\ \A r \in Pages \ {p} : disk'[r] = disk[r]
      /\ disk'[p] = mem[p] \/ disk'[p] = disk[p]
      /\ disk'[p].rows = mem[p].rows /\ disk'[p].next = mem[p].next
  BY Zenon, <1>1, <1>2 DEF TableInv, CleanIsSaved
<1>4. Types'
  BY Zenon, <1>1, <1>3 DEF Types
<1>5. Below(mem, mem) /\ Below(disk, disk)
  BY Zenon, <1>2, BelowSelf
<1>6. Below(disk', mem)
  <2>1. ASSUME NEW r \in Pages
        PROVE  /\ Len(disk'[r].rows) <= Len(mem[r].rows)
               /\ \A i \in 1 .. Len(disk'[r].rows) : mem[r].rows[i] = disk'[r].rows[i]
               /\ disk'[r].next # 0 => mem[r].next = disk'[r].next
    <3>1. CASE r = p
      <4>1. disk'[r].rows = mem[r].rows /\ disk'[r].next = mem[r].next
        BY Zenon, <3>1, <1>3
      <4>2. Len(mem[r].rows) <= Len(mem[r].rows)
        BY Zenon, <1>5 DEF Below
      <4>. QED  BY Zenon, <4>1, <4>2
    <3>2. CASE r # p
      <4>1. disk'[r] = disk[r]
        BY Zenon, <3>2, <1>3
      <4>. QED  BY ZenonT(40), <4>1, <1>1 DEF TableInv, Below
    <3>. QED  BY Zenon, <3>1, <3>2
  <2>. QED  BY Zenon, <2>1 DEF Below
<1>7. TableInv'
  <2>1. FreeIsBlank'
    BY ZenonT(40), <1>1, <1>3 DEF TableInv, FreeIsBlank
  <2>2. CleanIsSaved'
    BY Zenon, <1>1, <1>3 DEF TableInv, CleanIsSaved
  <2>. QED  BY Zenon, <2>1, <2>2, <1>1, <1>6 DEF TableInv
<1>8. OrderInv'
  <2>1. Unsaved \subseteq Pages /\ (Unsaved' = Unsaved \/ Unsaved' = Unsaved \ {p})
    <3>1. \A r \in Pages \ {p} : disk'[r].init = disk[r].init
      BY Zenon, <1>3
    <3>2. CASE disk'[p].init
      <4>1. Unsaved' = Unsaved \ {p}
        BY Zenon, <3>1, <3>2 DEF Unsaved
      <4>. QED  BY Zenon, <4>1 DEF Unsaved
    <3>3. CASE ~ disk'[p].init
      <4>1. ~ disk[p].init
        BY Zenon, <3>3, <1>1, <1>3 DEF TableInv, FreeIsBlank
      <4>2. Unsaved' = Unsaved
        BY Zenon, <3>1, <3>3, <4>1 DEF Unsaved
      <4>. QED  BY Zenon, <4>2 DEF Unsaved
    <3>. QED  BY Zenon, <3>2, <3>3
  <2>2. InOrder(mem, Unsaved')
    <3>1. InOrder(mem, Unsaved) /\ Linked(mem)
      BY Zenon, <1>1, Images2 DEF OrderInv, AllocInOrder
    <3>2. InOrder(mem, Unsaved \ {p})
      BY Zenon, <3>1, <2>1, OrderSaved
    <3>. QED  BY Zenon, <3>1, <3>2, <2>1
  <2>3. AllocInOrder'
    BY Zenon, <1>1, <2>2 DEF AllocInOrder
  <2>4. Unsaved' \subseteq Unsaved /\ Hanging' = Hanging
    BY Zenon, <1>1, <2>1 DEF Hanging
  <2>5. UnsavedInChain'
    BY Zenon, <1>1, <2>4 DEF OrderInv, UnsavedInChain
  <2>6. BlankIsNext'
    BY Zenon, <1>1 DEF OrderInv, BlankIsNext
  <2>. QED  BY Zenon, <2>3, <2>5, <2>6 DEF OrderInv
<1>9. ExecInv'
  BY Zenon, <1>1 DEF ExecInv, OnlyCurStores, CursorInChain, LinkReady, StoredIsVisible
<1>10. UniqueInv'
  <2>1. Hanging' = Hanging
    BY Zenon, <1>1 DEF Hanging
  <2>2. ClashIsKnown'
    BY Zenon, <1>1 DEF UniqueInv, ClashIsKnown
  <2>3. ScanIsClear'
    BY Zenon, <1>1 DEF UniqueInv, ScanIsClear
  <2>4. LiveUnique'
    BY Zenon, <2>1, <1>1 DEF UniqueInv, LiveUnique
  <2>. QED  BY Zenon, <2>2, <2>3, <2>4 DEF UniqueInv
<1>11. CkptInv'
  <2>1. Rows(disk) \subseteq Rows(disk')
    <3>1. Below(disk, disk')
      BY ZenonT(40), <1>1, <1>3, <1>5 DEF TableInv, Below
    <3>. QED  BY Zenon, <1>2, <1>3, <3>1, RowsGrow
  <2>2. Rows(Merged) \subseteq Rows(Merged')
    <3>1. /\ Merged \in [Pages -> Images] /\ Merged' \in [Pages -> Images]
          /\ Merged[p] = mem[p] /\ Merged'[p] = disk'[p]
          /\ \A r \in Pages \ {p} : Merged'[r] = Merged[r]
      BY Zenon, <1>1, <1>2, <1>3 DEF Merged
    <3>2. Below(Merged, Merged)
      BY Zenon, <3>1, BelowSelf
    <3>3. Below(Merged, Merged')
      BY Zenon, <1>3, <3>1, <3>2 DEF Below
    <3>. QED  BY Zenon, <3>1, <3>3, RowsGrow
  <2>. QED  BY Zenon, <1>1, <2>1, <2>2 DEF CkptInv
<1>12. LogTypes'
  BY Zenon, <1>1 DEF LogTypes
<1>. QED  BY Zenon, <1>4, <1>7, <1>8, <1>9, <1>10, <1>11, <1>12 DEF HInv

\* The checkpointer's other steps.
LEMMA CkptStep ==
  ASSUME HInv, CkptLog \/ CkptSkip \/ CkptPass \/ CkptRecord \/ CkptFull
  PROVE  HInv'
<1>1. /\ Types /\ CkptInv /\ LogTypes
      /\ UNCHANGED <<free, mem, disk, dirty, exec, cur, clash, acked, log>>
  BY Zenon
     DEF HInv, CkptLog, CkptSkip, CkptPass, CkptRecord, CkptFull, table, proc, wal, boot
<1>2. ckpc' \in {"idle", "check", "pass"} /\ todo' \subseteq Pages
  BY Zenon, <1>1 DEF CkptLog, CkptSkip, CkptPass, CkptRecord, CkptFull, Types
<1>3. Types'
  BY Zenon, <1>1, <1>2 DEF Types
<1>4. TableInv'
  BY Zenon, <1>1 DEF HInv, TableInv, FreeIsBlank, CleanIsSaved
<1>5. OrderInv'
  BY Zenon, <1>1
     DEF HInv, OrderInv, AllocInOrder, UnsavedInChain, BlankIsNext, Unsaved, Hanging
<1>6. ExecInv'
  BY Zenon, <1>1
     DEF HInv, ExecInv, OnlyCurStores, CursorInChain, LinkReady, StoredIsVisible
<1>7. UniqueInv'
  <2>1. Hanging' = Hanging
    BY Zenon, <1>1 DEF Hanging
  <2>2. ClashIsKnown'
    BY Zenon, <1>1 DEF HInv, UniqueInv, ClashIsKnown
  <2>3. ScanIsClear'
    BY Zenon, <1>1 DEF HInv, UniqueInv, ScanIsClear
  <2>4. LiveUnique'
    BY Zenon, <2>1, <1>1 DEF HInv, UniqueInv, LiveUnique
  <2>. QED  BY Zenon, <2>2, <2>3, <2>4 DEF UniqueInv
<1>8. LogTypes'
  <2>1. PICK T : log \in Seq(T)
    BY Zenon, <1>1 DEF LogTypes
  <2>2. Len(log) \in Nat /\ flushed \in 0 .. Len(log) /\ ckpt \in 0 .. flushed
    BY <1>1, <2>1 DEF LogTypes
  <2>3. /\ flushed' = flushed \/ flushed' = Len(log)
        /\ ckpt' = ckpt \/ (ckpt' = Len(log) /\ flushed' = Len(log))
    BY Zenon DEF CkptLog, CkptSkip, CkptPass, CkptRecord, CkptFull, wal
  <2>4. flushed' \in 0 .. Len(log) /\ ckpt' \in 0 .. flushed'
    BY <2>2, <2>3
  <2>. QED  BY Zenon, <1>1, <2>1, <2>4 DEF LogTypes
<1>9. CkptInv'
  <2>1. CASE CkptLog
    <3>1. ckpc' # "pass" /\ covered' = acked /\ durable' = durable
      BY <2>1 DEF CkptLog
    <3>. QED  BY Zenon, <3>1, <1>1 DEF CkptInv
  <2>2. CASE CkptSkip \/ CkptFull
    <3>1. ckpc' # "pass" /\ covered' = {} /\ durable' = durable
      BY <2>2 DEF CkptSkip, CkptFull
    <3>. QED  BY Zenon, <3>1, <1>1 DEF CkptInv
  <2>3. CASE CkptPass
    <3>1. todo' = Pages /\ covered' = covered /\ durable' = durable
      BY Zenon, <2>3 DEF CkptPass
    <3>2. Merged' = mem
      <4>1. Merged' = [r \in Pages |-> mem[r]]
        BY Zenon, <1>1, <3>1 DEF Merged
      <4>. QED  BY Zenon, <4>1, <1>1 DEF Types
    <3>. QED  BY Zenon, <3>1, <3>2, <1>1 DEF CkptInv
  <2>4. CASE CkptRecord
    <3>1. ckpc' = "idle" /\ covered' = {} /\ durable' = covered /\ ckpc = "pass" /\ todo = {}
      BY Zenon, <2>4 DEF CkptRecord
    <3>2. Merged = disk
      <4>1. Merged = [r \in Pages |-> disk[r]]
        BY Zenon, <3>1 DEF Merged
      <4>. QED  BY Zenon, <4>1, <1>1 DEF Types
    <3>3. ckpc' # "pass"
      BY <3>1
    <3>. QED  BY Zenon, <3>1, <3>2, <3>3, <1>1 DEF CkptInv
  <2>. QED  BY Zenon, <2>1, <2>2, <2>3, <2>4
<1>. QED  BY Zenon, <1>3, <1>4, <1>5, <1>6, <1>7, <1>8, <1>9 DEF HInv

\* Memory becomes what the disk holds, and the unsaved pages are free again.
LEMMA CrashStep ==
  ASSUME HInv, Crash
  PROVE  HInv'
<1>1. /\ Types /\ UniqueInv /\ CkptInv /\ TableInv /\ OrderInv
      /\ UNCHANGED <<disk, durable, clash>> /\ mem' = disk /\ dirty' = {}
      /\ free' = {p \in Pages : ~ disk[p].init} /\ disk[Root].init
      /\ exec' = [e \in Execs |-> NoExec] /\ cur' = 0
      /\ log' = <<>> /\ flushed' = 0 /\ ckpt' = 0
      /\ ckpc' = "idle" /\ todo' = {} /\ covered' = {} /\ acked' = {}
  BY Zenon DEF HInv, Crash
<1>2. /\ \A e \in Execs : exec'[e].phase = "idle"
      /\ exec' \in [Execs -> Records]
  BY Zenon, <1>1, NoExecType
<1>3. /\ \A e \in Execs : exec'[e].phase # "dup" /\ exec'[e].phase # "tail"
                          /\ exec'[e].phase # "link" /\ exec'[e].phase # "walinit"
                          /\ exec'[e].phase # "walinsert"
      /\ ckpc' # "pass" /\ ckpc' \in {"idle", "check", "pass"}
  BY <1>1, <1>2
<1>4. Types'
  BY Zenon, <1>1, <1>2, <1>3 DEF Types
<1>5. mem \in [Pages -> Images] /\ disk \in [Pages -> Images] /\ Below(disk, mem)
  BY Zenon, <1>1 DEF Types, TableInv
<1>6. TableInv'
  <2>1. FreeIsBlank'
    BY Zenon, <1>1 DEF TableInv, FreeIsBlank
  <2>2. CleanIsSaved'
    BY Zenon, <1>1 DEF CleanIsSaved
  <2>3. Below(disk, mem)'
    BY Zenon, <1>1, <1>5, BelowSelf
  <2>. QED  BY Zenon, <2>1, <2>2, <2>3 DEF TableInv
<1>7. Hanging' = {}
  BY Zenon, <1>3 DEF Hanging
<1>8. OrderInv'
  <2>1. Unsaved' = Unsaved /\ free' = Unsaved /\ Unsaved \subseteq Pages
    BY Zenon, <1>1 DEF Unsaved
  <2>2. \A r \in Pages : disk[r].next # 0 => r \notin Unsaved /\ mem[r].next = disk[r].next
    BY Zenon, <1>1, <1>5 DEF TableInv, FreeIsBlank, Unsaved, Below
  <2>3. /\ \A p \in Chain(disk) : disk[p].next \in Unsaved =>
             \A x \in Unsaved : disk[p].next <= x
        /\ InOrder(disk, Unsaved)
    BY Zenon, <1>1, <2>1, <2>2, Images2, OrderCrashed DEF OrderInv, AllocInOrder
  <2>4. AllocInOrder'
    BY Zenon, <1>1, <2>1, <2>3 DEF AllocInOrder
  <2>5. UnsavedInChain'
    BY Zenon, <2>1 DEF UnsavedInChain
  <2>6. BlankIsNext'
    BY Zenon, <1>1, <2>1, <2>3 DEF BlankIsNext
  <2>. QED  BY Zenon, <2>4, <2>5, <2>6 DEF OrderInv
<1>9. ExecInv'
  BY Zenon, <1>2, <1>3 DEF ExecInv, OnlyCurStores, CursorInChain, LinkReady, StoredIsVisible
<1>10. CkptInv'
  BY Zenon, <1>1, <1>3 DEF CkptInv
<1>11. UniqueInv'
  <2>1. ClashIsKnown' /\ ScanIsClear'
    BY Zenon, <1>2, <1>3 DEF ClashIsKnown, ScanIsClear
  <2>2. ASSUME NEW p, NEW i, NEW v, IsRow(disk, Chain(disk) \union {}, p, i, v)
        PROVE  IsRow(mem, Chain(mem) \union Hanging, p, i, v)
    <3>1. p \in Chain(mem) /\ p \in Pages
      <4>1. Chain(disk) \subseteq Chain(mem) /\ Chain(mem) \subseteq Pages
        BY Zenon, <1>5, RowsGrow DEF Chain
      <4>. QED  BY Zenon, <2>2, <4>1 DEF IsRow
    <3>2. /\ Len(disk[p].rows) <= Len(mem[p].rows)
          /\ \A j \in 1 .. Len(disk[p].rows) : mem[p].rows[j] = disk[p].rows[j]
          /\ mem[p] \in Images /\ disk[p] \in Images
      BY Zenon, <1>5, <3>1 DEF Below
    <3>3. disk[p].rows \in Seq(Pks) /\ mem[p].rows \in Seq(Pks)
      BY <3>2 DEF Images
    <3>4. /\ DOMAIN disk[p].rows = 1 .. Len(disk[p].rows) /\ Len(disk[p].rows) \in Nat
          /\ DOMAIN mem[p].rows = 1 .. Len(mem[p].rows) /\ Len(mem[p].rows) \in Nat
      BY <3>3
    <3>5. i \in 1 .. Len(disk[p].rows) /\ disk[p].rows[i] = v
      BY Zenon, <2>2, <3>4 DEF IsRow
    <3>6. Len(disk[p].rows) <= Len(mem[p].rows)
      BY Zenon, <3>2
    <3>7. i \in 1 .. Len(mem[p].rows)
      BY <3>4, <3>5, <3>6
    <3>8. mem[p].rows[i] = v
      BY Zenon, <3>2, <3>5
    <3>. QED  BY Zenon, <3>1, <3>4, <3>7, <3>8 DEF IsRow
  <2>3. LiveUnique'
    <3>1. Unique(mem, Hanging, clash)
      BY Zenon, <1>1 DEF UniqueInv, LiveUnique
    <3>2. Unique(disk, {}, clash)
      BY Zenon, <2>2, <3>1, UniqueMapped
    <3>. QED  BY Zenon, <3>2, <1>1, <1>7 DEF LiveUnique
  <2>. QED  BY Zenon, <2>1, <2>3 DEF UniqueInv
<1>12. LogTypes'
  <2>1. log' \in Seq(Pages) /\ flushed' \in 0 .. Len(log') /\ ckpt' \in 0 .. flushed'
    BY <1>1
  <2>. QED  BY Zenon, <2>1 DEF LogTypes
<1>. QED  BY ZenonT(40), <1>4, <1>6, <1>8, <1>9, <1>10, <1>11, <1>12 DEF HInv

-----------------------------------------------------------------------------
(* The theorems. *)

\* The table is created with an empty root.
LEMMA InitHInv == Init => HInv
<1>. SUFFICES ASSUME Init PROVE HInv
  OBVIOUS
<1>1. /\ mem = [p \in Pages |-> IF p = Root THEN Empty ELSE Blank]
      /\ disk = [p \in Pages |-> Blank] /\ dirty = {} /\ free = Pages \ {Root}
      /\ exec = [e \in Execs |-> NoExec] /\ cur = 0
      /\ log = <<>> /\ flushed = 0 /\ ckpt = 0
      /\ ckpc = "idle" /\ todo = {} /\ covered = {} /\ acked = {} /\ durable = {}
  BY Zenon DEF Init
<1>2. /\ Empty \in Images /\ Blank \in Images
      /\ Empty.rows = <<>> /\ Empty.next = 0 /\ Empty.init
      /\ Blank.rows = <<>> /\ Blank.next = 0 /\ ~ Blank.init
  BY DEF Empty, Blank, Images
<1>3. /\ mem \in [Pages -> Images] /\ disk \in [Pages -> Images]
      /\ \A p \in Pages : /\ mem[p].rows = <<>> /\ mem[p].next = 0 /\ (mem[p].init <=> p = Root)
                          /\ disk[p].rows = <<>> /\ disk[p].next = 0 /\ ~ disk[p].init
  <2>1. ASSUME NEW p \in Pages
        PROVE  mem[p] = (IF p = Root THEN Empty ELSE Blank) /\ disk[p] = Blank
    BY Zenon, <1>1
  <2>2. ASSUME NEW p \in Pages PROVE (p = Root => mem[p] = Empty) /\ (p # Root => mem[p] = Blank)
    BY Zenon, <2>1
  <2>3. mem \in [Pages -> Images] /\ disk \in [Pages -> Images]
    BY Zenon, <1>1, <1>2
  <2>. QED  BY Zenon, <1>2, <2>1, <2>2, <2>3
<1>4. /\ \A e \in Execs : exec[e].phase = "idle"
      /\ exec \in [Execs -> Records]
  BY Zenon, <1>1, NoExecType
<1>5. /\ \A e \in Execs : exec[e].phase # "dup" /\ exec[e].phase # "tail"
                          /\ exec[e].phase # "link" /\ exec[e].phase # "walinit"
                          /\ exec[e].phase # "walinsert"
      /\ ckpc # "pass" /\ ckpc \in {"idle", "check", "pass"}
  BY <1>1, <1>4
<1>6. Types
  <2>1. Len(<<>>) <= PageCap
    BY HeapInsertAssumption
  <2>. QED  BY ZenonT(40), <1>1, <1>3, <1>4, <1>5, <2>1 DEF Types
<1>7. LogTypes
  <2>1. log \in Seq(Pages) /\ flushed \in 0 .. Len(log) /\ ckpt \in 0 .. flushed
    BY <1>1
  <2>. QED  BY Zenon, <2>1 DEF LogTypes
<1>8. TableInv
  <2>1. FreeIsBlank
    BY Zenon, <1>1, <1>3, RootIsPage DEF FreeIsBlank
  <2>2. CleanIsSaved
    BY Zenon, <1>3 DEF CleanIsSaved
  <2>3. Below(disk, disk)
    BY Zenon, <1>3, BelowSelf
  <2>4. Below(disk, mem)
    BY Zenon, <2>3, <1>3 DEF Below
  <2>. QED  BY Zenon, <2>1, <2>2, <2>4 DEF TableInv
<1>9. Chain(mem) = {Root} /\ Hanging = {}
  <2>1. Closed(mem, {}, {Root}) /\ {Root} \subseteq Pages
    BY Zenon, <1>3, RootIsPage DEF Closed
  <2>2. Reach(mem, {}) \subseteq {Root} /\ Root \in Reach(mem, {})
    BY Zenon, <1>6, <2>1, ReachLeast, ReachClosed, Images2
  <2>. QED  BY Zenon, <2>2, <1>5, ChainIsReach DEF Hanging
<1>10. OrderInv
  <2>1. \A m : 0 \notin From(Unsaved, m)
    BY Zenon, RootIsPage DEF From, Unsaved
  <2>2. AllocInOrder
    BY Zenon, <2>1, <1>3 DEF AllocInOrder, InOrder, Reach
  <2>3. UnsavedInChain
    <3>1. ASSUME NEW x \in (Unsaved \ free) \ Hanging PROVE Before(mem, x) = {}
      <4>1. x = Root
        BY Zenon, <3>1, <1>1 DEF Unsaved
      <4>2. Closed(mem, {x}, {Root}) /\ {Root} \subseteq Pages
        BY Zenon, <1>3, RootIsPage DEF Closed
      <4>3. Reach(mem, {x}) \subseteq {Root}
        BY Zenon, <4>2, ReachLeast
      <4>. QED  BY Zenon, <4>1, <4>3 DEF Before
    <3>. QED  BY Zenon, <3>1 DEF UnsavedInChain
  <2>4. BlankIsNext
    BY Zenon, <1>1, <1>3, <1>9, RootIsPage DEF BlankIsNext
  <2>. QED  BY Zenon, <2>2, <2>3, <2>4 DEF OrderInv
<1>11. ExecInv
  BY Zenon, <1>4, <1>5 DEF ExecInv, OnlyCurStores, CursorInChain, LinkReady, StoredIsVisible
<1>12. CkptInv
  BY Zenon, <1>1, <1>5 DEF CkptInv
<1>13. UniqueInv
  <2>1. DOMAIN <<>> = {}
    OBVIOUS
  <2>2. ClashIsKnown /\ ScanIsClear
    BY Zenon, <1>4, <1>5 DEF ClashIsKnown, ScanIsClear
  <2>3. LiveUnique
    BY Zenon, <2>1, <1>3, <1>9, RootIsPage DEF LiveUnique, Unique, IsRow
  <2>. QED  BY Zenon, <2>2, <2>3 DEF UniqueInv
<1>. QED  BY Zenon, <1>6, <1>7, <1>8, <1>10, <1>11, <1>12, <1>13 DEF HInv

\* Every step keeps the invariant.
LEMMA NextHInv == HInv /\ [Next]_vars => HInv'
<1>. SUFFICES ASSUME HInv, [Next]_vars PROVE HInv'
  OBVIOUS
<1>1. CASE Work
  BY ZenonT(40), <1>1, EndStep, DupPageStep, TailNextStep, WalInitStep, TailInsertStep,
     GrowInsertStep, GrowLinkStep DEF Work
<1>2. CASE Checkpoint
  BY Zenon, <1>2, CkptStep, CkptPageStep DEF Checkpoint
<1>3. CASE (\E e \in Execs : Pick(e)) \/ Expire \/ UNCHANGED vars
  BY Zenon, <1>3, SliceStep
<1>. QED  BY Zenon, <1>1, <1>2, <1>3, SubmitStep, CrashStep DEF Next

\* The invariant of the heap insert, through slices, growth and crashes.
THEOREM HeapInsertInvariant == Spec => []HInv
BY InitHInv, NextHInv, PTL DEF Spec

\* While the machine is up, every scan of the chain finds the row of every
\* insert that was acknowledged.
THEOREM AckedStaysVisible == Spec => []AckedIsVisible
<1>1. HInv => AckedIsVisible
  <2>. SUFFICES ASSUME HInv PROVE TypeOK /\ acked \subseteq Rows(mem)
    BY Zenon DEF AckedIsVisible
  <2>1. ASSUME NEW image \in Images
        PROVE  /\ image.init \in BOOLEAN /\ Range(image.rows) \subseteq Pks
               /\ image.next \in Pages \union {0}
    BY DEF Images, Range
  <2>2. ASSUME NEW x \in Records
        PROVE  /\ x.phase \in {"idle", "dup", "tail", "link", "walinit", "walinsert"}
               /\ x.cursor \in Pages \union {0}
    BY DEF Records, PhaseNames
  <2>3. \A p \in Pages : mem[p] \in Images /\ disk[p] \in Images
    BY Zenon, Images2 DEF HInv
  <2>4. \A e \in Execs : exec[e] \in Records
    BY Zenon DEF HInv, Types
  <2>5. \A p \in Pages : \A image \in {mem[p], disk[p]} :
          /\ image.init \in BOOLEAN /\ Len(image.rows) <= PageCap
          /\ Range(image.rows) \subseteq Pks /\ image.next \in Pages \union {0}
    BY Zenon, <2>1, <2>3 DEF HInv, Types
  <2>6. TypeOK
    BY ZenonT(40), <2>2, <2>4, <2>5 DEF HInv, Types, LogTypes, TypeOK
  <2>. QED  BY Zenon, <2>6 DEF HInv, CkptInv
<1>. QED  BY <1>1, HeapInsertInvariant, PTL

\* What was acknowledged before a completed checkpoint began is found, in
\* memory and after every later crash.
THEOREM CheckpointedStays == Spec => []CheckpointedSurvives
<1>1. HInv => CheckpointedSurvives
  <2>. SUFFICES ASSUME HInv PROVE CheckpointedSurvives
    OBVIOUS
  <2>1. Rows(disk) \subseteq Rows(mem)
    BY Zenon, RowsGrow DEF HInv, Types, TableInv
  <2>. QED  BY Zenon, <2>1 DEF HInv, CkptInv, CheckpointedSurvives
<1>. QED  BY <1>1, HeapInsertInvariant, PTL

\* A primary key is in one live row of the table, unless two executors were
\* inserting it at once.
THEOREM PkStaysUnique == Spec => []PkUnique
<1>1. HInv => PkUnique
  <2>. SUFFICES ASSUME HInv PROVE PkUnique
    OBVIOUS
  <2>1. ASSUME NEW p, NEW q, NEW i, NEW j, NEW v, v \notin clash,
               IsRow(mem, Chain(mem), p, i, v), IsRow(mem, Chain(mem), q, j, v)
        PROVE  p = q /\ i = j
    <3>1. /\ IsRow(mem, Chain(mem) \union Hanging, p, i, v)
          /\ IsRow(mem, Chain(mem) \union Hanging, q, j, v)
      BY Zenon, <2>1 DEF IsRow
    <3>. QED  BY Zenon, <2>1, <3>1 DEF HInv, UniqueInv, LiveUnique, Unique
  <2>2. ASSUME NEW p \in Chain(mem), NEW q \in Chain(mem),
               NEW i \in DOMAIN mem[p].rows, NEW j \in DOMAIN mem[q].rows,
               mem[p].rows[i] = mem[q].rows[j], mem[p].rows[i] \notin clash
        PROVE  p = q /\ i = j
    <3>1. PICK v : v = mem[p].rows[i]
      BY Zenon
    <3>2. IsRow(mem, Chain(mem), p, i, v) /\ IsRow(mem, Chain(mem), q, j, v) /\ v \notin clash
      BY Zenon, <2>2, <3>1 DEF IsRow
    <3>. QED  BY Zenon, <2>1, <3>2
  <2>. QED  BY ZenonT(40), <2>2 DEF PkUnique
<1>. QED  BY <1>1, HeapInsertInvariant, PTL
=============================================================================
