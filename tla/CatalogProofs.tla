--------------------------- MODULE CatalogProofs ---------------------------
(***************************************************************************)
(* The catalog, for every number of clients, names, rows to a page and     *)
(* columns, and any number of passes and restarts: CatInv is inductive.    *)
(* Every row has a creation it is from, and the rows of one creation come  *)
(* in the order its call inserts them, on disk as in memory; a page on     *)
(* disk is a beginning of the page in memory.                              *)
(***************************************************************************)
EXTENDS Catalog, FiniteSetTheorems, FunctionTheorems, WellFoundedInduction, TLAPS

ObjectRows == [oid : Int, name : Names]

TableRows == [oid : Int, root : Int]

ColumnRows == [rel : Int, pos : Nat, def : Nat]

AnyRow == ObjectRows \union TableRows \union ColumnRows

PageStates == [init : BOOLEAN, rows : Seq(AnyRow)]

Declarations == [name : Names, nr_cols : 1 .. MaxCols, oid : Nat \ {0}, after : SUBSET Nat]

Making(x) == x.pc \in Pages

Opening(x) == x.pc \in {"found", "row", "opened"}

Types ==
  /\ mem \in [Pages -> PageStates]
  /\ disk \in [Pages -> PageStates]
  /\ dirty \subseteq Pages /\ todo \subseteq Pages
  /\ counter \in Nat
  /\ decl \in Seq(Declarations)
  /\ kept \subseteq DOMAIN decl /\ covered \subseteq kept /\ durable \subseteq kept
  /\ \A id \in DOMAIN decl : decl[id].after \subseteq DOMAIN decl

RoomInv == \A p \in Pages : Len(mem[p].rows) <= PageRows[p]

\* long goes on where short ends.
Begins(short, long) ==
  /\ Len(short) <= Len(long)
  /\ \A i \in 1 .. Len(short) : short[i] = long[i]

\* Pages on disk are beginnings of those in memory, and all of them if clean.
DiskInv == \A p \in Pages :
  /\ Begins(disk[p].rows, mem[p].rows)
  /\ p \notin dirty => disk[p].rows = mem[p].rows

-----------------------------------------------------------------------------
(* The rows of a creation, d being the declarations. *)
ObjectOf(d, id) == ObjectRow(d[id].oid, d[id].name)

TableOf(d, id) == TableRow(d[id].oid, id)

ColumnOf(d, id, k) == ColumnRow(d[id].oid, k, id)

\* row is one of the first n rows.
Among(rows, n, row) == \E j \in 1 .. n : rows[j] = row

\* An object's row comes after those of the tables that were there before,
\* as far as they have been kept.
IsObject(rows, i, d, K) ==
  \/ \E k \in DOMAIN SysNames : rows[i] = ObjectRow(-k, SysNames[k])
  \/ \E id \in DOMAIN d :
       /\ rows[i] = ObjectOf(d, id)
       /\ \A e \in d[id].after \intersect K : Among(rows, i - 1, ObjectOf(d, e))

IsTable(rows, i, d) ==
  \/ \E k \in DOMAIN SysNames : rows[i] = TableRow(-k, -k)
  \/ \E id \in DOMAIN d : rows[i] = TableOf(d, id)

\* A column's row comes after the ones of the columns before it.
ColumnAt(rows, i, d, id, k) ==
  /\ rows[i] = ColumnOf(d, id, k)
  /\ \A m \in 1 .. k - 1 : Among(rows, i - 1, ColumnOf(d, id, m))
  /\ \A j \in 1 .. i - 1 : rows[j].def = id => rows[j].pos < k

IsColumn(rows, i, d) ==
  \E id \in DOMAIN d : \E k \in 1 .. d[id].nr_cols : ColumnAt(rows, i, d, id, k)

ObjectsOK(rows, d, K) == \A i \in 1 .. Len(rows) : IsObject(rows, i, d, K)

TablesOK(rows, d) == \A i \in 1 .. Len(rows) : IsTable(rows, i, d)

ColumnsOK(rows, d) == \A i \in 1 .. Len(rows) : IsColumn(rows, i, d)

RowsInv ==
  /\ ObjectsOK(mem["objects"].rows, decl, kept)
  /\ TablesOK(mem["tables"].rows, decl)
  /\ ColumnsOK(mem["columns"].rows, decl)

\* The rows of a creation are all on page p.
Has(rows, p, d, id) ==
  /\ p = "objects" => Among(rows, Len(rows), ObjectOf(d, id))
  /\ p = "tables" => Among(rows, Len(rows), TableOf(d, id))
  /\ p = "columns" => \A k \in 1 .. d[id].nr_cols : Among(rows, Len(rows), ColumnOf(d, id, k))

KeptInv ==
  /\ \A p \in Pages : \A id \in kept : Has(mem[p].rows, p, decl, id)
  /\ \A p \in Pages : \A id \in durable : Has(disk[p].rows, p, decl, id)
  /\ \A p \in Pages \ todo : \A id \in covered : Has(disk[p].rows, p, decl, id)

-----------------------------------------------------------------------------
(* x is what a client is doing.  A call that makes a table has an id no    *)
(* other call has, and inserts its columns in order.                       *)
NextColumn(x) == IF x.pc = "columns" THEN x.pos ELSE 1

MakesOwn(x, d, K) ==
  /\ x.id \in DOMAIN d
  /\ x.id \notin K
  /\ \A id \in DOMAIN d : x.id \notin d[id].after

HasColumns(x, rows, d) ==
  /\ NextColumn(x) \in 1 .. d[x.id].nr_cols
  /\ \A i \in 1 .. Len(rows) : rows[i].def = x.id => rows[i].pos < NextColumn(x)
  /\ \A k \in 1 .. NextColumn(x) - 1 : Among(rows, Len(rows), ColumnOf(d, x.id, k))

MakesTable(x, m, d, K) ==
  /\ MakesOwn(x, d, K)
  /\ HasColumns(x, m["columns"].rows, d)
  /\ x.pc # "objects" => Has(m["objects"].rows, "objects", d, x.id)
  /\ x.pc = "columns" => Has(m["tables"].rows, "tables", d, x.id)

MakersInv ==
  /\ \A c \in Clients : Making(call[c]) => MakesTable(call[c], mem, decl, kept)
  /\ \A c, o \in Clients :
       Making(call[c]) /\ Making(call[o]) /\ c # o => call[c].id # call[o].id

\* What a call that opens a table has read so far.
Own(d, id) == \A other \in DOMAIN d \ {id} : d[other].oid # d[id].oid

KnownOid(oid, d) == oid < 0 \/ \E id \in DOMAIN d : d[id].oid = oid

HasRead(x, d, K) ==
  /\ x.oid \in Int
  /\ KnownOid(x.oid, d)
  /\ x.pc # "opened" /\ x.whole => \E id \in K : d[id].oid = x.oid
  /\ x.pc # "found" /\ x.oid >= 0 => x.root \in DOMAIN d /\ d[x.root].oid = x.oid

HasOpened(x, d) ==
  \A id \in DOMAIN d : d[id].oid = x.oid /\ Own(d, id) =>
    /\ \E n \in 0 .. d[id].nr_cols : x.schema = Columns(id, n)
    /\ x.whole => x.schema = Columns(id, d[id].nr_cols)

OpensTable(x, d, K) ==
  /\ HasRead(x, d, K)
  /\ x.pc = "opened" => HasOpened(x, d)

OpeningInv == \A c \in Clients : Opening(call[c]) => OpensTable(call[c], decl, kept)

CallTypes ==
  /\ DOMAIN call = Clients
  /\ \A c \in Clients : call[c].pc \in Pages \union {"idle", "found", "row", "opened"}

Store == Types /\ RoomInv /\ DiskInv /\ RowsInv /\ KeptInv

Calls == CallTypes /\ MakersInv /\ OpeningInv

CatInv == Store /\ Calls

-----------------------------------------------------------------------------
(* Sequences of rows. *)

\* The names of the pages differ.
LEMMA PageNames ==
  /\ "objects" \in Pages /\ "tables" \in Pages /\ "columns" \in Pages
  /\ Idle.pc = "idle" /\ "idle" \notin Pages
  /\ \A s \in {"found", "row", "opened", "idle"} : s \notin Pages
  /\ \A p \in Pages : p = "objects" \/ p = "tables" \/ p = "columns"
BY DEF Pages, Idle

\* Appending keeps what is there.
LEMMA Appended ==
  ASSUME NEW S, NEW s \in Seq(S), NEW e \in S
  PROVE  /\ Append(s, e) \in Seq(S)
         /\ Len(s) \in Nat
         /\ Len(Append(s, e)) = Len(s) + 1
         /\ Begins(s, Append(s, e))
         /\ Append(s, e)[Len(s) + 1] = e
         /\ DOMAIN s = 1 .. Len(s)
         /\ DOMAIN Append(s, e) = 1 .. Len(s) + 1
BY DEF Begins

\* A sequence goes on with itself.
LEMMA BeginsSelf == ASSUME NEW s, Len(s) \in Nat PROVE Begins(s, s)
BY DEF Begins

\* Going on twice.
LEMMA BeginsTwice ==
  ASSUME NEW s, NEW t, NEW u, Begins(s, t), Begins(t, u),
         Len(s) \in Nat, Len(t) \in Nat, Len(u) \in Nat
  PROVE  Begins(s, u)
BY DEF Begins

\* s and t have the same first n members.
Agree(s, t, n) == \A j \in 1 .. n : s[j] = t[j]

\* A beginning agrees with what it is the beginning of.
LEMMA BeginsAgree ==
  ASSUME NEW s, NEW t, Begins(s, t), Len(s) \in Nat, NEW i \in 1 .. Len(s)
  PROVE  Agree(s, t, i) /\ Agree(t, s, i)
BY DEF Begins, Agree

\* A row among the first n is among the first n of whatever agrees.
LEMMA AmongAgree ==
  ASSUME NEW s, NEW t, NEW n \in Nat, Agree(s, t, n), NEW m \in Int, m <= n,
         NEW row, Among(s, m, row)
  PROVE  Among(t, m, row)
BY DEF Agree, Among

\* A row that is there stays there when more are appended.
LEMMA AmongGrows ==
  ASSUME NEW s, NEW t, Begins(s, t), Len(s) \in Nat, Len(t) \in Nat,
         NEW row, Among(s, Len(s), row)
  PROVE  Among(t, Len(t), row)
BY DEF Begins, Among

\* The last row is there.
LEMMA AmongLast ==
  ASSUME NEW t, Len(t) \in Nat \ {0}, NEW row, t[Len(t)] = row
  PROVE  Among(t, Len(t), row)
BY DEF Among

-----------------------------------------------------------------------------
(* What a row is does not change when rows and declarations are added. *)

\* The declarations e go on where d ends.
Declares(d, e) ==
  /\ d \in Seq(Declarations) /\ e \in Seq(Declarations)
  /\ Begins(d, e)
  /\ \A id \in DOMAIN d : d[id].after \subseteq DOMAIN d

\* Nothing may be added.
LEMMA DeclaresSelf ==
  ASSUME NEW d \in Seq(Declarations), \A id \in DOMAIN d : d[id].after \subseteq DOMAIN d
  PROVE  Declares(d, d)
BY DEF Declares, Begins

\* The creations of d are the same in e, and so are their rows.
SameIn(d, e) ==
  \A id \in DOMAIN d :
    /\ id \in DOMAIN e /\ e[id] = d[id]
    /\ ObjectOf(e, id) = ObjectOf(d, id)
    /\ TableOf(e, id) = TableOf(d, id)
    /\ \A k : ColumnOf(e, id, k) = ColumnOf(d, id, k)
    /\ \A o \in d[id].after : o \in DOMAIN d

\* A declaration is not changed.
LEMMA DeclaredStays ==
  ASSUME NEW d, NEW e, Declares(d, e)
  PROVE  SameIn(d, e)
<1>1. \A id \in DOMAIN d : id \in DOMAIN e /\ e[id] = d[id]
  BY DEF Declares, Begins
<1>2. \A id \in DOMAIN d : \A o \in d[id].after : o \in DOMAIN d
  BY Zenon DEF Declares
<1>. QED  BY Zenon, <1>1, <1>2 DEF ObjectOf, TableOf, ColumnOf, SameIn

\* An object's row stays one, if what is kept of the earlier creations is
\* kept already.
LEMMA ObjectStays ==
  ASSUME NEW s, NEW t, NEW i \in Nat \ {0}, Agree(s, t, i), NEW d, NEW e, Declares(d, e),
         NEW K, NEW L, \A id \in DOMAIN d : d[id].after \intersect L \subseteq K,
         IsObject(s, i, d, K)
  PROVE  IsObject(t, i, e, L)
<1>0. SameIn(d, e)
  BY Zenon, DeclaredStays
<1>1. s[i] = t[i]
  BY DEF Agree
<1>2. i - 1 \in Int /\ i - 1 <= i /\ i \in Nat
  OBVIOUS
<1>3. CASE \E k \in DOMAIN SysNames : s[i] = ObjectRow(-k, SysNames[k])
  BY Zenon, <1>1, <1>3 DEF IsObject
<1>4. CASE \E id \in DOMAIN d :
             /\ s[i] = ObjectOf(d, id)
             /\ \A o \in d[id].after \intersect K : Among(s, i - 1, ObjectOf(d, o))
  <2>1. PICK id \in DOMAIN d :
          /\ s[i] = ObjectOf(d, id)
          /\ \A o \in d[id].after \intersect K : Among(s, i - 1, ObjectOf(d, o))
    BY Zenon, <1>4
  <2>2. id \in DOMAIN e /\ e[id] = d[id] /\ t[i] = ObjectOf(e, id)
    BY Zenon, <1>0, <1>1, <2>1 DEF SameIn
  <2>3. ASSUME NEW o \in e[id].after \intersect L
        PROVE  Among(t, i - 1, ObjectOf(e, o))
    <3>1. o \in d[id].after \intersect K /\ o \in DOMAIN d
      BY Zenon, <1>0, <2>2, <2>3 DEF SameIn
    <3>2. Among(s, i - 1, ObjectOf(d, o)) /\ ObjectOf(e, o) = ObjectOf(d, o)
      BY Zenon, <1>0, <2>1, <3>1 DEF SameIn
    <3>. QED  BY Zenon, <1>2, <3>2, AmongAgree
  <2>. QED  BY Zenon, <2>2, <2>3 DEF IsObject
<1>. QED  BY Zenon, <1>3, <1>4 DEF IsObject

\* A table's row stays one.
LEMMA TableStays ==
  ASSUME NEW s, NEW t, NEW i \in Nat \ {0}, Agree(s, t, i), NEW d, NEW e, Declares(d, e),
         IsTable(s, i, d)
  PROVE  IsTable(t, i, e)
<1>1. s[i] = t[i]
  BY DEF Agree
<1>2. SameIn(d, e)
  BY Zenon, DeclaredStays
<1>. QED  BY Zenon, <1>1, <1>2 DEF IsTable, SameIn

\* A column's row stays one.
LEMMA ColumnStays ==
  ASSUME NEW s, NEW t, NEW i \in Nat \ {0}, Agree(s, t, i), NEW d, NEW e, Declares(d, e),
         IsColumn(s, i, d)
  PROVE  IsColumn(t, i, e)
<1>1. s[i] = t[i] /\ \A j \in 1 .. i - 1 : s[j] = t[j]
  BY DEF Agree
<1>2. i - 1 \in Int /\ i - 1 <= i /\ i \in Nat
  OBVIOUS
<1>0. PICK id \in DOMAIN d : \E k \in 1 .. d[id].nr_cols : ColumnAt(s, i, d, id, k)
  BY Zenon DEF IsColumn
<1>3. PICK k \in 1 .. d[id].nr_cols : ColumnAt(s, i, d, id, k)
  BY Zenon, <1>0
<1>4. id \in DOMAIN e /\ e[id] = d[id] /\ \A m : ColumnOf(e, id, m) = ColumnOf(d, id, m)
  <2>1. SameIn(d, e)
    BY Zenon, DeclaredStays
  <2>. QED  BY Zenon, <1>3, <2>1 DEF SameIn
<1>5. t[i] = ColumnOf(e, id, k)
  BY Zenon, <1>1, <1>3, <1>4 DEF ColumnAt
<1>6. \A m \in 1 .. k - 1 : Among(t, i - 1, ColumnOf(e, id, m))
  BY Zenon, <1>2, <1>3, <1>4, AmongAgree DEF ColumnAt
<1>7. \A j \in 1 .. i - 1 : t[j].def = id => t[j].pos < k
  BY Zenon, <1>1, <1>3 DEF ColumnAt
<1>. QED  BY ZenonT(20), <1>3, <1>4, <1>5, <1>6, <1>7 DEF ColumnAt, IsColumn

\* The pages of the catalog stay well formed when they get shorter.
LEMMA ShorterOK ==
  ASSUME NEW s, NEW t, Begins(t, s), Len(s) \in Nat, Len(t) \in Nat,
         NEW d, NEW e, Declares(d, e), NEW K, NEW L,
         \A id \in DOMAIN d : d[id].after \intersect L \subseteq K
  PROVE  /\ ObjectsOK(s, d, K) => ObjectsOK(t, e, L)
         /\ TablesOK(s, d) => TablesOK(t, e)
         /\ ColumnsOK(s, d) => ColumnsOK(t, e)
<1>1. \A i \in 1 .. Len(t) : i \in Nat \ {0} /\ i \in 1 .. Len(s) /\ Agree(s, t, i)
  BY DEF Begins, Agree
<1>2. ObjectsOK(s, d, K) => ObjectsOK(t, e, L)
  BY ZenonT(20), <1>1, ObjectStays DEF ObjectsOK
<1>3. TablesOK(s, d) => TablesOK(t, e)
  BY Zenon, <1>1, TableStays DEF TablesOK
<1>4. ColumnsOK(s, d) => ColumnsOK(t, e)
  BY Zenon, <1>1, ColumnStays DEF ColumnsOK
<1>. QED  BY ZenonT(20), <1>2, <1>3, <1>4

\* They stay so when more is declared.
LEMMA MoreDeclared ==
  ASSUME NEW t, Len(t) \in Nat, NEW d, NEW e, Declares(d, e)
  PROVE  /\ \A K : ObjectsOK(t, d, K) => ObjectsOK(t, e, K)
         /\ TablesOK(t, d) => TablesOK(t, e)
         /\ ColumnsOK(t, d) => ColumnsOK(t, e)
<1>1. Begins(t, t)
  BY Zenon, BeginsSelf
<1>2. ASSUME NEW K
      PROVE  /\ ObjectsOK(t, d, K) => ObjectsOK(t, e, K)
             /\ TablesOK(t, d) => TablesOK(t, e)
             /\ ColumnsOK(t, d) => ColumnsOK(t, e)
  <2>1. \A id \in DOMAIN d : d[id].after \intersect K \subseteq K
    BY Zenon
  <2>. QED  BY Zenon, <1>1, <2>1, ShorterOK
<1>. QED  BY Zenon, <1>2

\* They stay so when other creations are kept, if none came after a new one.
LEMMA KeepsOthers ==
  ASSUME NEW s, NEW t, Begins(t, s), Len(s) \in Nat, Len(t) \in Nat,
         NEW d, Declares(d, d), NEW K, NEW L,
         \A id \in DOMAIN d : d[id].after \intersect L \subseteq K,
         ObjectsOK(s, d, K)
  PROVE  ObjectsOK(t, d, L)
BY Zenon, ShorterOK

\* They stay so when more is kept, if no creation came after it.
LEMMA KeepsMore ==
  ASSUME NEW t, Len(t) \in Nat, NEW d, Declares(d, d), NEW K, NEW L,
         \A id \in DOMAIN d : d[id].after \intersect L \subseteq K,
         ObjectsOK(t, d, K)
  PROVE  ObjectsOK(t, d, L)
<1>1. Begins(t, t)
  BY Zenon, BeginsSelf
<1>. QED  BY Zenon, <1>1, KeepsOthers

\* They stay so when a row is appended, if that row is right.
LEMMA LongerOK ==
  ASSUME NEW s, NEW t, Begins(s, t), Len(s) \in Nat, Len(t) = Len(s) + 1,
         NEW d \in Seq(Declarations), \A id \in DOMAIN d : d[id].after \subseteq DOMAIN d, NEW K
  PROVE  /\ ObjectsOK(s, d, K) /\ IsObject(t, Len(t), d, K) => ObjectsOK(t, d, K)
         /\ TablesOK(s, d) /\ IsTable(t, Len(t), d) => TablesOK(t, d)
         /\ ColumnsOK(s, d) /\ IsColumn(t, Len(t), d) => ColumnsOK(t, d)
<1>1. \A i \in 1 .. Len(t) :
        i = Len(t) \/ (i \in Nat \ {0} /\ i \in 1 .. Len(s) /\ Agree(s, t, i))
  BY DEF Begins, Agree
<1>2. Declares(d, d) /\ \A id \in DOMAIN d : d[id].after \intersect K \subseteq K
  BY Zenon, DeclaresSelf
<1>3. ObjectsOK(s, d, K) /\ IsObject(t, Len(t), d, K) => ObjectsOK(t, d, K)
  BY Zenon, <1>1, <1>2, ObjectStays DEF ObjectsOK
<1>4. TablesOK(s, d) /\ IsTable(t, Len(t), d) => TablesOK(t, d)
  BY Zenon, <1>1, <1>2, TableStays DEF TablesOK
<1>5. ColumnsOK(s, d) /\ IsColumn(t, Len(t), d) => ColumnsOK(t, d)
  BY Zenon, <1>1, <1>2, ColumnStays DEF ColumnsOK
<1>. QED  BY Zenon, <1>3, <1>4, <1>5

\* The rows of a creation stay on a page that grows.
LEMMA HasGrows ==
  ASSUME NEW s, NEW t, Begins(s, t), Len(s) \in Nat, Len(t) \in Nat,
         NEW d, NEW e, Declares(d, e), NEW id \in DOMAIN d, NEW p, Has(s, p, d, id)
  PROVE  Has(t, p, e, id)
<1>1. /\ e[id] = d[id] /\ ObjectOf(e, id) = ObjectOf(d, id) /\ TableOf(e, id) = TableOf(d, id)
      /\ \A k : ColumnOf(e, id, k) = ColumnOf(d, id, k)
  <2>1. SameIn(d, e)
    BY Zenon, DeclaredStays
  <2>. QED  BY Zenon, <2>1 DEF SameIn
<1>. QED  BY Zenon, <1>1, AmongGrows DEF Has

-----------------------------------------------------------------------------
(* The columns of a table, in the order of their slots. *)

\* A nonempty set of numbers has a least one.
LEMMA Least ==
  ASSUME NEW T, T \subseteq Nat, T # {}
  PROVE  \E x \in T : \A y \in T : x <= y
<1>1. IsWellFoundedOn(OpToRel(<, Nat), Nat)
  BY Zenon, NatLessThanWellFounded
<1>2. PICK x \in T : \A y \in T : ~ (<<y, x>> \in OpToRel(<, Nat))
  BY Zenon, <1>1, WFMin
<1>3. \A y \in T : ~ (y < x)
  BY Zenon, <1>2 DEF OpToRel
<1>. QED  BY <1>3

\* A nonempty set of slots has a last one.
LEMMA LastSlot ==
  ASSUME NEW n \in Nat, NEW H, H \subseteq 1 .. n, H # {}
  PROVE  \E i \in H : \A j \in H : j <= i
<1> DEFINE T == {n - i : i \in H}
<1>1. T \subseteq Nat /\ T # {}
  <2>1. \A i \in H : n - i \in Nat
    OBVIOUS
  <2>. QED  BY Zenon, <2>1
<1>2. PICK x \in T : \A y \in T : x <= y
  BY Zenon, <1>1, Least
<1>3. PICK i \in H : x = n - i
  BY Zenon, <1>2
<1>4. \A j \in H : x <= n - j
  BY Zenon, <1>2
<1>. QED  BY <1>3, <1>4

\* Slots that have positions 1, 2, 3 and so on.
InOrder(H, P) ==
  /\ \A i \in H : \A m \in 1 .. P[i] - 1 : \E j \in H : j < i /\ P[j] = m
  /\ \A i, j \in H : j < i => P[j] < P[i]

\* The position of a slot is the number of slots up to it.
LEMMA Ranks ==
  ASSUME NEW n \in Nat, NEW H, H \subseteq 1 .. n, NEW P \in [H -> Nat \ {0}],
         InOrder(H, P)
  PROVE  \A i \in H : NrCols(H, i) = P[i]
<1> SUFFICES ASSUME NEW i \in H PROVE NrCols(H, i) = P[i]
  OBVIOUS
<1>8. /\ \A m \in 1 .. P[i] - 1 : \E j \in H : j < i /\ P[j] = m
      /\ \A k, j \in H : j < k => P[j] < P[k]
  BY Zenon DEF InOrder
<1> DEFINE D == {j \in H : j <= i}
           F == [j \in D |-> P[j]]
           T == 1 .. P[i]
<1>0. \A j \in D : /\ j \in H /\ j \in 1 .. n /\ j <= i /\ P[j] \in Nat \ {0}
                   /\ F[j] = P[j]
  BY Zenon
<1>1. F \in [D -> T]
  <2>1. \A j \in D : P[j] \in T
    <3> SUFFICES ASSUME NEW j \in D PROVE P[j] \in T
      BY Zenon
    <3>1. j \in H /\ j \in 1 .. n /\ i \in 1 .. n /\ j <= i
      BY Zenon, <1>0
    <3>2. j = i \/ j < i
      BY <3>1
    <3>3. P[j] = P[i] \/ P[j] < P[i]
      BY Zenon, <1>8, <3>1, <3>2
    <3>4. P[i] \in Nat \ {0} /\ P[j] \in Nat \ {0}
      BY Zenon, <3>1
    <3> HIDE DEF D, F
    <3>. QED  BY <3>3, <3>4
  <2>. QED  BY Zenon, <2>1
<1>2. \A a, b \in D : F[a] = F[b] => a = b
  <2> SUFFICES ASSUME NEW a \in D, NEW b \in D, P[a] = P[b] PROVE a = b
    BY Zenon, <1>0
  <2>1. /\ a \in H /\ b \in H /\ a \in 1 .. n /\ b \in 1 .. n
        /\ P[a] \in Nat /\ P[b] \in Nat
    BY Zenon, <1>0
  <2>2. (a < b => P[a] < P[b]) /\ (b < a => P[b] < P[a])
    BY Zenon, <1>8, <2>1
  <2> HIDE DEF D, F
  <2>. QED  BY <2>1, <2>2
<1>3. \A t \in T : \E a \in D : F[a] = t
  <2> SUFFICES ASSUME NEW t \in T PROVE \E a \in D : P[a] = t
    BY Zenon, <1>0
  <2>1. CASE t = P[i]
    BY <2>1
  <2>2. CASE t # P[i]
    <3>1. t \in 1 .. P[i] - 1
      BY <2>2
    <3>2. PICK j \in H : j < i /\ P[j] = t
      BY Zenon, <1>8, <3>1
    <3>. QED  BY <3>2
  <2>. QED  BY Zenon, <2>1, <2>2
<1> HIDE DEF D, F, T
<1>4. F \in Bijection(D, T)
  BY ZenonT(20), <1>1, <1>2, <1>3, Fun_IsBij
<1>5. ExistsBijection(T, D)
  <2>1. ExistsBijection(D, T)
    BY Zenon, <1>4 DEF ExistsBijection
  <2>. QED  BY ZenonT(20), <2>1, Fun_ExistsBijSymmetric
<1>6. IsFiniteSet(T) /\ Cardinality(T) = P[i]
  <2>1. P[i] \in Nat \ {0}
    OBVIOUS
  <2>2. 1 \in Int /\ P[i] \in Int
    BY <2>1
  <2>3. IsFiniteSet(T) /\ Cardinality(T) = IF 1 > P[i] THEN 0 ELSE P[i] - 1 + 1
    BY ZenonT(20), <2>2, FS_Interval DEF T
  <2>. QED  BY SMTT(20), Z3T(20), <2>1, <2>3
<1>7. Cardinality(D) = P[i]
  BY ZenonT(20), <1>5, <1>6, FS_Bijection
<1>. QED  BY Zenon, <1>7 DEF NrCols, D

\* What an insert into the catalog needs to know of the types.
LEMMA RowTypes ==
  ASSUME Types, NEW p \in Pages
  PROVE  /\ mem[p].rows \in Seq(AnyRow) /\ Len(mem[p].rows) \in Nat
         /\ DOMAIN mem[p].rows = 1 .. Len(mem[p].rows)
         /\ disk[p].rows \in Seq(AnyRow) /\ Len(disk[p].rows) \in Nat
<1>1. mem[p] \in PageStates /\ disk[p] \in PageStates
  BY Zenon DEF Types
<1>. QED  BY SMTT(20), Z3T(20), <1>1 DEF PageStates

\* The type of a declaration.
LEMMA DeclTypes ==
  ASSUME Types, NEW id \in DOMAIN decl
  PROVE  /\ decl[id] \in Declarations /\ decl[id].nr_cols \in 1 .. MaxCols
         /\ decl[id].nr_cols \in Nat \ {0} /\ decl[id].nr_cols <= MaxCols
         /\ decl[id].oid \in Nat \ {0} /\ decl[id].name \in Names
         /\ decl[id].after \subseteq DOMAIN decl
         /\ id \in Nat \ {0} /\ MaxCols \in Nat
<1>1. MaxCols \in Nat
  BY CatalogAssumption
<1>2. decl[id] \in Declarations /\ id \in Nat \ {0}
  BY SMTT(20), Z3T(20) DEF Types
<1>. QED  BY SMTT(20), Z3T(20), <1>1, <1>2 DEF Declarations, Types

\* The slots of a creation with an oid of its own: each has a column of it,
\* and those before have the columns before.
LEMMA OwnSlots ==
  ASSUME Types, RowsInv, NEW id \in DOMAIN decl, Own(decl, id)
  PROVE  LET rows == mem["columns"].rows
             H    == ColumnSlots(decl[id].oid)
         IN  /\ H \subseteq 1 .. Len(rows)
             /\ \A i \in H : /\ rows[i] = ColumnOf(decl, id, rows[i].pos)
                             /\ rows[i].pos \in 1 .. decl[id].nr_cols
                             /\ ColumnAt(rows, i, decl, id, rows[i].pos)
             /\ \A j \in 1 .. Len(rows), k \in Nat : rows[j] = ColumnOf(decl, id, k) =>
                  j \in H /\ rows[j].pos = k /\ rows[j].def = id
<1> DEFINE rows == mem["columns"].rows
           H    == ColumnSlots(decl[id].oid)
<1>1. DOMAIN rows = 1 .. Len(rows)
  BY Zenon, RowTypes, PageNames
<1>2. \A i : i \in H <=> i \in 1 .. Len(rows) /\ rows[i].rel = decl[id].oid
  BY Zenon, <1>1 DEF ColumnSlots
<1>6. \A i \in 1 .. Len(rows) : IsColumn(rows, i, decl)
  BY Zenon DEF RowsInv, ColumnsOK
<1> HIDE DEF rows, H
<1>3. \A o, k : /\ ColumnOf(decl, o, k).rel = decl[o].oid
                /\ ColumnOf(decl, o, k).pos = k /\ ColumnOf(decl, o, k).def = o
  BY Zenon DEF ColumnOf, ColumnRow
<1>4. ASSUME NEW i \in H
      PROVE  /\ rows[i] = ColumnOf(decl, id, rows[i].pos)
             /\ rows[i].pos \in 1 .. decl[id].nr_cols
             /\ ColumnAt(rows, i, decl, id, rows[i].pos)
  <2>1. IsColumn(rows, i, decl)
    BY Zenon, <1>2, <1>6
  <2>2. PICK o \in DOMAIN decl : \E k \in 1 .. decl[o].nr_cols : ColumnAt(rows, i, decl, o, k)
    BY Zenon, <2>1 DEF IsColumn
  <2>3. PICK k \in 1 .. decl[o].nr_cols : ColumnAt(rows, i, decl, o, k)
    BY Zenon, <2>2
  <2>4. rows[i] = ColumnOf(decl, o, k)
    BY Zenon, <2>3 DEF ColumnAt
  <2>5. decl[o].oid = decl[id].oid /\ rows[i].pos = k
    <3>1. rows[i].rel = decl[id].oid
      BY Zenon, <1>2
    <3>2. ColumnOf(decl, o, k).rel = decl[o].oid /\ ColumnOf(decl, o, k).pos = k
      BY Zenon, <1>3
    <3>. QED  BY ZenonT(20), <2>4, <3>1, <3>2
  <2>6. o = id
    BY Zenon, <2>5 DEF Own
  <2>. QED  BY ZenonT(20), <2>3, <2>4, <2>5, <2>6
<1>5. \A j \in 1 .. Len(rows), k \in Nat : rows[j] = ColumnOf(decl, id, k) =>
        j \in H /\ rows[j].pos = k /\ rows[j].def = id
  <2> SUFFICES ASSUME NEW j \in 1 .. Len(rows), NEW k \in Nat, rows[j] = ColumnOf(decl, id, k)
               PROVE  j \in H /\ rows[j].pos = k /\ rows[j].def = id
    BY Zenon
  <2>1. /\ ColumnOf(decl, id, k).rel = decl[id].oid /\ ColumnOf(decl, id, k).pos = k
        /\ ColumnOf(decl, id, k).def = id
    BY Zenon, <1>3
  <2>2. rows[j].rel = decl[id].oid
    BY Zenon, <2>1
  <2>. QED  BY Zenon, <1>2, <2>1, <2>2
<1>. QED  BY ZenonT(20), <1>2, <1>4, <1>5 DEF rows, H

\* The position of a column is the number of columns read up to it.
LEMMA OwnRanks ==
  ASSUME Types, RowsInv, NEW id \in DOMAIN decl, Own(decl, id)
  PROVE  \A i \in ColumnSlots(decl[id].oid) :
           NrCols(ColumnSlots(decl[id].oid), i) = mem["columns"].rows[i].pos
<1> DEFINE rows == mem["columns"].rows
           H    == ColumnSlots(decl[id].oid)
           P    == [i \in H |-> rows[i].pos]
<1>1. Len(rows) \in Nat /\ decl[id].nr_cols \in Nat
  BY Zenon, RowTypes, PageNames, DeclTypes
<1>2. /\ H \subseteq 1 .. Len(rows)
      /\ \A i \in H : /\ rows[i] = ColumnOf(decl, id, rows[i].pos)
                      /\ rows[i].pos \in 1 .. decl[id].nr_cols
                      /\ ColumnAt(rows, i, decl, id, rows[i].pos)
      /\ \A j \in 1 .. Len(rows), k \in Nat : rows[j] = ColumnOf(decl, id, k) =>
           j \in H /\ rows[j].pos = k /\ rows[j].def = id
  BY Zenon, OwnSlots
<1> HIDE DEF rows, H
<1>3. P \in [H -> Nat \ {0}]
  <2>1. \A i \in H : rows[i].pos \in Nat \ {0}
    BY SMTT(20), Z3T(20), <1>1, <1>2
  <2>. QED  BY Zenon, <2>1
<1>4. ASSUME NEW i \in H, NEW m \in 1 .. P[i] - 1
      PROVE  \E j \in H : j < i /\ P[j] = m
  <2>1. m \in 1 .. rows[i].pos - 1
    BY Zenon, <1>4
  <2>2. Among(rows, i - 1, ColumnOf(decl, id, m))
    BY Zenon, <1>2, <2>1 DEF ColumnAt
  <2>3. PICK j \in 1 .. i - 1 : rows[j] = ColumnOf(decl, id, m)
    BY Zenon, <2>2 DEF Among
  <2>4. rows[i].pos \in Int /\ i \in 1 .. Len(rows)
    BY SMTT(20), Z3T(20), <1>2, <1>1
  <2>5. j \in 1 .. Len(rows) /\ j < i /\ m \in Nat
    BY SMTT(20), Z3T(20), <1>1, <2>1, <2>4
  <2>6. j \in H /\ rows[j].pos = m
    BY ZenonT(20), <1>2, <2>3, <2>5
  <2>. QED  BY Zenon, <2>5, <2>6
<1>5. ASSUME NEW i \in H, NEW j \in H, j < i
      PROVE  P[j] < P[i]
  <2>1. i \in 1 .. Len(rows) /\ j \in 1 .. Len(rows)
    BY Zenon, <1>2
  <2>2. j \in 1 .. i - 1
    BY SMTT(20), Z3T(20), <1>1, <1>5, <2>1
  <2>3. rows[j].def = id
    <3>1. rows[j].pos \in Nat
      BY SMTT(20), Z3T(20), <1>1, <1>2
    <3>. QED  BY ZenonT(20), <1>2, <2>1, <3>1
  <2>4. rows[j].pos < rows[i].pos
    BY Zenon, <1>2, <2>2, <2>3 DEF ColumnAt
  <2>. QED  BY Zenon, <2>4
<1> HIDE DEF P
<1>6. \A i \in H : NrCols(H, i) = P[i]
  <2>1. InOrder(H, P)
    BY Zenon, <1>4, <1>5 DEF InOrder
  <2>3. Len(rows) \in Nat /\ H \subseteq 1 .. Len(rows)
    BY Zenon, <1>1, <1>2
  <2>. QED  BY ZenonT(20), <1>3, <2>1, <2>3, Ranks
<1>7. \A i \in H : P[i] = rows[i].pos
  BY Zenon DEF P
<1>. QED  BY Zenon, <1>6, <1>7 DEF rows, H

\* The schema read for a table with an oid of its own is made of its columns in
\* order from the first, and has all of them if all of them are there.
LEMMA SchemaIsOwn ==
  ASSUME Types, RowsInv, NEW id \in DOMAIN decl, Own(decl, id)
  PROVE  \E n \in 0 .. decl[id].nr_cols :
           /\ BuildSchemaFromColumns(decl[id].oid) = Columns(id, n)
           /\ Has(mem["columns"].rows, "columns", decl, id) => n = decl[id].nr_cols
<1> DEFINE rows == mem["columns"].rows
           H    == ColumnSlots(decl[id].oid)
           nr   == decl[id].nr_cols
<1>1. Len(rows) \in Nat /\ nr \in Nat \ {0} /\ nr <= MaxCols /\ MaxCols \in Nat
  BY Zenon, RowTypes, PageNames, DeclTypes
<1>2. /\ H \subseteq 1 .. Len(rows)
      /\ \A i \in H : /\ rows[i] = ColumnOf(decl, id, rows[i].pos)
                      /\ rows[i].pos \in 1 .. nr
                      /\ ColumnAt(rows, i, decl, id, rows[i].pos)
      /\ \A j \in 1 .. Len(rows), k \in Nat : rows[j] = ColumnOf(decl, id, k) =>
           j \in H /\ rows[j].pos = k /\ rows[j].def = id
  BY Zenon, OwnSlots
<1>3. \A i \in H : NrCols(H, i) = rows[i].pos
  BY Zenon, OwnRanks
<1>7. BuildSchemaFromColumns(decl[id].oid)
        = [k \in 1 .. (IF Cardinality(H) < MaxCols THEN Cardinality(H) ELSE MaxCols) |->
             [pos |-> rows[SlotOfColumn(H, k)].pos, def |-> rows[SlotOfColumn(H, k)].def]]
  BY Zenon DEF BuildSchemaFromColumns
<1> SUFFICES \E n \in 0 .. nr :
               /\ BuildSchemaFromColumns(decl[id].oid) = Columns(id, n)
               /\ Has(rows, "columns", decl, id) => n = nr
  BY Zenon
<1> HIDE DEF rows, H, nr
<1>4. Has(rows, "columns", decl, id) => \E j \in H : rows[j].pos = nr
  <2> SUFFICES ASSUME Has(rows, "columns", decl, id) PROVE \E j \in H : rows[j].pos = nr
    BY Zenon
  <2>1. nr \in 1 .. nr /\ nr \in Nat
    BY <1>1
  <2>2. Among(rows, Len(rows), ColumnOf(decl, id, nr))
    BY Zenon, <2>1 DEF Has, nr
  <2>3. PICK j \in 1 .. Len(rows) : rows[j] = ColumnOf(decl, id, nr)
    BY Zenon, <2>2 DEF Among
  <2>. QED  BY Zenon, <1>2, <2>1, <2>3
<1>5. CASE H = {}
  <2>1. Cardinality(H) = 0
    BY Zenon, <1>5, FS_EmptySet
  <2>2. \A k \in 1 .. 0 : FALSE
    OBVIOUS
  <2>3. 0 < MaxCols
    BY SMTT(20), Z3T(20), <1>1
  <2>7. (IF Cardinality(H) < MaxCols THEN Cardinality(H) ELSE MaxCols) = 0
    BY Zenon, <2>1, <2>3
  <2>4. BuildSchemaFromColumns(decl[id].oid) = Columns(id, 0)
    BY Zenon, <1>7, <2>2, <2>7 DEF Columns
  <2>5. ~ Has(rows, "columns", decl, id)
    BY Zenon, <1>4, <1>5
  <2>6. 0 \in 0 .. nr
    BY <1>1
  <2>. QED  BY Zenon, <2>4, <2>5, <2>6
<1>6. CASE H # {}
  <2>1. PICK i \in H : \A j \in H : j <= i
    BY ZenonT(20), <1>1, <1>2, <1>6, LastSlot
  <2> DEFINE n == rows[i].pos
  <2>2. n \in Nat \ {0} /\ n <= nr /\ n \in 0 .. nr /\ n \in 1 .. nr
    BY <1>1, <1>2
  <2>3. Cardinality(H) = n
    <3>1. H = {j \in H : j <= i}
      BY Zenon, <2>1
    <3>. QED  BY Zenon, <1>3, <3>1 DEF NrCols
  <2>4. (IF Cardinality(H) < MaxCols THEN Cardinality(H) ELSE MaxCols) = n
    BY SMTT(20), Z3T(20), <1>1, <2>2, <2>3
  <2>5. ASSUME NEW k \in 1 .. n
        PROVE  SlotOfColumn(H, k) \in H /\ rows[SlotOfColumn(H, k)] = ColumnOf(decl, id, k)
    <3>1. \E j \in H : rows[j].pos = k
      <4>1. CASE k = n
        BY Zenon, <4>1
      <4>2. CASE k # n
        <5>1. k \in 1 .. n - 1 /\ k \in Nat /\ i \in 1 .. Len(rows)
          BY SMTT(20), Z3T(20), <1>1, <1>2, <2>2, <4>2
        <5>2. PICK j \in 1 .. i - 1 : rows[j] = ColumnOf(decl, id, k)
          BY Zenon, <1>2, <5>1 DEF ColumnAt, Among
        <5>3. j \in 1 .. Len(rows)
          BY <1>1, <5>1
        <5>. QED  BY ZenonT(20), <1>2, <5>1, <5>2, <5>3
      <4>. QED  BY Zenon, <4>1, <4>2
    <3>2. \E j \in H : NrCols(H, j) = k
      BY Zenon, <1>3, <3>1
    <3>3. SlotOfColumn(H, k) \in H /\ NrCols(H, SlotOfColumn(H, k)) = k
      BY Zenon, <3>2 DEF SlotOfColumn
    <3>. QED  BY ZenonT(40), <1>2, <1>3, <3>3
  <2>6. \A k : ColumnOf(decl, id, k).pos = k /\ ColumnOf(decl, id, k).def = id
    BY Zenon DEF ColumnOf, ColumnRow
  <2>7. \A k \in 1 .. n : /\ rows[SlotOfColumn(H, k)].pos = k
                          /\ rows[SlotOfColumn(H, k)].def = id
    BY ZenonT(20), <2>5, <2>6
  <2>8. BuildSchemaFromColumns(decl[id].oid) = Columns(id, n)
    <3> HIDE DEF n
    <3>1. BuildSchemaFromColumns(decl[id].oid)
            = [k \in 1 .. n |-> [pos |-> rows[SlotOfColumn(H, k)].pos,
                                 def |-> rows[SlotOfColumn(H, k)].def]]
      BY Zenon, <1>7, <2>4
    <3>2. \A k \in 1 .. n : [pos |-> rows[SlotOfColumn(H, k)].pos,
                             def |-> rows[SlotOfColumn(H, k)].def] = [pos |-> k, def |-> id]
      BY Zenon, <2>7
    <3>3. Columns(id, n) = [k \in 1 .. n |-> [pos |-> k, def |-> id]]
      BY Zenon DEF Columns
    <3>. QED  BY ZenonT(20), <3>1, <3>2, <3>3
  <2>9. ASSUME Has(rows, "columns", decl, id)
        PROVE  n = nr
    <3>1. PICK j \in H : rows[j].pos = nr
      BY Zenon, <1>4, <2>9
    <3>2. j = i \/ j < i
      <4>1. j \in 1 .. Len(rows) /\ i \in 1 .. Len(rows) /\ j <= i
        BY Zenon, <1>2, <2>1
      <4>. QED  BY SMTT(20), Z3T(20), <1>1, <4>1
    <3>3. CASE j = i
      BY Zenon, <3>1, <3>3
    <3>4. CASE j < i
      <4>1. j \in 1 .. Len(rows) /\ i \in 1 .. Len(rows) /\ nr \in Nat
        BY <1>1, <1>2
      <4>2. j \in 1 .. i - 1
        BY SMTT(20), Z3T(20), <1>1, <3>4, <4>1
      <4>3. rows[j].def = id
        BY ZenonT(20), <1>2, <3>1, <4>1
      <4>4. nr < n
        BY ZenonT(20), <1>2, <3>1, <4>2, <4>3 DEF ColumnAt
      <4>. QED  BY SMTT(20), Z3T(20), <1>1, <2>2, <4>4
    <3>. QED  BY ZenonT(20), <3>2, <3>3, <3>4
  <2>. QED  BY Zenon, <2>2, <2>8, <2>9
<1>. QED  BY Zenon, <1>5, <1>6

-----------------------------------------------------------------------------
(* What calls have done so far stays done. *)

\* Of the rows of t, those that are not of s are not columns of id.
NoneAdded(s, t, id) == \A i \in 1 .. Len(t) : i \in 1 .. Len(s) \/ t[i].def # id

\* The columns a call has inserted, when rows of others are appended.
LEMMA ColumnsStay ==
  ASSUME NEW s, NEW t, Begins(s, t), Len(s) \in Nat, Len(t) \in Nat,
         NEW d, NEW e, Declares(d, e), NEW x, x.id \in DOMAIN d,
         NoneAdded(s, t, x.id), HasColumns(x, s, d)
  PROVE  HasColumns(x, t, e)
<1>1. SameIn(d, e)
  BY Zenon, DeclaredStays
<1>2. e[x.id] = d[x.id] /\ \A k : ColumnOf(e, x.id, k) = ColumnOf(d, x.id, k)
  BY Zenon, <1>1 DEF SameIn
<1>3. \A i \in 1 .. Len(t) : t[i].def = x.id => t[i].pos < NextColumn(x)
  <2> SUFFICES ASSUME NEW i \in 1 .. Len(t), t[i].def = x.id PROVE t[i].pos < NextColumn(x)
    BY Zenon
  <2>1. i \in 1 .. Len(s)
    BY Zenon DEF NoneAdded
  <2>2. s[i] = t[i]
    BY Zenon, <2>1 DEF Begins
  <2>. QED  BY Zenon, <2>1, <2>2 DEF HasColumns
<1>4. \A k \in 1 .. NextColumn(x) - 1 : Among(t, Len(t), ColumnOf(e, x.id, k))
  BY Zenon, <1>2, AmongGrows DEF HasColumns
<1>. QED  BY ZenonT(20), <1>2, <1>3, <1>4 DEF HasColumns

\* The pages m go on as the pages n.
Grows(m, n) ==
  \A p \in Pages : /\ Begins(m[p].rows, n[p].rows)
                  /\ Len(m[p].rows) \in Nat /\ Len(n[p].rows) \in Nat

\* A call that makes a table, when others go on.
LEMMA MakesStays ==
  ASSUME NEW m, NEW n, Grows(m, n), NEW d, NEW e, Declares(d, e), NEW K, NEW L,
         NEW x, MakesTable(x, m, d, K), x.id \notin L,
         \A id \in DOMAIN e : x.id \notin e[id].after,
         NoneAdded(m["columns"].rows, n["columns"].rows, x.id)
  PROVE  MakesTable(x, n, e, L)
<1>1. \A p \in {"objects", "tables", "columns"} :
        /\ Begins(m[p].rows, n[p].rows)
        /\ Len(m[p].rows) \in Nat /\ Len(n[p].rows) \in Nat
  BY Zenon, PageNames DEF Grows
<1>2. x.id \in DOMAIN d /\ HasColumns(x, m["columns"].rows, d)
  BY Zenon DEF MakesTable, MakesOwn
<1>3. SameIn(d, e)
  BY Zenon, DeclaredStays
<1>4. MakesOwn(x, e, L)
  BY Zenon, <1>2, <1>3 DEF MakesOwn, SameIn
<1>5. HasColumns(x, n["columns"].rows, e)
  <2>1. /\ Begins(m["columns"].rows, n["columns"].rows)
        /\ Len(m["columns"].rows) \in Nat /\ Len(n["columns"].rows) \in Nat
    BY Zenon, <1>1
  <2>. QED  BY ZenonT(20), <1>2, <2>1, ColumnsStay
<1>6. x.pc # "objects" => Has(n["objects"].rows, "objects", e, x.id)
  <2>1. /\ Begins(m["objects"].rows, n["objects"].rows)
        /\ Len(m["objects"].rows) \in Nat /\ Len(n["objects"].rows) \in Nat
    BY Zenon, <1>1
  <2>2. x.pc # "objects" => Has(m["objects"].rows, "objects", d, x.id)
    BY Zenon DEF MakesTable
  <2>. QED  BY ZenonT(20), <1>2, <2>1, <2>2, HasGrows
<1>7. x.pc = "columns" => Has(n["tables"].rows, "tables", e, x.id)
  <2>1. /\ Begins(m["tables"].rows, n["tables"].rows)
        /\ Len(m["tables"].rows) \in Nat /\ Len(n["tables"].rows) \in Nat
    BY Zenon, <1>1
  <2>2. x.pc = "columns" => Has(m["tables"].rows, "tables", d, x.id)
    BY Zenon DEF MakesTable
  <2>. QED  BY ZenonT(90), <1>2, <2>1, <2>2, HasGrows
<1>. QED  BY ZenonT(20), <1>4, <1>5, <1>6, <1>7 DEF MakesTable

\* A creation with an oid that had been drawn before is not the only one.
LEMMA OpensStays ==
  ASSUME NEW d, NEW e, Declares(d, e), NEW K, K \subseteq DOMAIN d, NEW L, K \subseteq L,
         NEW x, OpensTable(x, d, K)
  PROVE  OpensTable(x, e, L)
<1>1. \A id \in DOMAIN d : id \in DOMAIN e /\ e[id] = d[id]
  <2>1. SameIn(d, e)
    BY Zenon, DeclaredStays
  <2>. QED  BY Zenon, <2>1 DEF SameIn
<1>2. HasRead(x, e, L)
  <2>1. KnownOid(x.oid, e)
    BY Zenon, <1>1 DEF OpensTable, HasRead, KnownOid
  <2>2. x.pc # "opened" /\ x.whole => \E id \in L : e[id].oid = x.oid
    BY Zenon, <1>1 DEF OpensTable, HasRead
  <2>3. x.pc # "found" /\ x.oid >= 0 => x.root \in DOMAIN e /\ e[x.root].oid = x.oid
    BY Zenon, <1>1 DEF OpensTable, HasRead
  <2>. QED  BY Zenon, <2>1, <2>2, <2>3 DEF OpensTable, HasRead
<1>3. ASSUME x.pc = "opened", NEW id \in DOMAIN e, e[id].oid = x.oid, Own(e, id)
      PROVE  id \in DOMAIN d /\ e[id] = d[id] /\ Own(d, id)
  <2>1. ~ (x.oid < 0)
    <3>1. e[id] \in Declarations
      BY DEF Declares
    <3>2. e[id].oid \in Nat
      BY Zenon, <3>1 DEF Declarations
    <3>. QED  BY SMTT(20), Z3T(20), <1>3, <3>2
  <2>2. PICK o \in DOMAIN d : d[o].oid = x.oid
    BY Zenon, <2>1 DEF OpensTable, HasRead, KnownOid
  <2>3. o = id
    BY Zenon, <1>1, <1>3, <2>2 DEF Own
  <2>. QED  BY ZenonT(20), <1>1, <1>3, <2>2, <2>3 DEF Own
<1>4. x.pc = "opened" => HasOpened(x, e)
  BY Zenon, <1>3 DEF OpensTable, HasOpened
<1>. QED  BY Zenon, <1>2, <1>4 DEF OpensTable

-----------------------------------------------------------------------------
(* The steps that only concern the clients' calls. *)

\* What a client is doing, and what the others are.
LEMMA GotoEffect ==
  ASSUME CallTypes, NEW c \in Clients, NEW x, Goto(c, x)
  PROVE  /\ DOMAIN call' = Clients /\ call'[c] = x
         /\ \A o \in Clients : o # c => call'[o] = call[o]
BY Zenon DEF CallTypes, Goto

\* The catalog is as it was.
SameStore ==
  /\ mem' = mem /\ disk' = disk /\ dirty' = dirty /\ decl' = decl /\ todo' = todo
  /\ kept' = kept /\ covered' = covered /\ durable' = durable

\* Then what is known of it is known.
LEMMA StoreSame ==
  ASSUME Store, SameStore, counter' \in Nat
  PROVE  Store'
<1>1. Types'
  BY Zenon DEF Store, SameStore, Types
<1>2. RoomInv' /\ DiskInv'
  BY Zenon DEF Store, SameStore, RoomInv, DiskInv
<1>3. RowsInv'
  BY Zenon DEF Store, SameStore, RowsInv
<1>4. KeptInv'
  BY Zenon DEF Store, SameStore, KeptInv
<1>. QED  BY Zenon, <1>1, <1>2, <1>3, <1>4 DEF Store

\* A call that goes on without a table in the making.
LEMMA CallStep ==
  ASSUME CatInv, NEW c \in Clients, NEW x, Goto(c, x), SameStore, counter' \in Nat,
         x.pc \in {"idle", "found", "row", "opened"},
         Opening(x) => OpensTable(x, decl, kept)
  PROVE  CatInv'
<1>1. Store'
  BY Zenon, StoreSame DEF CatInv
<1>2. /\ DOMAIN call' = Clients /\ call'[c] = x
      /\ \A o \in Clients : o # c => call'[o] = call[o]
  BY Zenon, GotoEffect DEF CatInv, Calls
<1>3. ~ Making(x)
  BY Zenon, PageNames DEF Making
<1>4. CallTypes'
  BY Zenon, <1>2 DEF CatInv, Calls, CallTypes
<1>5. MakersInv'
  <2>1. \A o \in Clients : Making(call'[o]) => o # c /\ call'[o] = call[o]
    BY Zenon, <1>2, <1>3
  <2>2. \A o \in Clients : Making(call'[o]) => MakesTable(call'[o], mem', decl', kept')
    BY Zenon, <2>1 DEF CatInv, Calls, MakersInv, SameStore
  <2>3. \A o, q \in Clients :
          Making(call'[o]) /\ Making(call'[q]) /\ o # q => call'[o].id # call'[q].id
    BY Zenon, <2>1 DEF CatInv, Calls, MakersInv
  <2>. QED  BY Zenon, <2>2, <2>3 DEF MakersInv
<1>6. OpeningInv'
  BY Zenon, <1>2 DEF CatInv, Calls, OpeningInv, SameStore
<1>. QED  BY ZenonT(20), <1>1, <1>4, <1>5, <1>6 DEF CatInv, Calls

-----------------------------------------------------------------------------
(* The inserts. *)

\* A row is appended to its page, and that is all.
LEMMA InsertEffect ==
  ASSUME Store, NEW p \in Pages, NEW row \in AnyRow, Insert(p, row)
  PROVE  /\ mem' \in [Pages -> PageStates]
         /\ Len(mem'[p].rows) = Len(mem[p].rows) + 1
         /\ mem'[p].rows[Len(mem[p].rows) + 1] = row
         /\ \A q \in Pages : q # p => mem'[q] = mem[q]
         /\ Grows(mem, mem')
         /\ disk' = disk /\ dirty' = dirty \union {p}
         /\ Len(mem'[p].rows) <= PageRows[p]
<1>1. /\ mem \in [Pages -> PageStates] /\ mem[p] \in PageStates
      /\ mem' = [mem EXCEPT ![p].rows = Append(mem[p].rows, row)]
      /\ disk' = disk /\ dirty' = dirty \union {p} /\ Len(mem[p].rows) < PageRows[p]
  BY Zenon DEF Insert, HasRoom, Store, Types
<1>2. \A q \in Pages : mem[q].rows \in Seq(AnyRow) /\ Len(mem[q].rows) \in Nat
  BY Zenon, RowTypes DEF Store
<1> DEFINE s == mem[p].rows
           t == Append(s, row)
<1>3. /\ t \in Seq(AnyRow) /\ Len(t) = Len(s) + 1 /\ Begins(s, t) /\ t[Len(s) + 1] = row
  BY ZenonT(60), <1>2, Appended
<1>4. mem'[p] = [mem[p] EXCEPT !.rows = t] /\ \A q \in Pages : q # p => mem'[q] = mem[q]
  BY Zenon, <1>1
<1> HIDE DEF t
<1>5. [mem[p] EXCEPT !.rows = t] \in PageStates /\ [mem[p] EXCEPT !.rows = t].rows = t
  BY Zenon, <1>1, <1>3 DEF PageStates
<1>6. mem'[p] \in PageStates /\ mem'[p].rows = t
  BY Zenon, <1>4, <1>5
<1>7. mem' \in [Pages -> PageStates]
  <2>1. mem' = [mem EXCEPT ![p] = mem'[p]]
    BY Zenon, <1>1
  <2>. QED  BY Zenon, <1>1, <1>6, <2>1
<1>8. Grows(mem, mem')
  <2>1. \A q \in Pages : Begins(mem[q].rows, mem[q].rows)
    BY Zenon, <1>2, BeginsSelf
  <2>2. Len(s) + 1 \in Nat
    BY <1>2
  <2>. QED  BY ZenonT(20), <1>2, <1>3, <1>4, <1>6, <2>1, <2>2 DEF Grows
<1>9. Len(s) + 1 <= PageRows[p]
  <2>1. PageRows[p] \in Nat /\ Len(s) \in Nat /\ Len(s) < PageRows[p]
    BY Zenon, <1>1, <1>2, CatalogAssumption
  <2>. QED  BY <2>1
<1>. QED  BY ZenonT(20), <1>1, <1>3, <1>4, <1>6, <1>7, <1>8, <1>9

\* row may be the last one of t, on page p.
Fits(t, p, d, K) ==
  /\ p = "objects" => IsObject(t, Len(t), d, K)
  /\ p = "tables" => IsTable(t, Len(t), d)
  /\ p = "columns" => IsColumn(t, Len(t), d)

\* What is true of the catalog stays so when a row is inserted.
LEMMA InsertStore ==
  ASSUME Store, NEW p \in Pages, NEW row \in AnyRow, Insert(p, row),
         decl' = decl, todo' = todo, covered' = covered, durable' = durable, counter' \in Nat,
         kept \subseteq kept', kept' \subseteq DOMAIN decl,
         \A id \in DOMAIN decl : decl[id].after \intersect kept' \subseteq kept,
         \A id \in kept' : id \in kept \/ \A q \in Pages : Has(mem'[q].rows, q, decl, id),
         Fits(mem'[p].rows, p, decl, kept)
  PROVE  Store'
<1>1. /\ mem' \in [Pages -> PageStates]
      /\ Len(mem'[p].rows) = Len(mem[p].rows) + 1
      /\ \A q \in Pages : q # p => mem'[q] = mem[q]
      /\ Grows(mem, mem')
      /\ disk' = disk /\ dirty' = dirty \union {p}
      /\ Len(mem'[p].rows) <= PageRows[p]
  BY Zenon, InsertEffect
<1>2. /\ decl \in Seq(Declarations) /\ \A id \in DOMAIN decl : decl[id].after \subseteq DOMAIN decl
      /\ Declares(decl, decl) /\ kept \subseteq DOMAIN decl
      /\ covered \subseteq kept /\ durable \subseteq kept
  BY Zenon, DeclaresSelf DEF Store, Types
<1>3. Types'
  BY Zenon, <1>1, <1>2 DEF Store, Types
<1>4. RoomInv'
  BY Zenon, <1>1 DEF Store, RoomInv
<1>5. DiskInv'
  <2> SUFFICES ASSUME NEW q \in Pages
               PROVE  /\ Begins(disk[q].rows, mem'[q].rows)
                      /\ q \notin dirty' => disk[q].rows = mem'[q].rows
    BY Zenon, <1>1 DEF DiskInv
  <2>1. Begins(disk[q].rows, mem[q].rows) /\ Len(disk[q].rows) \in Nat
    BY Zenon, RowTypes DEF Store, DiskInv
  <2>2. Begins(disk[q].rows, mem'[q].rows)
    BY Zenon, <1>1, <2>1, BeginsTwice DEF Grows
  <2>. QED  BY Zenon, <1>1, <2>2 DEF Store, DiskInv
<1>6. RowsInv'
  <2>1. ObjectsOK(mem'["objects"].rows, decl, kept)
    <3>1. ObjectsOK(mem["objects"].rows, decl, kept)
      BY Zenon DEF Store, RowsInv
    <3>2. CASE p = "objects"
      <4>1. Begins(mem[p].rows, mem'[p].rows) /\ Len(mem[p].rows) \in Nat
        BY Zenon, <1>1 DEF Grows
      <4>2. ObjectsOK(mem[p].rows, decl, kept) /\ IsObject(mem'[p].rows, Len(mem'[p].rows), decl, kept)
        BY Zenon, <3>1, <3>2 DEF Fits
      <4>. QED  BY ZenonT(20), <1>1, <1>2, <3>2, <4>1, <4>2, LongerOK
    <3>3. CASE p # "objects"
      BY ZenonT(20), <1>1, <3>1, <3>3, PageNames
    <3>. QED  BY Zenon, <3>2, <3>3
  <2>2. TablesOK(mem'["tables"].rows, decl)
    <3>1. TablesOK(mem["tables"].rows, decl)
      BY Zenon DEF Store, RowsInv
    <3>2. CASE p = "tables"
      <4>1. Begins(mem[p].rows, mem'[p].rows) /\ Len(mem[p].rows) \in Nat
        BY Zenon, <1>1 DEF Grows
      <4>2. TablesOK(mem[p].rows, decl) /\ IsTable(mem'[p].rows, Len(mem'[p].rows), decl)
        BY Zenon, <3>1, <3>2 DEF Fits
      <4>. QED  BY ZenonT(20), <1>1, <1>2, <3>2, <4>1, <4>2, LongerOK
    <3>3. CASE p # "tables"
      BY ZenonT(20), <1>1, <3>1, <3>3, PageNames
    <3>. QED  BY Zenon, <3>2, <3>3
  <2>3. ColumnsOK(mem'["columns"].rows, decl)
    <3>1. ColumnsOK(mem["columns"].rows, decl)
      BY Zenon DEF Store, RowsInv
    <3>2. CASE p = "columns"
      <4>1. Begins(mem[p].rows, mem'[p].rows) /\ Len(mem[p].rows) \in Nat
        BY Zenon, <1>1 DEF Grows
      <4>2. ColumnsOK(mem[p].rows, decl) /\ IsColumn(mem'[p].rows, Len(mem'[p].rows), decl)
        BY Zenon, <3>1, <3>2 DEF Fits
      <4>. QED  BY ZenonT(20), <1>1, <1>2, <3>2, <4>1, <4>2, LongerOK
    <3>3. CASE p # "columns"
      BY ZenonT(20), <1>1, <3>1, <3>3, PageNames
    <3>. QED  BY Zenon, <3>2, <3>3
  <2>4. Len(mem'["objects"].rows) \in Nat
    BY Zenon, <1>1, PageNames DEF Grows
  <2>6. ObjectsOK(mem'["objects"].rows, decl, kept')
    BY ZenonT(20), <1>2, <2>1, <2>4, KeepsMore
  <2>. QED  BY ZenonT(20), <2>2, <2>3, <2>6 DEF RowsInv
<1>7. KeptInv'
  <2>1. ASSUME NEW q \in Pages, NEW id \in kept'
        PROVE  Has(mem'[q].rows, q, decl, id)
    <3>1. CASE id \in kept
      <4>1. Has(mem[q].rows, q, decl, id) /\ id \in DOMAIN decl
        BY Zenon, <1>2, <3>1 DEF Store, KeptInv
      <4>. QED  BY ZenonT(40), <1>1, <1>2, <4>1, HasGrows DEF Grows
    <3>. QED  BY Zenon, <3>1
  <2>. QED  BY ZenonT(20), <1>1, <2>1 DEF Store, KeptInv
<1>. QED  BY ZenonT(20), <1>3, <1>4, <1>5, <1>6, <1>7 DEF Store

\* The calls of other clients are not concerned.
LEMMA InsertCalls ==
  ASSUME CatInv, NEW c \in Clients, NEW x, Goto(c, x), Making(call[c]),
         NEW p \in Pages, NEW row \in AnyRow, Insert(p, row), decl' = decl,
         p = "columns" => row.def = call[c].id,
         kept \subseteq kept', kept' \subseteq kept \union {call[c].id},
         Making(x) => x.id = call[c].id /\ MakesTable(x, mem', decl, kept'),
         x.pc \in Pages \union {"idle"}
  PROVE  Calls'
<1>1. /\ DOMAIN call' = Clients /\ call'[c] = x
      /\ \A o \in Clients : o # c => call'[o] = call[o]
  BY Zenon, GotoEffect DEF CatInv, Calls
<1>2. /\ Grows(mem, mem') /\ Len(mem'[p].rows) = Len(mem[p].rows) + 1
      /\ mem'[p].rows[Len(mem[p].rows) + 1] = row
      /\ \A q \in Pages : q # p => mem'[q] = mem[q]
  BY Zenon, InsertEffect DEF CatInv
<1>3. Declares(decl, decl) /\ kept \subseteq DOMAIN decl
  BY Zenon, DeclaresSelf DEF CatInv, Store, Types
<1>4. CallTypes'
  BY Zenon, <1>1 DEF CatInv, Calls, CallTypes
<1>5. ASSUME NEW o \in Clients, o # c, Making(call[o])
      PROVE  MakesTable(call[o], mem', decl, kept') /\ call[o].id # call[c].id
  <2>1. MakesTable(call[o], mem, decl, kept) /\ call[o].id # call[c].id
    BY Zenon, <1>5 DEF CatInv, Calls, MakersInv
  <2>2. call[o].id \notin kept' /\ \A id \in DOMAIN decl : call[o].id \notin decl[id].after
    BY Zenon, <2>1 DEF MakesTable, MakesOwn
  <2>3. NoneAdded(mem["columns"].rows, mem'["columns"].rows, call[o].id)
    <3> DEFINE s == mem["columns"].rows
               t == mem'["columns"].rows
    <3>1. Len(s) \in Nat
      BY ZenonT(20), <1>2, PageNames DEF Grows
    <3>2. s = t \/ (Len(t) = Len(s) + 1 /\ t[Len(s) + 1].def # call[o].id)
      BY ZenonT(20), <1>2, <2>1, PageNames
    <3> HIDE DEF s, t
    <3>3. \A i \in 1 .. Len(t) : i \in 1 .. Len(s) \/ t[i].def # call[o].id
      BY SMTT(20), Z3T(20), <3>1, <3>2
    <3>. QED  BY Zenon, <3>3 DEF NoneAdded, s, t
  <2>4. MakesTable(call[o], mem', decl, kept')
    BY ZenonT(20), <1>2, <1>3, <2>1, <2>2, <2>3, MakesStays
  <2>. QED  BY Zenon, <2>1, <2>4
<1>6. MakersInv'
  <2>1. \A o \in Clients : Making(call'[o]) => MakesTable(call'[o], mem', decl', kept')
    BY Zenon, <1>1, <1>5
  <2>2. ASSUME NEW o \in Clients, NEW q \in Clients, Making(call'[o]), Making(call'[q]), o # q
        PROVE  call'[o].id # call'[q].id
    <3>1. CASE o = c
      BY ZenonT(20), <1>1, <1>5, <2>2, <3>1
    <3>2. CASE q = c
      BY ZenonT(20), <1>1, <1>5, <2>2, <3>2
    <3>3. CASE o # c /\ q # c
      BY ZenonT(20), <1>1, <2>2, <3>3 DEF CatInv, Calls, MakersInv
    <3>. QED  BY Zenon, <3>1, <3>2, <3>3
  <2>. QED  BY Zenon, <2>1, <2>2 DEF MakersInv
<1>7. OpeningInv'
  <2>1. ~ Opening(x)
    BY Zenon, PageNames DEF Opening
  <2>2. ASSUME NEW o \in Clients, Opening(call'[o]) PROVE OpensTable(call'[o], decl', kept')
    <3>1. call'[o] = call[o]
      BY ZenonT(20), <1>1, <2>1, <2>2
    <3>2. OpensTable(call[o], decl, kept)
      BY ZenonT(20), <2>2, <3>1 DEF CatInv, Calls, OpeningInv
    <3>3. OpensTable(call[o], decl, kept')
      BY ZenonT(20), <1>3, <3>2, OpensStays
    <3>. QED  BY Zenon, <3>1, <3>3
  <2>. QED  BY Zenon, <2>2 DEF OpeningInv
<1>. QED  BY Zenon, <1>4, <1>6, <1>7 DEF Calls

\* The rows of a creation.
LEMMA RowsOf ==
  ASSUME Types, NEW id \in DOMAIN decl
  PROVE  /\ ObjectOf(decl, id) \in AnyRow
         /\ TableOf(decl, id) \in AnyRow
         /\ \A k \in Nat : /\ ColumnOf(decl, id, k) \in AnyRow
                          /\ ColumnOf(decl, id, k).def = id
                          /\ ColumnOf(decl, id, k).pos = k
<1>1. decl[id].oid \in Int /\ decl[id].name \in Names /\ id \in Int /\ id \in Nat
  <2>1. decl[id].oid \in Nat \ {0} /\ decl[id].name \in Names /\ id \in Nat \ {0}
    BY Zenon, DeclTypes
  <2>. QED  BY <2>1
<1>2. ObjectOf(decl, id) \in ObjectRows
  BY SMTT(20), Z3T(20), <1>1 DEF ObjectOf, ObjectRow, ObjectRows
<1>3. TableOf(decl, id) \in TableRows
  BY SMTT(20), Z3T(20), <1>1 DEF TableOf, TableRow, TableRows
<1>4. ASSUME NEW k \in Nat
      PROVE  /\ ColumnOf(decl, id, k) \in ColumnRows
             /\ ColumnOf(decl, id, k).def = id
             /\ ColumnOf(decl, id, k).pos = k
  BY SMTT(20), Z3T(20), <1>1 DEF ColumnOf, ColumnRow, ColumnRows
<1>. QED  BY ZenonT(20), <1>2, <1>3, <1>4 DEF AnyRow

\* A row that was there is before the one that is appended.
LEMMA AmongBefore ==
  ASSUME NEW s, NEW t, Begins(s, t), Len(s) \in Nat, Len(t) = Len(s) + 1,
         NEW row, Among(s, Len(s), row)
  PROVE  Among(t, Len(t) - 1, row)
BY DEF Begins, Among

\* Going on to the next page leaves the columns as they are.
LEMMA SameColumns ==
  ASSUME NEW x, NEW y, x.id = y.id, NextColumn(x) = NextColumn(y),
         NEW rows, NEW d, HasColumns(x, rows, d)
  PROVE  HasColumns(y, rows, d)
BY Zenon DEF HasColumns

\* What a call that makes a table has to go on with.
LEMMA MakerFacts ==
  ASSUME CatInv, NEW c \in Clients, call[c].pc \in Pages
  PROVE  /\ Making(call[c]) /\ MakesTable(call[c], mem, decl, kept)
         /\ call[c].id \in DOMAIN decl /\ MakesOwn(call[c], decl, kept)
         /\ Types /\ Store /\ Declares(decl, decl) /\ kept \subseteq DOMAIN decl
         /\ counter \in Nat /\ counter + 1 \in Nat
<1>1. Making(call[c]) /\ MakesTable(call[c], mem, decl, kept)
  BY Zenon DEF Making, CatInv, Calls, MakersInv
<1>2. /\ Types /\ Store /\ Declares(decl, decl) /\ kept \subseteq DOMAIN decl
      /\ counter \in Nat
  BY Zenon, DeclaresSelf DEF CatInv, Store, Types
<1>3. counter + 1 \in Nat
  BY <1>2
<1>. QED  BY ZenonT(20), <1>1, <1>2, <1>3 DEF MakesTable, MakesOwn

\* The insert into sys.objects keeps the invariant.
LEMMA InsertObjectRowStep ==
  ASSUME CatInv, NEW c \in Clients, InsertObjectRow(c)
  PROVE  CatInv'
<1> DEFINE id  == call[c].id
           row == ObjectOf(decl, id)
           x   == [pc |-> "tables", id |-> id]
           s   == mem["objects"].rows
           t   == mem'["objects"].rows
<1>1. /\ call[c].pc = "objects" /\ call[c].pc \in Pages /\ "objects" \in Pages
      /\ Insert("objects", row) /\ Goto(c, x)
      /\ counter' = counter /\ decl' = decl /\ todo' = todo /\ covered' = covered
      /\ durable' = durable /\ kept' = kept
  BY Zenon, PageNames DEF InsertObjectRow, checkpointer, ObjectOf
<1>2. /\ Making(call[c]) /\ MakesTable(call[c], mem, decl, kept)
      /\ id \in DOMAIN decl /\ MakesOwn(call[c], decl, kept)
      /\ Types /\ Store /\ Declares(decl, decl) /\ kept \subseteq DOMAIN decl /\ counter \in Nat
  BY ZenonT(20), <1>1, MakerFacts
<1>3. row \in AnyRow
  BY ZenonT(20), <1>2, RowsOf
<1>4. x.pc = "tables" /\ x.id = id /\ NextColumn(x) = 1 /\ NextColumn(call[c]) = 1
  BY <1>1 DEF NextColumn
<1> HIDE DEF row, x
<1>5. /\ Len(t) = Len(s) + 1 /\ t[Len(s) + 1] = row /\ Len(s) \in Nat /\ Len(t) \in Nat
      /\ Begins(s, t) /\ mem'["columns"] = mem["columns"]
  BY ZenonT(40), <1>1, <1>2, <1>3, InsertEffect, PageNames DEF Grows
<1>6. t[Len(t)] = row /\ Len(t) \in Nat \ {0}
  BY SMTT(20), Z3T(20), <1>5
<1>7. Fits(t, "objects", decl, kept)
  <2>1. ASSUME NEW o \in decl[id].after \intersect kept
        PROVE  Among(t, Len(t) - 1, ObjectOf(decl, o))
    <3>1. Has(s, "objects", decl, o)
      BY ZenonT(20), <1>1, <1>2, <2>1 DEF Store, KeptInv
    <3>2. Among(s, Len(s), ObjectOf(decl, o))
      BY Zenon, <3>1 DEF Has
    <3>. QED  BY ZenonT(20), <1>5, <3>2, AmongBefore
  <2>2. IsObject(t, Len(t), decl, kept)
    BY ZenonT(20), <1>2, <1>6, <2>1 DEF IsObject, row
  <2>. QED  BY Zenon, <2>2, PageNames DEF Fits
<1>8. MakesTable(x, mem', decl, kept)
  <2>1. HasColumns(x, mem'["columns"].rows, decl)
    BY ZenonT(20), <1>2, <1>4, <1>5, SameColumns DEF MakesTable
  <2>2. Among(t, Len(t), ObjectOf(decl, id))
    BY ZenonT(20), <1>6, AmongLast DEF row
  <2>3. Has(t, "objects", decl, id)
    BY Zenon, <2>2 DEF Has
  <2>4. MakesOwn(x, decl, kept)
    BY ZenonT(20), <1>2, <1>4 DEF MakesOwn
  <2>. QED  BY ZenonT(20), <1>4, <2>1, <2>3, <2>4 DEF MakesTable
<1>9. Store'
  <2>1. /\ counter' \in Nat /\ kept \subseteq kept' /\ kept' \subseteq DOMAIN decl
        /\ \A o \in DOMAIN decl : decl[o].after \intersect kept' \subseteq kept
        /\ \A o \in kept' : o \in kept
    BY ZenonT(20), <1>1, <1>2
  <2>. QED  BY ZenonT(20), <1>1, <1>2, <1>3, <1>7, <2>1, InsertStore
<1>10. Calls'
  <2>1. x.pc \in Pages \union {"idle"} /\ kept \subseteq kept' /\ kept' \subseteq kept \union {id}
    BY ZenonT(20), <1>1, <1>4, PageNames
  <2>2. "objects" # "columns"
    BY Zenon
  <2>. QED  BY ZenonT(20), <1>1, <1>2, <1>3, <1>4, <1>8, <2>1, <2>2, InsertCalls
<1>. QED  BY Zenon, <1>9, <1>10 DEF CatInv

\* The insert into sys.tables keeps the invariant.
LEMMA InsertRelationRowStep ==
  ASSUME CatInv, NEW c \in Clients, InsertRelationRow(c)
  PROVE  CatInv'
<1> DEFINE id  == call[c].id
           row == TableOf(decl, id)
           x   == [pc |-> "columns", id |-> id, pos |-> 1]
           s   == mem["tables"].rows
           t   == mem'["tables"].rows
<1>1. /\ call[c].pc = "tables" /\ call[c].pc \in Pages /\ "tables" \in Pages
      /\ Insert("tables", row) /\ Goto(c, x)
      /\ counter' = counter /\ decl' = decl /\ todo' = todo /\ covered' = covered
      /\ durable' = durable /\ kept' = kept
  BY ZenonT(20), PageNames DEF InsertRelationRow, checkpointer, TableOf
<1>2. /\ Making(call[c]) /\ MakesTable(call[c], mem, decl, kept)
      /\ id \in DOMAIN decl /\ MakesOwn(call[c], decl, kept)
      /\ Types /\ Store /\ Declares(decl, decl) /\ kept \subseteq DOMAIN decl /\ counter \in Nat
  BY ZenonT(20), <1>1, MakerFacts
<1>3. row \in AnyRow
  BY ZenonT(20), <1>2, RowsOf
<1>4. x.pc = "columns" /\ x.id = id /\ NextColumn(x) = 1 /\ NextColumn(call[c]) = 1
  BY SMTT(20), Z3T(20), <1>1 DEF NextColumn
<1> HIDE DEF row, x
<1>5. /\ Len(t) = Len(s) + 1 /\ t[Len(s) + 1] = row /\ Len(s) \in Nat /\ Len(t) \in Nat
      /\ mem'["columns"] = mem["columns"] /\ mem'["objects"] = mem["objects"]
  BY ZenonT(40), <1>1, <1>2, <1>3, InsertEffect, PageNames DEF Grows
<1>6. t[Len(t)] = row /\ Len(t) \in Nat \ {0}
  BY SMTT(20), Z3T(20), <1>5
<1>7. Fits(t, "tables", decl, kept)
  <2>1. IsTable(t, Len(t), decl)
    BY ZenonT(20), <1>2, <1>6 DEF IsTable, row
  <2>. QED  BY ZenonT(20), <2>1, PageNames DEF Fits
<1>8. MakesTable(x, mem', decl, kept)
  <2>1. HasColumns(x, mem'["columns"].rows, decl)
    BY ZenonT(20), <1>2, <1>4, <1>5, SameColumns DEF MakesTable
  <2>2. Among(t, Len(t), TableOf(decl, id))
    BY Zenon, <1>6, AmongLast DEF row
  <2>3. Has(t, "tables", decl, id)
    BY Zenon, <2>2 DEF Has
  <2>4. Has(mem'["objects"].rows, "objects", decl, id)
    BY ZenonT(20), <1>1, <1>2, <1>5 DEF MakesTable
  <2>5. MakesOwn(x, decl, kept)
    BY ZenonT(20), <1>2, <1>4 DEF MakesOwn
  <2>. QED  BY ZenonT(20), <1>4, <2>1, <2>3, <2>4, <2>5 DEF MakesTable
<1>9. Store'
  <2>1. /\ counter' \in Nat /\ kept \subseteq kept' /\ kept' \subseteq DOMAIN decl
        /\ \A o \in DOMAIN decl : decl[o].after \intersect kept' \subseteq kept
        /\ \A o \in kept' : o \in kept
    BY ZenonT(20), <1>1, <1>2
  <2>. QED  BY ZenonT(20), <1>1, <1>2, <1>3, <1>7, <2>1, InsertStore
<1>10. Calls'
  <2>1. x.pc \in Pages \union {"idle"} /\ kept \subseteq kept' /\ kept' \subseteq kept \union {id}
    BY ZenonT(20), <1>1, <1>4, PageNames
  <2>2. "tables" # "columns"
    OBVIOUS
  <2>. QED  BY ZenonT(20), <1>1, <1>2, <1>3, <1>4, <1>8, <2>1, <2>2, InsertCalls
<1>. QED  BY Zenon, <1>9, <1>10 DEF CatInv

\* The positions of columns are numbers.
LEMMA Positions ==
  ASSUME NEW rows, NEW d, ColumnsOK(rows, d)
  PROVE  \A i \in 1 .. Len(rows) : rows[i].pos \in Int
<1> SUFFICES ASSUME NEW i \in 1 .. Len(rows) PROVE rows[i].pos \in Int
  OBVIOUS
<1>1. PICK id \in DOMAIN d : \E k \in 1 .. d[id].nr_cols : ColumnAt(rows, i, d, id, k)
  BY Zenon DEF ColumnsOK, IsColumn
<1>2. PICK k \in 1 .. d[id].nr_cols : ColumnAt(rows, i, d, id, k)
  BY Zenon, <1>1
<1>3. rows[i] = ColumnOf(d, id, k) /\ k \in Int
  <2>1. k \in Int
    OBVIOUS
  <2>. QED  BY ZenonT(20), <1>2, <2>1 DEF ColumnAt
<1>4. ColumnOf(d, id, k).pos = k
  BY DEF ColumnOf, ColumnRow
<1>. QED  BY ZenonT(20), <1>3, <1>4

\* The next column's row goes after those before it.
LEMMA NextFits ==
  ASSUME NEW s, NEW t, Begins(s, t), Len(s) \in Nat, Len(t) = Len(s) + 1, Len(t) \in Nat,
         NEW d, NEW x, x.id \in DOMAIN d, NEW k \in Nat, NextColumn(x) = k,
         HasColumns(x, s, d), ColumnsOK(s, d), t[Len(s) + 1] = ColumnOf(d, x.id, k)
  PROVE  /\ IsColumn(t, Len(t), d)
         /\ \A i \in 1 .. Len(t) : t[i].def = x.id => t[i].pos < k + 1
         /\ \A m \in 1 .. k : Among(t, Len(t), ColumnOf(d, x.id, m))
         /\ k \in 1 .. d[x.id].nr_cols
<1>1. /\ k \in 1 .. d[x.id].nr_cols
      /\ \A i \in 1 .. Len(s) : s[i].def = x.id => s[i].pos < k
      /\ \A m \in 1 .. k - 1 : Among(s, Len(s), ColumnOf(d, x.id, m))
  BY Zenon DEF HasColumns
<1>2. /\ Len(t) - 1 = Len(s) /\ Len(t) \in Nat \ {0}
      /\ \A i \in 1 .. Len(t) : i = Len(t) \/ i \in 1 .. Len(s)
      /\ \A m \in 1 .. k : m = k \/ m \in 1 .. k - 1
  OBVIOUS
<1>3. \A i \in 1 .. Len(s) : t[i] = s[i]
  BY Zenon DEF Begins
<1>4. t[Len(t)] = ColumnOf(d, x.id, k)
  OBVIOUS
<1>5. ColumnAt(t, Len(t), d, x.id, k)
  <2>1. \A m \in 1 .. k - 1 : Among(t, Len(t) - 1, ColumnOf(d, x.id, m))
    BY ZenonT(20), <1>1, AmongBefore
  <2>2. \A i \in 1 .. Len(t) - 1 : t[i].def = x.id => t[i].pos < k
    BY ZenonT(20), <1>1, <1>2, <1>3
  <2>. QED  BY ZenonT(20), <1>4, <2>1, <2>2 DEF ColumnAt
<1>6. IsColumn(t, Len(t), d)
  BY ZenonT(20), <1>1, <1>5 DEF IsColumn
<1>7. \A i \in 1 .. Len(t) : t[i].def = x.id => t[i].pos < k + 1
  <2>1. \A i \in 1 .. Len(s) : t[i].pos \in Int
    BY ZenonT(20), <1>3, Positions
  <2>2. \A i \in 1 .. Len(s) : t[i].def = x.id => t[i].pos < k
    BY ZenonT(20), <1>1, <1>3
  <2>3. t[Len(t)].pos = k
    <3>1. ColumnOf(d, x.id, k).pos = k
      BY DEF ColumnOf, ColumnRow
    <3>. QED  BY ZenonT(20), <1>4, <3>1
  <2>4. \A v \in Int : v < k => v < k + 1
    OBVIOUS
  <2>5. k < k + 1
    OBVIOUS
  <2>. QED  BY ZenonT(20), <1>2, <2>1, <2>2, <2>3, <2>4, <2>5
<1>8. \A m \in 1 .. k : Among(t, Len(t), ColumnOf(d, x.id, m))
  <2>1. Among(t, Len(t), ColumnOf(d, x.id, k))
    BY ZenonT(20), <1>2, <1>4, AmongLast
  <2>2. \A m \in 1 .. k - 1 : Among(t, Len(t), ColumnOf(d, x.id, m))
    BY Zenon, <1>1, AmongGrows
  <2>. QED  BY ZenonT(20), <1>2, <2>1, <2>2
<1>. QED  BY ZenonT(20), <1>1, <1>6, <1>7, <1>8

\* The insert into sys.columns keeps the invariant.
LEMMA InsertColumnRowStep ==
  ASSUME CatInv, NEW c \in Clients, InsertColumnRow(c)
  PROVE  CatInv'
<1> DEFINE id  == call[c].id
           pos == call[c].pos
           row == ColumnOf(decl, id, pos)
           x   == [pc |-> "columns", id |-> id, pos |-> pos + 1]
           s   == mem["columns"].rows
           t   == mem'["columns"].rows
<1>1. /\ call[c].pc = "columns" /\ call[c].pc \in Pages /\ "columns" \in Pages
      /\ Insert("columns", row)
      /\ \/ pos < decl[id].nr_cols /\ Goto(c, x) /\ kept' = kept
         \/ ~ (pos < decl[id].nr_cols) /\ Goto(c, Idle) /\ kept' = kept \union {id}
      /\ counter' = counter + 1 /\ decl' = decl /\ todo' = todo /\ covered' = covered
      /\ durable' = durable
  BY ZenonT(20), PageNames DEF InsertColumnRow, checkpointer, ColumnOf
<1>2. /\ Making(call[c]) /\ MakesTable(call[c], mem, decl, kept)
      /\ id \in DOMAIN decl /\ MakesOwn(call[c], decl, kept)
      /\ Types /\ Store /\ Declares(decl, decl) /\ kept \subseteq DOMAIN decl
      /\ counter + 1 \in Nat
  BY ZenonT(20), <1>1, MakerFacts
<1>3. /\ NextColumn(call[c]) = pos /\ HasColumns(call[c], s, decl)
      /\ Has(mem["objects"].rows, "objects", decl, id)
      /\ Has(mem["tables"].rows, "tables", decl, id)
  <2>1. "columns" # "objects"
    OBVIOUS
  <2>. QED  BY ZenonT(20), <1>1, <1>2, <2>1 DEF MakesTable, NextColumn
<1>4. /\ pos \in Nat /\ decl[id].nr_cols \in Nat /\ pos <= decl[id].nr_cols
      /\ pos + 1 \in Nat
  <2>1. pos \in 1 .. decl[id].nr_cols /\ decl[id].nr_cols \in Nat
    BY ZenonT(20), <1>2, <1>3, DeclTypes DEF HasColumns
  <2> HIDE DEF pos, id
  <2>. QED  BY SMTT(20), Z3T(20), <2>1
<1>5. row \in AnyRow /\ row.def = id
  BY ZenonT(20), <1>2, <1>4, RowsOf
<1>6. x.pc = "columns" /\ x.id = id /\ NextColumn(x) = pos + 1
  BY DEF NextColumn
<1> HIDE DEF row, x
<1>7. /\ Len(t) = Len(s) + 1 /\ t[Len(s) + 1] = row /\ Len(s) \in Nat /\ Len(t) \in Nat
      /\ Begins(s, t)
      /\ mem'["tables"] = mem["tables"] /\ mem'["objects"] = mem["objects"]
  <2>1. /\ Len(t) = Len(s) + 1 /\ t[Len(s) + 1] = row /\ Grows(mem, mem')
        /\ \A q \in Pages : q # "columns" => mem'[q] = mem[q]
    BY ZenonT(20), <1>1, <1>2, <1>5, InsertEffect
  <2>2. Len(s) \in Nat /\ Len(t) \in Nat /\ Begins(s, t)
    BY ZenonT(20), <1>1, <2>1 DEF Grows
  <2>. QED  BY ZenonT(20), <2>1, <2>2, PageNames
<1>8. /\ IsColumn(t, Len(t), decl)
      /\ \A i \in 1 .. Len(t) : t[i].def = id => t[i].pos < pos + 1
      /\ \A m \in 1 .. pos : Among(t, Len(t), ColumnOf(decl, id, m))
  <2>1. ColumnsOK(s, decl) /\ t[Len(s) + 1] = ColumnOf(decl, id, pos)
    BY Zenon, <1>2, <1>7 DEF Store, RowsInv, row
  <2>. QED  BY ZenonT(20), <1>2, <1>3, <1>4, <1>7, <2>1, NextFits
<1>9. Fits(t, "columns", decl, kept)
  BY ZenonT(20), <1>8, PageNames DEF Fits
<1>10. CASE pos < decl[id].nr_cols
  <2>1. Goto(c, x) /\ kept' = kept
    BY ZenonT(20), <1>1, <1>10
  <2>2. pos + 1 \in 1 .. decl[id].nr_cols
    <3> HIDE DEF pos, id
    <3>. QED  BY SMTT(20), Z3T(20), <1>4, <1>10
  <2>3. HasColumns(x, t, decl)
    <3>1. NextColumn(x) \in 1 .. decl[x.id].nr_cols
      BY ZenonT(20), <1>6, <2>2
    <3>2. \A i \in 1 .. Len(t) : t[i].def = x.id => t[i].pos < NextColumn(x)
      BY ZenonT(20), <1>6, <1>8
    <3>3. \A k \in 1 .. NextColumn(x) - 1 : Among(t, Len(t), ColumnOf(decl, x.id, k))
      <4>1. NextColumn(x) - 1 = pos
        <5>1. NextColumn(x) = pos + 1 /\ pos \in Nat
          BY ZenonT(20), <1>4, <1>6
        <5> HIDE DEF pos
        <5>. QED  BY SMTT(20), Z3T(20), <5>1
      <4>. QED  BY ZenonT(20), <1>6, <1>8, <4>1
    <3>. QED  BY ZenonT(20), <3>1, <3>2, <3>3 DEF HasColumns
  <2>4. MakesOwn(x, decl, kept)
    BY ZenonT(20), <1>2, <1>6 DEF MakesOwn
  <2>5. MakesTable(x, mem', decl, kept')
    BY ZenonT(20), <1>3, <1>6, <1>7, <2>1, <2>3, <2>4 DEF MakesTable
  <2>6. Store'
    <3>1. /\ counter' \in Nat /\ kept \subseteq kept' /\ kept' \subseteq DOMAIN decl
          /\ \A o \in DOMAIN decl : decl[o].after \intersect kept' \subseteq kept
          /\ \A o \in kept' : o \in kept
      BY ZenonT(20), <1>1, <1>2, <2>1
    <3>. QED  BY ZenonT(20), <1>1, <1>2, <1>5, <1>9, <3>1, InsertStore
  <2>7. Calls'
    <3>1. /\ x.pc \in Pages \union {"idle"} /\ kept \subseteq kept'
          /\ kept' \subseteq kept \union {id}
      BY ZenonT(20), <1>1, <1>6, <2>1
    <3>. QED  BY ZenonT(20), <1>1, <1>2, <1>5, <1>6, <2>1, <2>5, <3>1, InsertCalls
  <2>. QED  BY Zenon, <2>6, <2>7 DEF CatInv
<1>11. CASE ~ (pos < decl[id].nr_cols)
  <2>1. Goto(c, Idle) /\ kept' = kept \union {id}
    BY ZenonT(20), <1>1, <1>11
  <2>2. pos = decl[id].nr_cols
    <3> HIDE DEF pos, id
    <3>. QED  BY SMTT(20), Z3T(20), <1>4, <1>11
  <2>3. Has(t, "columns", decl, id)
    BY ZenonT(20), <1>8, <2>2, PageNames DEF Has
  <2>4. \A q \in Pages : Has(mem'[q].rows, q, decl, id)
    BY ZenonT(20), <1>3, <1>7, <2>3, PageNames
  <2>5. Store'
    <3>1. /\ counter' \in Nat /\ kept \subseteq kept' /\ kept' \subseteq DOMAIN decl
          /\ \A o \in kept' : o \in kept \/ \A q \in Pages : Has(mem'[q].rows, q, decl, o)
      BY ZenonT(20), <1>1, <1>2, <2>1, <2>4
    <3>2. \A o \in DOMAIN decl : decl[o].after \intersect kept' \subseteq kept
      BY ZenonT(20), <1>2, <2>1 DEF MakesOwn
    <3>. QED  BY ZenonT(20), <1>1, <1>2, <1>5, <1>9, <3>1, <3>2, InsertStore
  <2>6. Calls'
    <3>1. /\ Idle.pc \in Pages \union {"idle"} /\ kept \subseteq kept'
          /\ kept' \subseteq kept \union {id} /\ ~ Making(Idle)
      BY ZenonT(20), <2>1, PageNames DEF Making
    <3>. QED  BY ZenonT(20), <1>1, <1>2, <1>5, <2>1, <3>1, InsertCalls
  <2>. QED  BY Zenon, <2>5, <2>6 DEF CatInv
<1>. QED  BY ZenonT(20), <1>10, <1>11

-----------------------------------------------------------------------------
(* A creation begins. *)

\* The columns on the page are of creations that have begun.
LEMMA DefDeclared ==
  ASSUME NEW rows, NEW d, ColumnsOK(rows, d)
  PROVE  \A i \in 1 .. Len(rows) : rows[i].def \in DOMAIN d
<1> SUFFICES ASSUME NEW i \in 1 .. Len(rows) PROVE rows[i].def \in DOMAIN d
  OBVIOUS
<1>1. PICK id \in DOMAIN d : \E k \in 1 .. d[id].nr_cols : rows[i] = ColumnOf(d, id, k)
  BY ZenonT(20) DEF ColumnsOK, IsColumn, ColumnAt
<1>2. \A k : ColumnOf(d, id, k).def = id
  BY DEF ColumnOf, ColumnRow
<1>. QED  BY ZenonT(20), <1>1, <1>2

\* Taking an oid keeps the invariant.
LEMMA CreateTableStep ==
  ASSUME CatInv, NEW c \in Clients, NEW name \in Names, NEW n \in 1 .. MaxCols,
         CreateTable(c, name, n)
  PROVE  CatInv'
<1> DEFINE D   == [name |-> name, nr_cols |-> n, oid |-> counter + 1, after |-> kept]
           new == Len(decl) + 1
           x   == [pc |-> "objects", id |-> Len(decl')]
<1>1. /\ decl' = Append(decl, D) /\ counter' = counter + 1 /\ Goto(c, x)
      /\ mem' = mem /\ disk' = disk /\ dirty' = dirty /\ todo' = todo /\ kept' = kept
      /\ covered' = covered /\ durable' = durable /\ call[c].pc = "idle"
  BY Zenon DEF CreateTable, catalog, checkpointer
<1>2. /\ Types /\ Store /\ counter \in Nat /\ kept \subseteq DOMAIN decl
      /\ decl \in Seq(Declarations)
      /\ \A id \in DOMAIN decl : decl[id].after \subseteq DOMAIN decl
  BY Zenon DEF CatInv, Store, Types
<1>3. D \in Declarations /\ D.after = kept /\ D.nr_cols = n /\ counter + 1 \in Nat
  <2>1. DOMAIN decl \subseteq Nat
    <3>1. DOMAIN decl = 1 .. Len(decl) /\ Len(decl) \in Nat
      BY SMTT(20), Z3T(20), <1>2
    <3>. QED  BY SMTT(20), Z3T(20), <3>1
  <2>2. kept \in SUBSET Nat
    BY ZenonT(20), <1>2, <2>1
  <2>3. counter + 1 \in Nat \ {0}
    BY SMTT(20), Z3T(20), <1>2
  <2>. QED  BY SMTT(20), Z3T(20), <2>2, <2>3 DEF Declarations
<1> HIDE DEF D
<1>4. /\ decl' \in Seq(Declarations) /\ Len(decl) \in Nat /\ Len(decl') = new
      /\ Begins(decl, decl') /\ decl'[new] = D
      /\ DOMAIN decl = 1 .. Len(decl) /\ DOMAIN decl' = 1 .. new
  BY ZenonT(120), <1>1, <1>2, <1>3, Appended
<1>5. /\ \A id \in DOMAIN decl' : id \in DOMAIN decl \/ id = new
      /\ new \in DOMAIN decl' /\ new \notin DOMAIN decl /\ Len(decl') \in Nat
      /\ 1 \in 1 .. n /\ 1 .. 0 = {} /\ 1 - 1 = 0
  <2> HIDE DEF x
  <2>. QED  BY <1>4
<1>6. Declares(decl, decl')
  BY Zenon, <1>2, <1>4 DEF Declares
<1>7. \A id \in DOMAIN decl : id \in DOMAIN decl' /\ decl'[id] = decl[id]
  <2>1. SameIn(decl, decl')
    BY ZenonT(20), <1>6, DeclaredStays
  <2>. QED  BY Zenon, <2>1 DEF SameIn
<1>8. /\ \A id \in DOMAIN decl' : decl'[id].after \subseteq DOMAIN decl
      /\ DOMAIN decl \subseteq DOMAIN decl'
  BY ZenonT(20), <1>2, <1>3, <1>4, <1>5, <1>7
<1>9. \A p \in Pages : Begins(mem[p].rows, mem[p].rows) /\ Len(mem[p].rows) \in Nat
  BY ZenonT(20), <1>2, RowTypes, BeginsSelf
<1>10. \A p \in Pages : Begins(disk[p].rows, disk[p].rows) /\ Len(disk[p].rows) \in Nat
  BY ZenonT(20), <1>2, RowTypes, BeginsSelf
<1>11. Store'
  <2>1. Types'
    <3>1. kept \subseteq DOMAIN decl' /\ \A id \in DOMAIN decl' : decl'[id].after \subseteq DOMAIN decl'
      BY ZenonT(20), <1>2, <1>8
    <3>. QED  BY ZenonT(20), <1>1, <1>2, <1>3, <1>4, <3>1 DEF Types
  <2>2. RoomInv' /\ DiskInv'
    BY ZenonT(20), <1>1, <1>2 DEF Store, RoomInv, DiskInv
  <2>3. ObjectsOK(mem["objects"].rows, decl', kept)
    <3>1. ObjectsOK(mem["objects"].rows, decl, kept) /\ Len(mem["objects"].rows) \in Nat
      BY ZenonT(20), <1>2, <1>9, PageNames DEF Store, RowsInv
    <3>. QED  BY ZenonT(20), <1>6, <3>1, MoreDeclared
  <2>4. TablesOK(mem["tables"].rows, decl') /\ ColumnsOK(mem["columns"].rows, decl')
    <3>1. TablesOK(mem["tables"].rows, decl) /\ Len(mem["tables"].rows) \in Nat
      BY ZenonT(40), <1>2, <1>9, PageNames DEF Store, RowsInv
    <3>2. ColumnsOK(mem["columns"].rows, decl) /\ Len(mem["columns"].rows) \in Nat
      BY ZenonT(40), <1>2, <1>9, PageNames DEF Store, RowsInv
    <3>. QED  BY ZenonT(20), <1>6, <3>1, <3>2, MoreDeclared
  <2>5. RowsInv'
    BY ZenonT(20), <1>1, <2>3, <2>4 DEF RowsInv
  <2>6. KeptInv'
    <3>1. \A p \in Pages : \A id \in kept : Has(mem[p].rows, p, decl', id)
      BY ZenonT(20), <1>2, <1>6, <1>9, HasGrows DEF Store, KeptInv
    <3>2. \A p \in Pages, id \in DOMAIN decl :
            Has(disk[p].rows, p, decl, id) => Has(disk[p].rows, p, decl', id)
      BY ZenonT(20), <1>6, <1>10, HasGrows
    <3>3. durable \subseteq DOMAIN decl /\ covered \subseteq DOMAIN decl
      BY ZenonT(20), <1>2 DEF Types
    <3>. QED  BY ZenonT(20), <1>1, <1>2, <3>1, <3>2, <3>3 DEF Store, KeptInv
  <2>. QED  BY ZenonT(20), <2>1, <2>2, <2>5, <2>6 DEF Store
<1>12. Grows(mem, mem) /\ \A id : NoneAdded(mem["columns"].rows, mem["columns"].rows, id)
  BY Zenon, <1>9 DEF Grows, NoneAdded
<1>13. x.pc = "objects" /\ x.id = new /\ NextColumn(x) = 1
  BY SMTT(20), Z3T(20), <1>4 DEF NextColumn
<1> HIDE DEF x
<1>14. MakesTable(x, mem, decl', kept)
  <2>1. MakesOwn(x, decl', kept)
    BY ZenonT(20), <1>2, <1>5, <1>8, <1>13 DEF MakesOwn
  <2>2. \A i \in 1 .. Len(mem["columns"].rows) : mem["columns"].rows[i].def # x.id
    <3>1. ColumnsOK(mem["columns"].rows, decl)
      BY ZenonT(20), <1>2 DEF Store, RowsInv
    <3>2. \A i \in 1 .. Len(mem["columns"].rows) : mem["columns"].rows[i].def \in DOMAIN decl
      BY ZenonT(20), <3>1, DefDeclared
    <3>. QED  BY ZenonT(20), <1>5, <1>13, <3>2
  <2>3. 1 \in 1 .. decl'[x.id].nr_cols
    BY ZenonT(20), <1>3, <1>4, <1>5, <1>13
  <2>4. \A k \in 1 .. NextColumn(x) - 1 : FALSE
    BY <1>13
  <2>5. HasColumns(x, mem["columns"].rows, decl')
    BY ZenonT(20), <1>13, <2>2, <2>3, <2>4 DEF HasColumns
  <2>6. "objects" # "columns"
    OBVIOUS
  <2>. QED  BY ZenonT(20), <1>13, <2>1, <2>5, <2>6 DEF MakesTable
<1>15. /\ DOMAIN call' = Clients /\ call'[c] = x
       /\ \A o \in Clients : o # c => call'[o] = call[o]
  BY ZenonT(20), <1>1, GotoEffect DEF CatInv, Calls
<1>16. CallTypes'
  BY ZenonT(20), <1>13, <1>15, PageNames DEF CatInv, Calls, CallTypes
<1>17. ASSUME NEW o \in Clients, o # c, Making(call[o])
       PROVE  MakesTable(call[o], mem, decl', kept) /\ call[o].id # new
  <2>1. MakesTable(call[o], mem, decl, kept)
    BY Zenon, <1>17 DEF CatInv, Calls, MakersInv
  <2>2. /\ call[o].id \in DOMAIN decl /\ call[o].id \notin kept
        /\ \A id \in DOMAIN decl : call[o].id \notin decl[id].after
    BY Zenon, <2>1 DEF MakesTable, MakesOwn
  <2>3. \A id \in DOMAIN decl' : call[o].id \notin decl'[id].after
    BY ZenonT(20), <1>3, <1>4, <1>5, <1>7, <2>2
  <2>4. MakesTable(call[o], mem, decl', kept)
    BY ZenonT(20), <1>6, <1>12, <2>1, <2>2, <2>3, MakesStays
  <2>. QED  BY ZenonT(20), <1>5, <2>2, <2>4
<1>18. MakersInv'
  <2>1. \A o \in Clients : Making(call'[o]) => MakesTable(call'[o], mem', decl', kept')
    BY ZenonT(20), <1>1, <1>14, <1>15, <1>17
  <2>2. ASSUME NEW o \in Clients, NEW q \in Clients, Making(call'[o]), Making(call'[q]), o # q
        PROVE  call'[o].id # call'[q].id
    <3>1. CASE o = c
      BY ZenonT(20), <1>13, <1>15, <1>17, <2>2, <3>1
    <3>2. CASE q = c
      BY ZenonT(20), <1>13, <1>15, <1>17, <2>2, <3>2
    <3>3. CASE o # c /\ q # c
      BY ZenonT(20), <1>15, <2>2, <3>3 DEF CatInv, Calls, MakersInv
    <3>. QED  BY ZenonT(20), <3>1, <3>2, <3>3
  <2>. QED  BY ZenonT(20), <2>1, <2>2 DEF MakersInv
<1>19. OpeningInv'
  <2>1. ~ Opening(x)
    BY Zenon, <1>13, PageNames DEF Opening
  <2>2. ASSUME NEW o \in Clients, Opening(call'[o]) PROVE OpensTable(call'[o], decl', kept')
    <3>1. call'[o] = call[o]
      BY ZenonT(20), <1>15, <2>1, <2>2
    <3>2. OpensTable(call[o], decl, kept)
      BY ZenonT(20), <2>2, <3>1 DEF CatInv, Calls, OpeningInv
    <3>3. OpensTable(call[o], decl', kept)
      BY ZenonT(20), <1>2, <1>6, <3>2, OpensStays
    <3>. QED  BY ZenonT(20), <1>1, <3>1, <3>3
  <2>. QED  BY Zenon, <2>2 DEF OpeningInv
<1>. QED  BY ZenonT(20), <1>11, <1>16, <1>18, <1>19 DEF CatInv, Calls

-----------------------------------------------------------------------------
(* The opening of a table. *)

\* A call that returns has nothing left to keep.
LEMMA ReturnStep ==
  ASSUME CatInv, NEW c \in Clients, Goto(c, Idle), SameStore, counter' \in Nat
  PROVE  CatInv'
<1>1. Idle.pc \in {"idle", "found", "row", "opened"} /\ ~ Opening(Idle)
  BY DEF Idle, Opening
<1>. QED  BY ZenonT(20), <1>1, CallStep

\* A call that changes nothing but itself.
LEMMA OpenFrame ==
  ASSUME CatInv, UNCHANGED <<catalog, counter, decl, checkpointer, kept, restarts>>
  PROVE  SameStore /\ counter' \in Nat
<1>1. counter \in Nat
  BY Zenon DEF CatInv, Store, Types
<1>. QED  BY Zenon, <1>1 DEF SameStore, catalog, checkpointer

\* A CREATE TABLE that runs out of room keeps the invariant.
LEMMA CreateFailsStep ==
  ASSUME CatInv, NEW c \in Clients, CreateFails(c)
  PROVE  CatInv'
<1>1. counter \in Nat
  BY Zenon DEF CatInv, Store, Types
<1>2. counter + 1 \in Nat
  BY <1>1
<1>3. Goto(c, Idle) /\ SameStore /\ counter' \in Nat
  BY ZenonT(20), <1>1, <1>2 DEF CreateFails, SameStore, catalog, checkpointer
<1>. QED  BY ZenonT(20), <1>3, ReturnStep

\* An oid of sys.objects is of the catalog's own tables or of a creation.
LEMMA ObjectKnown ==
  ASSUME Store, NEW i \in 1 .. Len(mem["objects"].rows)
  PROVE  /\ mem["objects"].rows[i].oid \in Int
         /\ KnownOid(mem["objects"].rows[i].oid, decl)
<1> DEFINE rows == mem["objects"].rows
<1>1. IsObject(rows, i, decl, kept)
  BY Zenon DEF Store, RowsInv, ObjectsOK
<1> HIDE DEF rows
<1>2. CASE \E k \in DOMAIN SysNames : rows[i] = ObjectRow(-k, SysNames[k])
  <2>1. PICK k \in DOMAIN SysNames : rows[i] = ObjectRow(-k, SysNames[k])
    BY Zenon, <1>2
  <2>2. k \in Nat \ {0}
    <3>1. SysNames \in Seq(Names)
      BY Zenon, CatalogAssumption
    <3>. QED  BY <3>1
  <2>3. rows[i].oid = -k
    BY SMTT(20), Z3T(20), <2>1 DEF ObjectRow
  <2>4. rows[i].oid \in Int /\ rows[i].oid < 0
    BY SMTT(20), Z3T(20), <2>2, <2>3
  <2>. QED  BY Zenon, <2>4 DEF KnownOid, rows
<1>3. CASE \E id \in DOMAIN decl : rows[i] = ObjectOf(decl, id)
  <2>1. PICK id \in DOMAIN decl : rows[i] = ObjectOf(decl, id)
    BY ZenonT(20), <1>3
  <2>2. rows[i].oid = decl[id].oid
    BY SMTT(20), Z3T(20), <2>1 DEF ObjectOf, ObjectRow
  <2>3. decl[id].oid \in Nat \ {0}
    BY Zenon, DeclTypes DEF Store
  <2>4. rows[i].oid \in Int
    BY SMTT(20), Z3T(20), <2>2, <2>3
  <2>. QED  BY ZenonT(20), <2>2, <2>4 DEF KnownOid, rows
<1>. QED  BY ZenonT(20), <1>1, <1>2, <1>3 DEF IsObject

\* A row of sys.tables is of the catalog's own tables or of a creation.
LEMMA TableKnown ==
  ASSUME Store, NEW i \in 1 .. Len(mem["tables"].rows)
  PROVE  LET row == mem["tables"].rows[i]
         IN  ~ (row.oid >= 0) \/ (row.root \in DOMAIN decl /\ row = TableOf(decl, row.root)
                                /\ decl[row.root].oid = row.oid)
<1> DEFINE row == mem["tables"].rows[i]
<1>1. \/ \E k \in DOMAIN SysNames : row = TableRow(-k, -k)
      \/ \E id \in DOMAIN decl : row = TableOf(decl, id)
  BY Zenon DEF Store, RowsInv, TablesOK, IsTable
<1> HIDE DEF row
<1>2. CASE \E k \in DOMAIN SysNames : row = TableRow(-k, -k)
  <2>1. PICK k \in DOMAIN SysNames : row = TableRow(-k, -k)
    BY ZenonT(20), <1>2
  <2>2. k \in Nat \ {0}
    <3>1. SysNames \in Seq(Names)
      BY Zenon, CatalogAssumption
    <3>. QED  BY <3>1
  <2>3. row.oid = -k
    BY SMTT(20), Z3T(20), <2>1 DEF TableRow
  <2>4. ~ (row.oid >= 0)
    BY SMTT(20), Z3T(20), <2>2, <2>3
  <2>. QED  BY Zenon, <2>4 DEF row
<1>3. CASE \E id \in DOMAIN decl : row = TableOf(decl, id)
  <2>1. PICK id \in DOMAIN decl : row = TableOf(decl, id)
    BY ZenonT(20), <1>3
  <2>2. row.oid = decl[id].oid /\ row.root = id
    BY SMTT(20), Z3T(20), <2>1 DEF TableOf, TableRow
  <2>. QED  BY ZenonT(20), <2>1, <2>2 DEF row
<1>. QED  BY ZenonT(20), <1>1, <1>2, <1>3

\* Finding an oid keeps the invariant.
LEMMA FindStep ==
  ASSUME CatInv, NEW c \in Clients, NEW name \in Names, Find(c, name)
  PROVE  CatInv'
<1>1. SameStore /\ counter' \in Nat
  <2>1. UNCHANGED <<catalog, counter, decl, checkpointer, kept, restarts>>
    BY Zenon DEF Find
  <2>. QED  BY ZenonT(20), <2>1, OpenFrame
<1>2. PICK oid \in FindTableOidByName(name) :
        Goto(c, [pc |-> "found", oid |-> oid, whole |-> Acknowledged(oid)])
  BY Zenon DEF Find
<1> DEFINE x == [pc |-> "found", oid |-> oid, whole |-> Acknowledged(oid)]
<1>3. /\ x.pc = "found" /\ x.oid = oid /\ x.whole = Acknowledged(oid)
      /\ x.pc \in {"idle", "found", "row", "opened"} /\ x.pc # "opened"
  OBVIOUS
<1>4. Goto(c, x)
  BY Zenon, <1>2
<1> HIDE DEF x
<1>5. PICK i \in DOMAIN mem["objects"].rows : oid = mem["objects"].rows[i].oid
  BY Zenon DEF FindTableOidByName, FirstOf, ObjectSlots
<1>6. i \in 1 .. Len(mem["objects"].rows)
  BY ZenonT(20), <1>5, RowTypes, PageNames DEF CatInv, Store
<1>7. oid \in Int /\ KnownOid(oid, decl)
  BY ZenonT(20), <1>5, <1>6, ObjectKnown DEF CatInv
<1>8. x.whole => \E id \in kept : decl[id].oid = x.oid
  BY Zenon, <1>3 DEF Acknowledged
<1>9. OpensTable(x, decl, kept)
  BY ZenonT(20), <1>3, <1>7, <1>8 DEF OpensTable, HasRead
<1>. QED  BY ZenonT(20), <1>1, <1>3, <1>4, <1>9, CallStep

\* Reading the table's row keeps the invariant.
LEMMA RelationOpenStep ==
  ASSUME CatInv, NEW c \in Clients, RelationOpen(c)
  PROVE  CatInv'
<1>1. SameStore /\ counter' \in Nat
  <2>1. UNCHANGED <<catalog, counter, decl, checkpointer, kept, restarts>>
    BY Zenon DEF RelationOpen
  <2>. QED  BY ZenonT(20), <2>1, OpenFrame
<1> DEFINE y == call[c]
<1>2. PICK root \in GetSysTableRow(y.oid) :
        Goto(c, [pc |-> "row", oid |-> y.oid, whole |-> y.whole, root |-> root])
  BY Zenon DEF RelationOpen
<1> DEFINE x == [pc |-> "row", oid |-> y.oid, whole |-> y.whole, root |-> root]
<1>3. y.pc = "found" /\ Opening(y)
  BY Zenon DEF RelationOpen, Opening
<1>4. /\ x.pc = "row" /\ x.oid = y.oid /\ x.whole = y.whole /\ x.root = root
      /\ x.pc \in {"idle", "found", "row", "opened"} /\ x.pc # "opened"
  OBVIOUS
<1>5. Goto(c, x)
  BY Zenon, <1>2
<1>6. OpensTable(y, decl, kept) /\ y.pc # "opened"
  <2>1. "found" # "opened"
    OBVIOUS
  <2>. QED  BY ZenonT(20), <1>3, <2>1 DEF CatInv, Calls, OpeningInv
<1> HIDE DEF x, y
<1>7. PICK i \in DOMAIN mem["tables"].rows :
        root = mem["tables"].rows[i].root /\ mem["tables"].rows[i].oid = y.oid
  BY Zenon DEF GetSysTableRow, FirstOf, TableSlots
<1>8. i \in 1 .. Len(mem["tables"].rows)
  BY ZenonT(20), <1>7, RowTypes, PageNames DEF CatInv, Store
<1>9. ~ (x.oid >= 0) \/ (x.root \in DOMAIN decl /\ decl[x.root].oid = x.oid)
  BY ZenonT(20), <1>4, <1>7, <1>8, TableKnown DEF CatInv
<1>10. OpensTable(x, decl, kept)
  <2>1. y.oid \in Int /\ KnownOid(y.oid, decl) /\ (y.whole => \E id \in kept : decl[id].oid = y.oid)
    BY Zenon, <1>6 DEF OpensTable, HasRead
  <2>. QED  BY ZenonT(20), <1>4, <1>9, <2>1 DEF OpensTable, HasRead
<1>. QED  BY ZenonT(20), <1>1, <1>4, <1>5, <1>10, CallStep

\* Reading the table's columns keeps the invariant.
LEMMA RelationOpenedStep ==
  ASSUME CatInv, NEW c \in Clients, RelationOpened(c)
  PROVE  CatInv'
<1>1. SameStore /\ counter' \in Nat
  <2>1. UNCHANGED <<catalog, counter, decl, checkpointer, kept, restarts>>
    BY Zenon DEF RelationOpened
  <2>. QED  BY Zenon, <2>1, OpenFrame
<1> DEFINE y == call[c]
           x == [pc |-> "opened", oid |-> y.oid, whole |-> y.whole, root |-> y.root,
                 schema |-> BuildSchemaFromColumns(y.oid)]
<1>2. y.pc = "row" /\ Opening(y) /\ Goto(c, x)
  BY Zenon DEF RelationOpened, Opening
<1> DEFINE schema == BuildSchemaFromColumns(y.oid)
<1> HIDE DEF schema
<1>3. /\ x.pc = "opened" /\ x.oid = y.oid /\ x.whole = y.whole /\ x.root = y.root
      /\ x.schema = schema /\ x.pc \in {"idle", "found", "row", "opened"}
  BY DEF schema
<1>4. OpensTable(y, decl, kept) /\ y.pc # "opened" /\ y.pc # "found"
  <2>1. "row" # "opened" /\ "row" # "found"
    OBVIOUS
  <2>. QED  BY ZenonT(20), <1>2, <2>1 DEF CatInv, Calls, OpeningInv
<1> HIDE DEF x, y
<1>5. /\ y.oid \in Int /\ KnownOid(y.oid, decl)
      /\ y.whole => \E id \in kept : decl[id].oid = y.oid
      /\ y.oid >= 0 => y.root \in DOMAIN decl /\ decl[y.root].oid = y.oid
  BY Zenon, <1>4 DEF OpensTable, HasRead
<1>6. HasRead(x, decl, kept)
  BY Zenon, <1>3, <1>5 DEF HasRead
<1>7. HasOpened(x, decl)
  <2> SUFFICES ASSUME NEW id \in DOMAIN decl, decl[id].oid = x.oid, Own(decl, id)
               PROVE  /\ \E n \in 0 .. decl[id].nr_cols : x.schema = Columns(id, n)
                      /\ x.whole => x.schema = Columns(id, decl[id].nr_cols)
    BY Zenon DEF HasOpened
  <2>1. x.schema = BuildSchemaFromColumns(decl[id].oid)
    BY ZenonT(20), <1>3 DEF schema
  <2>2. PICK n \in 0 .. decl[id].nr_cols :
          /\ BuildSchemaFromColumns(decl[id].oid) = Columns(id, n)
          /\ Has(mem["columns"].rows, "columns", decl, id) => n = decl[id].nr_cols
    BY Zenon, SchemaIsOwn DEF CatInv, Store
  <2>3. ASSUME x.whole PROVE n = decl[id].nr_cols
    <3>1. PICK o \in kept : decl[o].oid = x.oid
      BY ZenonT(20), <1>3, <1>5, <2>3
    <3>2. o = id
      <4>1. o \in DOMAIN decl
        BY Zenon DEF CatInv, Store, Types
      <4>. QED  BY Zenon, <3>1, <4>1 DEF Own
    <3>3. Has(mem["columns"].rows, "columns", decl, id)
      BY ZenonT(20), <3>2, PageNames DEF CatInv, Store, KeptInv
    <3>. QED  BY ZenonT(20), <2>2, <3>3
  <2>. QED  BY ZenonT(20), <2>1, <2>2, <2>3
<1>8. OpensTable(x, decl, kept)
  BY ZenonT(20), <1>6, <1>7 DEF OpensTable
<1>. QED  BY ZenonT(20), <1>1, <1>2, <1>3, <1>8, CallStep

-----------------------------------------------------------------------------
(* The checkpointer and the restarts. *)

\* A pass begins.
LEMMA PassStartStep ==
  ASSUME CatInv, PassStart
  PROVE  CatInv'
<1>1. /\ mem' = mem /\ disk' = disk /\ dirty' = dirty /\ decl' = decl /\ call' = call
      /\ kept' = kept /\ durable' = durable /\ counter' = counter
      /\ todo' = Pages /\ covered' = kept
  BY Zenon DEF PassStart, catalog
<1>2. Types'
  BY Zenon, <1>1 DEF CatInv, Store, Types
<1>3. RoomInv' /\ DiskInv' /\ RowsInv'
  BY Zenon, <1>1 DEF CatInv, Store, RoomInv, DiskInv, RowsInv
<1>4. KeptInv'
  BY Zenon, <1>1 DEF CatInv, Store, KeptInv
<1>5. Calls'
  BY Zenon, <1>1 DEF CatInv, Calls, CallTypes, MakersInv, OpeningInv
<1>. QED  BY ZenonT(20), <1>2, <1>3, <1>4, <1>5 DEF CatInv, Store

\* A page is visited, and written if it is dirty.
LEMMA PassPageStep ==
  ASSUME CatInv, NEW p \in Pages, PassPage(p)
  PROVE  CatInv'
<1>1. /\ mem' = mem /\ decl' = decl /\ call' = call /\ kept' = kept /\ counter' = counter
      /\ p \in todo /\ todo' = todo \ {p} /\ dirty' = dirty \ {p}
      /\ disk' = IF p \in dirty THEN [disk EXCEPT ![p] = mem[p]] ELSE disk
      /\ \/ todo' = {} /\ durable' = covered /\ covered' = {}
         \/ durable' = durable /\ covered' = covered
  BY Zenon DEF PassPage
<1>2. /\ Types /\ DiskInv /\ mem \in [Pages -> PageStates] /\ disk \in [Pages -> PageStates]
      /\ covered \subseteq kept /\ durable \subseteq kept /\ kept \subseteq DOMAIN decl
  BY Zenon DEF CatInv, Store, Types
<1>3. /\ disk' \in [Pages -> PageStates] /\ disk'[p].rows = mem[p].rows
      /\ \A q \in Pages : q # p => disk'[q] = disk[q]
  <2>1. CASE p \in dirty
    BY ZenonT(20), <1>1, <1>2, <2>1
  <2>2. CASE p \notin dirty
    BY ZenonT(20), <1>1, <1>2, <2>2 DEF DiskInv
  <2>. QED  BY Zenon, <2>1, <2>2
<1>4. Types'
  BY ZenonT(20), <1>1, <1>2, <1>3 DEF Types
<1>5. RoomInv' /\ RowsInv'
  BY ZenonT(20), <1>1 DEF CatInv, Store, RoomInv, RowsInv
<1>6. DiskInv'
  <2>1. Begins(mem[p].rows, mem[p].rows)
    BY ZenonT(20), <1>2, RowTypes, BeginsSelf
  <2>. QED  BY ZenonT(20), <1>1, <1>2, <1>3, <2>1 DEF DiskInv
<1>7. KeptInv'
  <2>1. \A q \in Pages, id \in kept :
          q = p \/ Has(disk[q].rows, q, decl, id) => Has(disk'[q].rows, q, decl, id)
    BY Zenon, <1>3 DEF CatInv, Store, KeptInv
  <2>2. \A q \in Pages \ todo' : \A id \in covered : Has(disk'[q].rows, q, decl, id)
    BY ZenonT(20), <1>1, <1>2, <2>1 DEF CatInv, Store, KeptInv
  <2>3. \A q \in Pages : \A id \in durable : Has(disk'[q].rows, q, decl, id)
    BY Zenon, <1>2, <2>1 DEF CatInv, Store, KeptInv
  <2>4. \A q \in Pages : \A id \in kept : Has(mem[q].rows, q, decl, id)
    BY Zenon DEF CatInv, Store, KeptInv
  <2>. QED  BY ZenonT(20), <1>1, <2>2, <2>3, <2>4 DEF KeptInv
<1>8. Calls'
  BY Zenon, <1>1 DEF CatInv, Calls, CallTypes, MakersInv, OpeningInv
<1>. QED  BY ZenonT(20), <1>4, <1>5, <1>6, <1>7, <1>8 DEF CatInv, Store

\* After a boot nobody is in a call.
LEMMA NoCalls ==
  ASSUME call' = [c \in Clients |-> Idle]
  PROVE  Calls'
<1>1. DOMAIN call' = Clients /\ \A c \in Clients : call'[c] = Idle
  BY Zenon
<1>2. ~ Making(Idle) /\ ~ Opening(Idle)
  BY DEF Idle, Making, Opening, Pages
<1>. QED  BY ZenonT(20), <1>1, <1>2, PageNames DEF Calls, CallTypes, MakersInv, OpeningInv

\* A restart from the pages as they were saved.
LEMMA RestartStep ==
  ASSUME CatInv, Restart
  PROVE  CatInv'
<1>1. /\ mem' = disk /\ disk' = disk /\ dirty' = {} /\ decl' = decl /\ counter' = 0
      /\ kept' = durable /\ durable' = durable /\ covered' = {} /\ todo' = {}
      /\ call' = [c \in Clients |-> Idle]
  BY Zenon DEF Restart, Down
<1>2. Types /\ durable \subseteq kept /\ kept \subseteq DOMAIN decl
  BY Zenon DEF CatInv, Store, Types
<1>3. \A p \in Pages : /\ Len(disk[p].rows) \in Nat /\ Len(mem[p].rows) \in Nat
                       /\ Begins(disk[p].rows, mem[p].rows)
                       /\ Begins(disk[p].rows, disk[p].rows)
  BY ZenonT(20), <1>2, RowTypes, BeginsSelf DEF CatInv, Store, DiskInv
<1>4. Types'
  <2>1. 0 \in Nat
    OBVIOUS
  <2>. QED  BY ZenonT(20), <1>1, <1>2, <2>1 DEF Types
<1>5. RoomInv'
  <2> SUFFICES ASSUME NEW p \in Pages PROVE Len(disk[p].rows) <= PageRows[p]
    BY Zenon, <1>1 DEF RoomInv
  <2>1. /\ Len(disk[p].rows) <= Len(mem[p].rows) /\ Len(mem[p].rows) <= PageRows[p]
        /\ Len(disk[p].rows) \in Nat /\ Len(mem[p].rows) \in Nat /\ PageRows[p] \in Nat
    BY ZenonT(20), <1>3, CatalogAssumption DEF CatInv, Store, RoomInv, Begins
  <2>. QED  BY SMTT(20), Z3T(20), <2>1
<1>6. DiskInv'
  BY ZenonT(20), <1>1, <1>3 DEF DiskInv
<1>7. RowsInv'
  <2>1. Declares(decl, decl) /\ \A id \in DOMAIN decl : decl[id].after \intersect durable \subseteq kept
    BY Zenon, <1>2, DeclaresSelf DEF Types
  <2>2. ObjectsOK(disk["objects"].rows, decl, durable)
    <3>1. ObjectsOK(mem["objects"].rows, decl, kept)
      BY Zenon DEF CatInv, Store, RowsInv
    <3>2. /\ Len(disk["objects"].rows) \in Nat /\ Len(mem["objects"].rows) \in Nat
          /\ Begins(disk["objects"].rows, mem["objects"].rows)
      BY Zenon, <1>3, PageNames
    <3>. QED  BY ZenonT(60), <2>1, <3>1, <3>2, KeepsOthers
  <2>3. TablesOK(disk["tables"].rows, decl)
    <3>1. TablesOK(mem["tables"].rows, decl)
      BY Zenon DEF CatInv, Store, RowsInv
    <3>2. /\ Len(disk["tables"].rows) \in Nat /\ Len(mem["tables"].rows) \in Nat
          /\ Begins(disk["tables"].rows, mem["tables"].rows)
      BY Zenon, <1>3, PageNames
    <3>. QED  BY ZenonT(20), <2>1, <3>1, <3>2, ShorterOK
  <2>4. ColumnsOK(disk["columns"].rows, decl)
    <3>1. ColumnsOK(mem["columns"].rows, decl)
      BY Zenon DEF CatInv, Store, RowsInv
    <3>2. /\ Len(disk["columns"].rows) \in Nat /\ Len(mem["columns"].rows) \in Nat
          /\ Begins(disk["columns"].rows, mem["columns"].rows)
      BY Zenon, <1>3, PageNames
    <3>. QED  BY ZenonT(20), <2>1, <3>1, <3>2, ShorterOK
  <2>. QED  BY ZenonT(20), <1>1, <2>2, <2>3, <2>4 DEF RowsInv
<1>8. KeptInv'
  BY Zenon, <1>1 DEF CatInv, Store, KeptInv
<1>9. Calls'
  BY Zenon, <1>1, NoCalls
<1>. QED  BY ZenonT(20), <1>4, <1>5, <1>6, <1>7, <1>8, <1>9 DEF CatInv, Store

\* The pages after the bootstrap hold the catalog's own tables.
LEMMA BootFacts ==
  /\ Bootstrapped \in [Pages -> PageStates]
  /\ [p \in Pages |-> Blank] \in [Pages -> PageStates]
  /\ BootstrapMarks \subseteq Pages
  /\ \A p \in Pages :
       /\ Len(Bootstrapped[p].rows) <= PageRows[p]
       /\ Begins([q \in Pages |-> Blank][p].rows, Bootstrapped[p].rows)
       /\ p \notin BootstrapMarks => [q \in Pages |-> Blank][p].rows = Bootstrapped[p].rows
  /\ \A d, K : ObjectsOK(Bootstrapped["objects"].rows, d, K)
  /\ \A d : TablesOK(Bootstrapped["tables"].rows, d) /\ ColumnsOK(Bootstrapped["columns"].rows, d)
<1> DEFINE O == [i \in DOMAIN SysNames |-> ObjectRow(-i, SysNames[i])]
           T == [i \in DOMAIN SysNames |-> TableRow(-i, -i)]
           n == Len(SysNames)
<1>1. /\ SysNames \in Seq(Names) /\ n \in Nat /\ DOMAIN SysNames = 1 .. n
      /\ \A i \in DOMAIN SysNames : -i \in Int /\ SysNames[i] \in Names
      /\ n <= PageRows["objects"] /\ n <= PageRows["tables"]
      /\ PageRows["columns"] \in Nat
  <2>1. SysNames \in Seq(Names) /\ n <= PageRows["objects"] /\ n <= PageRows["tables"]
        /\ PageRows["columns"] \in Nat
    BY Zenon, CatalogAssumption, PageNames
  <2>. QED  BY SMTT(20), Z3T(20), <2>1
<1>2. \A i \in DOMAIN SysNames : /\ ObjectRow(-i, SysNames[i]) \in AnyRow
                               /\ TableRow(-i, -i) \in AnyRow
  <2>1. \A i \in DOMAIN SysNames : ObjectRow(-i, SysNames[i]) \in ObjectRows
    BY SMTT(20), Z3T(20), <1>1 DEF ObjectRow, ObjectRows
  <2>2. \A i \in DOMAIN SysNames : TableRow(-i, -i) \in TableRows
    BY SMTT(20), Z3T(20), <1>1 DEF TableRow, TableRows
  <2>. QED  BY ZenonT(20), <2>1, <2>2 DEF AnyRow
<1>3. /\ Bootstrapped["objects"] = Formatted(O) /\ Bootstrapped["tables"] = Formatted(T)
      /\ Bootstrapped["columns"] = Formatted(<<>>)
      /\ Bootstrapped = [p \in Pages |-> Bootstrapped[p]]
  BY DEF Bootstrapped, Pages
<1>4. \A f : Formatted(f).rows = f /\ (f \in Seq(AnyRow) => Formatted(f) \in PageStates)
  BY SMTT(20), Z3T(20) DEF Formatted, PageStates
<1>5. O \in Seq(AnyRow) /\ Len(O) = n /\ (n = 0 => O = <<>>)
  BY SMTT(20), Z3T(20), <1>1, <1>2
<1>6. T \in Seq(AnyRow) /\ Len(T) = n /\ (n = 0 => T = <<>>)
  BY SMTT(20), Z3T(20), <1>1, <1>2
<1>7. /\ <<>> \in Seq(AnyRow) /\ Len(<<>>) = 0 /\ Blank.rows = <<>> /\ Blank \in PageStates
      /\ SysNames = <<>> => n = 0
  BY DEF Blank, PageStates
<1>8. /\ \A i \in 1 .. Len(O) : O[i] = ObjectRow(-i, SysNames[i]) /\ i \in DOMAIN SysNames
      /\ \A i \in 1 .. Len(T) : T[i] = TableRow(-i, -i) /\ i \in DOMAIN SysNames
  BY ZenonT(20), <1>1, <1>5, <1>6
<1> HIDE DEF O, T, n
<1>9. /\ Bootstrapped["objects"].rows = O /\ Bootstrapped["tables"].rows = T
      /\ Bootstrapped["columns"].rows = <<>>
      /\ \A p \in Pages : [q \in Pages |-> Blank][p].rows = <<>>
  BY ZenonT(20), <1>3, <1>4, <1>7
<1>10. Bootstrapped \in [Pages -> PageStates]
  <2>1. /\ Bootstrapped["objects"] \in PageStates /\ Bootstrapped["tables"] \in PageStates
        /\ Bootstrapped["columns"] \in PageStates
    BY ZenonT(20), <1>3, <1>4, <1>5, <1>6, <1>7
  <2>2. \A p \in Pages : Bootstrapped[p] \in PageStates
    BY Zenon, <2>1, PageNames
  <2>. QED  BY ZenonT(20), <1>3, <2>2
<1>11. [p \in Pages |-> Blank] \in [Pages -> PageStates] /\ BootstrapMarks \subseteq Pages
  BY ZenonT(20), <1>7, PageNames DEF BootstrapMarks
<1>12. \A p \in Pages : Len(Bootstrapped[p].rows) <= PageRows[p]
  <2>1. 0 <= PageRows["columns"]
    BY SMTT(20), Z3T(20), <1>1
  <2>2. /\ Len(Bootstrapped["objects"].rows) <= PageRows["objects"]
        /\ Len(Bootstrapped["tables"].rows) <= PageRows["tables"]
        /\ Len(Bootstrapped["columns"].rows) <= PageRows["columns"]
    BY ZenonT(20), <1>1, <1>5, <1>6, <1>7, <1>9, <2>1
  <2>. QED  BY ZenonT(20), <2>2, PageNames
<1>13. \A p \in Pages : Begins([q \in Pages |-> Blank][p].rows, Bootstrapped[p].rows)
  <2>1. /\ Len(Bootstrapped["objects"].rows) \in Nat /\ Len(Bootstrapped["tables"].rows) \in Nat
        /\ Len(Bootstrapped["columns"].rows) \in Nat
    <3>1. 0 \in Nat
      OBVIOUS
    <3>. QED  BY ZenonT(20), <1>1, <1>5, <1>6, <1>7, <1>9, <3>1
  <2>2. \A p \in Pages : Len(Bootstrapped[p].rows) \in Nat
    BY Zenon, <2>1, PageNames
  <2>3. \A f : Len(f) \in Nat => Begins(<<>>, f)
    BY DEF Begins
  <2>. QED  BY ZenonT(20), <1>9, <2>2, <2>3
<1>14. \A p \in Pages :
         p \notin BootstrapMarks => [q \in Pages |-> Blank][p].rows = Bootstrapped[p].rows
  <2>1. SysNames = <<>> => O = <<>> /\ T = <<>>
    BY ZenonT(20), <1>5, <1>6, <1>7
  <2>2. \A p \in Pages : p \notin BootstrapMarks => p = "columns" \/ SysNames = <<>>
    BY Zenon, PageNames DEF BootstrapMarks
  <2>3. SysNames = <<>> => \A p \in Pages : Bootstrapped[p].rows = <<>>
    BY ZenonT(20), <1>9, <2>1, PageNames
  <2>. QED  BY ZenonT(20), <1>9, <2>2, <2>3
<1>15. \A d, K : ObjectsOK(Bootstrapped["objects"].rows, d, K)
  BY ZenonT(20), <1>8, <1>9 DEF ObjectsOK, IsObject
<1>16. \A d : TablesOK(Bootstrapped["tables"].rows, d)
  BY ZenonT(20), <1>8, <1>9 DEF TablesOK, IsTable
<1>17. \A d : ColumnsOK(Bootstrapped["columns"].rows, d)
  <2>1. \A i \in 1 .. 0 : FALSE
    OBVIOUS
  <2>. QED  BY ZenonT(20), <1>7, <1>9, <2>1 DEF ColumnsOK
<1>. QED  BY ZenonT(20), <1>10, <1>11, <1>12, <1>13, <1>14, <1>15, <1>16, <1>17

\* A boot that takes the device for a new one.
LEMMA RestartFreshStep ==
  ASSUME CatInv, RestartFresh
  PROVE  CatInv'
<1>1. /\ mem' = Bootstrapped /\ disk' = [p \in Pages |-> Blank] /\ dirty' = BootstrapMarks
      /\ decl' = decl /\ counter' = 0 /\ kept' = {} /\ durable' = {} /\ covered' = {}
      /\ todo' = {} /\ call' = [c \in Clients |-> Idle]
  BY Zenon DEF RestartFresh, Down
<1>2. Types'
  <2>1. 0 \in Nat
    OBVIOUS
  <2>. QED  BY ZenonT(20), <1>1, <2>1, BootFacts DEF CatInv, Store, Types
<1>3. RoomInv' /\ DiskInv'
  BY ZenonT(20), <1>1, BootFacts DEF RoomInv, DiskInv
<1>4. RowsInv' /\ KeptInv'
  BY ZenonT(20), <1>1, BootFacts DEF RowsInv, KeptInv
<1>5. Calls'
  BY Zenon, <1>1, NoCalls
<1>. QED  BY ZenonT(20), <1>2, <1>3, <1>4, <1>5 DEF CatInv, Store

\* The first boot.
LEMMA InitCatInv == Init => CatInv
<1> SUFFICES ASSUME Init PROVE CatInv
  OBVIOUS
<1>1. /\ mem = Bootstrapped /\ disk = [p \in Pages |-> Blank] /\ dirty = BootstrapMarks
      /\ decl = <<>> /\ counter = 0 /\ kept = {} /\ durable = {} /\ covered = {}
      /\ todo = {} /\ call = [c \in Clients |-> Idle]
  BY Zenon DEF Init
<1>2. Types
  <2>1. 0 \in Nat /\ <<>> \in Seq(Declarations) /\ DOMAIN <<>> = {}
    OBVIOUS
  <2>. QED  BY ZenonT(20), <1>1, <2>1, BootFacts DEF Types
<1>3. RoomInv /\ DiskInv
  BY Zenon, <1>1, BootFacts DEF RoomInv, DiskInv
<1>4. RowsInv /\ KeptInv
  BY ZenonT(20), <1>1, BootFacts DEF RowsInv, KeptInv
<1>5. Calls
  <2>1. DOMAIN call = Clients /\ \A c \in Clients : call[c] = Idle
    BY Zenon, <1>1
  <2>2. ~ Making(Idle) /\ ~ Opening(Idle)
    BY DEF Idle, Making, Opening, Pages
  <2>. QED  BY ZenonT(20), <2>1, <2>2, PageNames DEF Calls, CallTypes, MakersInv, OpeningInv
<1>. QED  BY ZenonT(20), <1>2, <1>3, <1>4, <1>5 DEF CatInv, Store

-----------------------------------------------------------------------------
(* The invariant, and what it says. *)

\* Every action keeps the invariant.
LEMMA NextCatInv ==
  ASSUME CatInv, Next
  PROVE  CatInv'
<1>1. ASSUME NEW c \in Clients, Create(c) PROVE CatInv'
  <2>1. ASSUME NEW name \in Names, NEW n \in 1 .. MaxCols, CreateTable(c, name, n)
        PROVE  CatInv'
    BY Zenon, <2>1, CreateTableStep
  <2>. QED  BY ZenonT(20), <1>1, <2>1, InsertObjectRowStep, InsertRelationRowStep,
               InsertColumnRowStep, CreateFailsStep DEF Create
<1>2. ASSUME NEW c \in Clients, Open(c) PROVE CatInv'
  <2>1. ASSUME NEW name \in Names, Find(c, name) PROVE CatInv'
    BY Zenon, <2>1, FindStep
  <2>2. ASSUME RelationOpenFails(c) \/ RelationClose(c) PROVE CatInv'
    <3>1. /\ Goto(c, Idle)
          /\ UNCHANGED <<catalog, counter, decl, checkpointer, kept, restarts>>
      BY Zenon, <2>2 DEF RelationOpenFails, RelationClose
    <3>2. SameStore /\ counter' \in Nat
      BY Zenon, <3>1, OpenFrame
    <3>. QED  BY ZenonT(20), <3>1, <3>2, ReturnStep
  <2>. QED  BY ZenonT(20), <1>2, <2>1, <2>2, RelationOpenStep, RelationOpenedStep DEF Open
<1>. QED  BY ZenonT(20), <1>1, <1>2, PassStartStep, PassPageStep, RestartStep,
             RestartFreshStep
          DEF Next

\* The catalog's pages and the calls on them are in step, however the calls,
\* the passes and the restarts interleave: every row is of a creation that
\* began, no column comes before the ones in front of it, a page on disk is
\* a beginning of the one in memory, and what was acknowledged is all there.
THEOREM CatalogInvariant == Spec => []CatInv
<1>1. ASSUME CatInv, UNCHANGED vars PROVE CatInv'
  <2>1. /\ mem' = mem /\ disk' = disk /\ dirty' = dirty /\ decl' = decl /\ call' = call
        /\ kept' = kept /\ durable' = durable /\ covered' = covered /\ counter' = counter
        /\ todo' = todo
    BY Zenon, <1>1 DEF vars, catalog, checkpointer
  <2>2. counter \in Nat
    BY Zenon, <1>1 DEF CatInv, Store, Types
  <2>3. Store'
    BY ZenonT(20), <1>1, <2>1, <2>2, StoreSame DEF CatInv, SameStore
  <2>4. Calls'
    BY ZenonT(20), <1>1, <2>1 DEF CatInv, Calls, CallTypes, MakersInv, OpeningInv
  <2>. QED  BY Zenon, <2>3, <2>4 DEF CatInv
<1>2. CatInv /\ [Next]_vars => CatInv'
  BY Zenon, <1>1, NextCatInv
<1>. QED  BY InitCatInv, <1>2, PTL DEF Spec

\* What relation_open returns is one table: with an oid of its own its root
\* page and its columns from the first on, and all of them if CREATE TABLE
\* had returned before.
THEOREM OpensOneTable == Spec => []OpenIsOwn
<1>1. ASSUME CatInv PROVE OpenIsOwn
  <2> SUFFICES ASSUME NEW c \in Clients, call[c].pc = "opened",
                      NEW id \in Creations, decl[id].oid = call[c].oid, OidIsOwn(id)
               PROVE  /\ call[c].root = id
                      /\ \E n \in 0 .. decl[id].nr_cols : call[c].schema = Columns(id, n)
                      /\ call[c].whole => call[c].schema = Columns(id, decl[id].nr_cols)
    BY ZenonT(20) DEF OpenIsOwn
  <2>1. OpensTable(call[c], decl, kept)
    BY Zenon, <1>1 DEF CatInv, Calls, OpeningInv, Opening
  <2>2. id \in DOMAIN decl /\ Own(decl, id)
    BY Zenon DEF Creations, OidIsOwn, Own
  <2>3. decl[id].oid \in Nat \ {0}
    BY ZenonT(20), <1>1, <2>2, DeclTypes DEF CatInv, Store
  <2>4. decl[id].oid >= 0
    BY SMTT(20), Z3T(20), <2>3
  <2>5. "opened" # "found"
    OBVIOUS
  <2>6. call[c].root \in DOMAIN decl /\ decl[call[c].root].oid = call[c].oid
    BY ZenonT(20), <2>1, <2>4, <2>5 DEF OpensTable, HasRead
  <2>7. call[c].root = id
    BY ZenonT(20), <2>2, <2>6 DEF Own
  <2>. QED  BY ZenonT(20), <2>1, <2>2, <2>7 DEF OpensTable, HasOpened
<1>. QED  BY <1>1, CatalogInvariant, PTL

\* The first of the slots of a scan.
LEMMA FirstSlot ==
  ASSUME NEW n \in Nat, NEW H, H \subseteq 1 .. n, H # {}
  PROVE  \E i \in H : FirstOf(H) = {i} /\ \A j \in H : i <= j
<1>1. H \subseteq Nat
  OBVIOUS
<1>2. PICK i \in H : \A j \in H : i <= j
  BY ZenonT(20), <1>1, Least
<1>3. \A j \in H : j <= i => j = i
  BY SMTT(20), Z3T(20), <1>1, <1>2
<1>. QED  BY ZenonT(20), <1>2, <1>3 DEF FirstOf

\* The scan of sys.objects finds a table that is kept, if its name was its
\* own first.
LEMMA NameLeads ==
  ASSUME Store, NEW id \in kept, NameIsOwn(id)
  PROVE  FindTableOidByName(decl[id].name) = {decl[id].oid}
<1> DEFINE rows == mem["objects"].rows
           H    == ObjectSlots(decl[id].name)
<1>1. id \in DOMAIN decl /\ Has(rows, "objects", decl, id)
  BY Zenon, PageNames DEF Store, Types, KeptInv
<1>2. Len(rows) \in Nat /\ DOMAIN rows = 1 .. Len(rows)
  BY ZenonT(20), RowTypes, PageNames DEF Store
<1>3. \A o : ObjectOf(decl, o).name = decl[o].name /\ ObjectOf(decl, o).oid = decl[o].oid
  BY DEF ObjectOf, ObjectRow
<1>4. \A j : j \in H <=> j \in 1 .. Len(rows) /\ rows[j].name = decl[id].name
  BY Zenon, <1>2 DEF ObjectSlots
<1>5. \A i \in 1 .. Len(rows) : IsObject(rows, i, decl, kept)
  BY Zenon DEF Store, RowsInv, ObjectsOK
<1> HIDE DEF rows
<1>6. PICK j \in 1 .. Len(rows) : rows[j] = ObjectOf(decl, id)
  BY Zenon, <1>1 DEF Has, Among
<1>7. H \subseteq 1 .. Len(rows) /\ H # {}
  BY ZenonT(20), <1>3, <1>4, <1>6
<1> HIDE DEF H
<1>8. PICK i \in H : FirstOf(H) = {i} /\ \A k \in H : i <= k
  BY ZenonT(20), <1>2, <1>7, FirstSlot
<1>9. i \in 1 .. Len(rows) /\ rows[i].name = decl[id].name
  BY Zenon, <1>4
<1>10. ASSUME NEW k \in DOMAIN SysNames, rows[i] = ObjectRow(-k, SysNames[k]) PROVE FALSE
  <2>1. rows[i].name = SysNames[k]
    BY <1>10 DEF ObjectRow
  <2>. QED  BY ZenonT(20), <1>9, <2>1 DEF NameIsOwn
<1>11. ASSUME NEW o \in DOMAIN decl, rows[i] = ObjectOf(decl, o), o # id,
              \A e \in decl[o].after \intersect kept : Among(rows, i - 1, ObjectOf(decl, e))
       PROVE  FALSE
  <2>1. id \in decl[o].after
    BY ZenonT(20), <1>3, <1>9, <1>11 DEF NameIsOwn, Creations
  <2>2. Among(rows, i - 1, ObjectOf(decl, id))
    BY Zenon, <1>11, <2>1
  <2>3. PICK k \in 1 .. i - 1 : rows[k] = ObjectOf(decl, id)
    BY Zenon, <2>2 DEF Among
  <2>4. k \in 1 .. Len(rows) /\ ~ (i <= k)
    BY SMTT(20), Z3T(20), <1>2, <1>9
  <2>5. k \in H
    BY ZenonT(20), <1>3, <1>4, <2>3, <2>4
  <2>. QED  BY ZenonT(20), <1>8, <2>4, <2>5
<1>12. rows[i].oid = decl[id].oid
  BY ZenonT(20), <1>3, <1>5, <1>9, <1>10, <1>11 DEF IsObject
<1>. QED  BY ZenonT(20), <1>8, <1>12 DEF FindTableOidByName, H, rows

\* The scan of sys.tables finds the root page of a table that is kept, if
\* its oid is its own.
LEMMA OidLeads ==
  ASSUME Store, NEW id \in kept, Own(decl, id)
  PROVE  GetSysTableRow(decl[id].oid) = {id}
<1> DEFINE rows == mem["tables"].rows
           H    == TableSlots(decl[id].oid)
<1>1. id \in DOMAIN decl /\ Has(rows, "tables", decl, id)
  BY Zenon, PageNames DEF Store, Types, KeptInv
<1>2. Len(rows) \in Nat /\ DOMAIN rows = 1 .. Len(rows)
  BY ZenonT(20), RowTypes, PageNames DEF Store
<1>3. TableOf(decl, id).oid = decl[id].oid
  BY DEF TableOf, TableRow
<1>4. \A j : j \in H <=> j \in 1 .. Len(rows) /\ rows[j].oid = decl[id].oid
  BY Zenon, <1>2 DEF TableSlots
<1>5. decl[id].oid >= 0
  <2>1. decl[id].oid \in Nat \ {0}
    BY ZenonT(20), <1>1, DeclTypes DEF Store
  <2>. QED  BY <2>1
<1>6. \A j \in 1 .. Len(rows) :
        ~ (rows[j].oid >= 0) \/ (rows[j].root \in DOMAIN decl /\ decl[rows[j].root].oid = rows[j].oid)
  <2> SUFFICES ASSUME NEW j \in 1 .. Len(rows)
               PROVE  ~ (rows[j].oid >= 0)
                        \/ (rows[j].root \in DOMAIN decl /\ decl[rows[j].root].oid = rows[j].oid)
    BY Zenon
  <2>. QED  BY Zenon, TableKnown
<1> HIDE DEF rows
<1>7. PICK j \in 1 .. Len(rows) : rows[j] = TableOf(decl, id)
  BY Zenon, <1>1 DEF Has, Among
<1>8. H \subseteq 1 .. Len(rows) /\ H # {}
  BY ZenonT(20), <1>3, <1>4, <1>7
<1> HIDE DEF H
<1>9. PICK i \in H : FirstOf(H) = {i}
  BY ZenonT(20), <1>2, <1>8, FirstSlot
<1>10. rows[i].root = id
  <2>1. i \in 1 .. Len(rows) /\ rows[i].oid = decl[id].oid /\ rows[i].oid >= 0
    BY ZenonT(20), <1>4, <1>5
  <2>2. rows[i].root \in DOMAIN decl /\ decl[rows[i].root].oid = decl[id].oid
    BY ZenonT(20), <1>6, <2>1
  <2>. QED  BY Zenon, <2>2 DEF Own
<1>. QED  BY ZenonT(20), <1>9, <1>10 DEF GetSysTableRow, H, rows

\* A table whose CREATE was acknowledged in this boot, or before a pass that
\* has finished, is found under its name, with its root page and all of its
\* columns, through failed creations, passes and restarts.
THEOREM CreatedTablesSurvive == Spec => []CreatedSurvives
<1>1. ASSUME CatInv PROVE CreatedSurvives
  <2>1. Store /\ Types /\ RowsInv /\ KeptInv /\ kept \subseteq DOMAIN decl
    BY ZenonT(20), <1>1 DEF CatInv, Store, Types
  <2>2. \A p \in Pages : Len(mem[p].rows) <= PageRows[p] /\ Len(disk[p].rows) <= PageRows[p]
    <3> SUFFICES ASSUME NEW p \in Pages
                 PROVE  Len(mem[p].rows) <= PageRows[p] /\ Len(disk[p].rows) <= PageRows[p]
      OBVIOUS
    <3>1. /\ Len(disk[p].rows) <= Len(mem[p].rows) /\ Len(mem[p].rows) <= PageRows[p]
          /\ Len(disk[p].rows) \in Nat /\ Len(mem[p].rows) \in Nat /\ PageRows[p] \in Nat
      BY ZenonT(20), <2>1, RowTypes, CatalogAssumption DEF Store, DiskInv, RoomInv, Begins
    <3>. QED  BY <3>1
  <2>3. TypeOK
    BY ZenonT(20), <1>1, <2>1, <2>2 DEF TypeOK, Creations, Types, CatInv, Calls, CallTypes
  <2>4. ASSUME NEW id \in kept, OidIsOwn(id)
        PROVE  /\ GetSysTableRow(decl[id].oid) = {id}
               /\ BuildSchemaFromColumns(decl[id].oid) = Columns(id, decl[id].nr_cols)
    <3>1. Own(decl, id) /\ id \in DOMAIN decl
      BY ZenonT(20), <2>1, <2>4 DEF OidIsOwn, Own, Creations
    <3>2. Has(mem["columns"].rows, "columns", decl, id)
      BY Zenon, <2>1, PageNames DEF KeptInv
    <3>. QED  BY ZenonT(20), <2>1, <3>1, <3>2, OidLeads, SchemaIsOwn
  <2>. QED  BY ZenonT(20), <2>1, <2>3, <2>4, NameLeads DEF CreatedSurvives
<1>. QED  BY <1>1, CatalogInvariant, PTL
=============================================================================
