------------------------------ MODULE Catalog ------------------------------
(***************************************************************************)
(* The system catalog (catalog.c) and the opening of a relation            *)
(* (relation.c), as the clients of the command shell call them: CREATE     *)
(* TABLE inserts one row in sys.objects, one in sys.tables and one for     *)
(* each column in sys.columns, and whoever opens a table reads the three   *)
(* in turn.  Every insert and every scan pins its page for itself, and     *)
(* nothing holds the three together: calls of other clients, the pass of   *)
(* the checkpointer and a restart come in between.                         *)
(*                                                                         *)
(* A table's rows are data of its own here.  Creations are numbered; the   *)
(* number stands for the root page that kds_page_alloc gives the table     *)
(* (module PageAlloc) and for what its columns were declared to be.        *)
(* sys.types is left out: it is written at bootstrap and never read.       *)
(***************************************************************************)
EXTENDS Integers, FiniteSets, Sequences

CONSTANTS Clients,     \* threads in write() on /dev/kds
          Names,       \* names tables are created and opened by
          SysNames,    \* names of the tables of the catalog itself, a sequence
          PageRows,    \* rows a page of the catalog has room for
          MaxCols,     \* KDS_SCHEMA_MAX_COLUMNS
          MaxCreates,  \* bound on the CREATE TABLE calls
          MaxOpens,    \* bound on the opens at one time; they do not meet
          MaxPasses,   \* bound on the passes of the checkpointer
          MaxRestarts  \* bound on restarts

Pages == {"objects", "tables", "columns"}

ASSUME CatalogAssumption ==
  /\ {MaxCols, MaxCreates, MaxOpens} \subseteq Nat \ {0}
  /\ {MaxPasses, MaxRestarts} \subseteq Nat
  /\ PageRows \in [Pages -> Nat]
  /\ SysNames \in Seq(Names)
  /\ \A p \in {"objects", "tables"} : Len(SysNames) <= PageRows[p]

VARIABLES mem,       \* the catalog's pages in the buffer pool
          disk,      \* and on disk
          dirty,     \* pages with KDS_PAGE_FLAG_DIRTY
          counter,   \* g_user_oid_counter, above KDS_USER_OID_START
          call,      \* what each client is doing
          decl,      \* the creations so far: name, columns, oid, and which
                     \* ones had been acknowledged when they began
          todo,      \* pages the checkpointer's pass has still to visit
          kept,      \* creations acknowledged, and not undone by a restart
          covered,   \* those of them when the current pass began
          durable,   \* those of them when the last finished pass began
          passes, restarts

catalog == <<mem, disk, dirty>>
checkpointer == <<todo, covered, durable, passes>>
vars == <<catalog, counter, call, decl, checkpointer, kept, restarts>>

-----------------------------------------------------------------------------
(* A page as kds_buf_alloc_new writes it to disk has lower = upper = 0:    *)
(* no slots, and room for none until heap_init_page has been saved.        *)
Blank == [init |-> FALSE, rows |-> <<>>]

Formatted(rows) == [init |-> TRUE, rows |-> rows]

ObjectRow(oid, name) == [oid |-> oid, name |-> name]

TableRow(oid, root) == [oid |-> oid, root |-> root]

ColumnRow(rel, pos, def) == [rel |-> rel, pos |-> pos, def |-> def]

(* kds_catalog_bootstrap, as it leaves the buffer pool.  sys.columns gets  *)
(* no row, and heap_init_page does not mark a page.  The oids of the       *)
(* catalog's own tables are below KDS_USER_OID_START, and their root pages *)
(* are the fixed pages: both are negative numbers here.                    *)
Bootstrapped == [p \in Pages |->
  Formatted(CASE p = "objects" -> [i \in DOMAIN SysNames |-> ObjectRow(-i, SysNames[i])]
              [] p = "tables"  -> [i \in DOMAIN SysNames |-> TableRow(-i, -i)]
              [] p = "columns" -> <<>>)]

BootstrapMarks == IF SysNames = <<>> THEN {} ELSE {"objects", "tables"}

Idle == [pc |-> "idle"]

(* The first boot, after the bootstrap: late_initcall runs it before there *)
(* is a client or a checkpointer.                                          *)
Init ==
  /\ mem = Bootstrapped
  /\ disk = [p \in Pages |-> Blank]
  /\ dirty = BootstrapMarks
  /\ counter = 0
  /\ call = [c \in Clients |-> Idle]
  /\ decl = <<>>
  /\ todo = {}
  /\ kept = {}
  /\ covered = {}
  /\ durable = {}
  /\ passes = 0
  /\ restarts = 0

-----------------------------------------------------------------------------
(* heap_insert_tuple on a page of the catalog, under its page lock. *)
HasRoom(p) == mem[p].init /\ Len(mem[p].rows) < PageRows[p]

Insert(p, row) ==
  /\ HasRoom(p)
  /\ mem' = [mem EXCEPT ![p].rows = Append(@, row)]
  /\ dirty' = dirty \union {p}
  /\ UNCHANGED disk

Goto(c, state) == call' = [call EXCEPT ![c] = state]

(* kds_catalog_create_table: the root page and the table's oid.  When      *)
(* kds_page_alloc has no page the call returns before it changes anything. *)
CreateTable(c, name, nr_cols) ==
  /\ call[c].pc = "idle"
  /\ Len(decl) < MaxCreates
  /\ counter' = counter + 1
  /\ decl' = Append(decl, [name |-> name, nr_cols |-> nr_cols, oid |-> counter',
                             after |-> kept])
  /\ Goto(c, [pc |-> "objects", id |-> Len(decl')])
  /\ UNCHANGED <<catalog, checkpointer, kept, restarts>>

InsertObjectRow(c) ==
  /\ call[c].pc = "objects"
  /\ LET id == call[c].id
     IN  /\ Insert("objects", ObjectRow(decl[id].oid, decl[id].name))
         /\ Goto(c, [pc |-> "tables", id |-> id])
  /\ UNCHANGED <<counter, decl, checkpointer, kept, restarts>>

InsertRelationRow(c) ==
  /\ call[c].pc = "tables"
  /\ LET id == call[c].id
     IN  /\ Insert("tables", TableRow(decl[id].oid, id))
         /\ Goto(c, [pc |-> "columns", id |-> id, pos |-> 1])
  /\ UNCHANGED <<counter, decl, checkpointer, kept, restarts>>

(* A column's row takes an oid of its own.  After the last one the call    *)
(* returns 0 and the client is told so.                                    *)
InsertColumnRow(c) ==
  /\ call[c].pc = "columns"
  /\ LET id == call[c].id
         pos == call[c].pos
     IN  /\ Insert("columns", ColumnRow(decl[id].oid, pos, id))
         /\ IF pos < decl[id].nr_cols
            THEN /\ Goto(c, [pc |-> "columns", id |-> id, pos |-> pos + 1])
                 /\ UNCHANGED kept
            ELSE Goto(c, Idle) /\ kept' = kept \union {id}
  /\ counter' = counter + 1
  /\ UNCHANGED <<decl, checkpointer, restarts>>

(* -ENOSPC: a catalog table is one page.  The rows that are in stay, and   *)
(* so does the root page.                                                  *)
CreateFails(c) ==
  /\ call[c].pc \in Pages
  /\ ~ HasRoom(call[c].pc)
  /\ counter' = IF call[c].pc = "columns" THEN counter + 1 ELSE counter
  /\ Goto(c, Idle)
  /\ UNCHANGED <<catalog, decl, checkpointer, kept, restarts>>

-----------------------------------------------------------------------------
(* The scans of the catalog.  Rows are only ever appended, so a scan finds *)
(* what it would find at the moment it reads the number of slots.          *)
ObjectSlots(name) ==
  {i \in DOMAIN mem["objects"].rows : mem["objects"].rows[i].name = name}

TableSlots(oid) == {i \in DOMAIN mem["tables"].rows : mem["tables"].rows[i].oid = oid}

ColumnSlots(rel) ==
  {i \in DOMAIN mem["columns"].rows : mem["columns"].rows[i].rel = rel}

FirstOf(slots) == {i \in slots : \A j \in slots : i <= j}

(* Mutation of FindTableOidByName: the scan does not stop at the first row *)
(* of that name.                                                           *)
FindTableOidByNameLast(name) ==
  {mem["objects"].rows[i].oid :
     i \in {i \in ObjectSlots(name) : \A j \in ObjectSlots(name) : j <= i}}

(* The first of several; no table is the empty set. *)
FindTableOidByName(name) ==
  {mem["objects"].rows[i].oid : i \in FirstOf(ObjectSlots(name))}

GetSysTableRow(oid) == {mem["tables"].rows[i].root : i \in FirstOf(TableSlots(oid))}

(* The schema's nr_cols once slot i has been read, and the slot that is    *)
(* read into its column k.                                                 *)
NrCols(slots, i) == Cardinality({j \in slots : j <= i})

SlotOfColumn(slots, k) == CHOOSE i \in slots : NrCols(slots, i) = k

(* In the order of their slots; none at all is a schema of no columns.     *)
BuildSchemaFromColumns(rel) ==
  LET slots == ColumnSlots(rel)
      nr    == Cardinality(slots)
  IN  [k \in 1 .. (IF nr < MaxCols THEN nr ELSE MaxCols) |->
         LET row == mem["columns"].rows[SlotOfColumn(slots, k)]
         IN  [pos |-> row.pos, def |-> row.def]]

(* An INSERT or a SELECT opens its table; -ENOENT changes nothing.  The    *)
(* call remembers whether the creation was acknowledged when it began.     *)
Acknowledged(oid) == \E id \in kept : decl[id].oid = oid

Find(c, name) ==
  /\ call[c].pc = "idle"
  /\ Cardinality({d \in Clients : call[d].pc \in {"found", "row", "opened"}}) < MaxOpens
  /\ \E oid \in FindTableOidByName(name) :
       Goto(c, [pc |-> "found", oid |-> oid, whole |-> Acknowledged(oid)])
  /\ UNCHANGED <<catalog, counter, decl, checkpointer, kept, restarts>>

(* Mutation of RelationOpen: the result of the lookup is not looked at,    *)
(* and the row is whatever it was.                                         *)
RelationOpenUnchecked(c) ==
  /\ call[c].pc = "found"
  /\ \E root \in (IF GetSysTableRow(call[c].oid) = {} THEN {0}
                   ELSE GetSysTableRow(call[c].oid)) :
       Goto(c, [pc |-> "row", oid |-> call[c].oid, whole |-> call[c].whole,
                root |-> root])
  /\ UNCHANGED <<catalog, counter, decl, checkpointer, kept, restarts>>

RelationOpen(c) ==
  /\ call[c].pc = "found"
  /\ \E root \in GetSysTableRow(call[c].oid) :
       Goto(c, [pc |-> "row", oid |-> call[c].oid, whole |-> call[c].whole,
                root |-> root])
  /\ UNCHANGED <<catalog, counter, decl, checkpointer, kept, restarts>>

RelationOpenFails(c) ==
  /\ call[c].pc = "found"
  /\ GetSysTableRow(call[c].oid) = {}
  /\ Goto(c, Idle)
  /\ UNCHANGED <<catalog, counter, decl, checkpointer, kept, restarts>>

RelationOpened(c) ==
  /\ call[c].pc = "row"
  /\ Goto(c, [pc |-> "opened", oid |-> call[c].oid, whole |-> call[c].whole,
              root |-> call[c].root,
              schema |-> BuildSchemaFromColumns(call[c].oid)])
  /\ UNCHANGED <<catalog, counter, decl, checkpointer, kept, restarts>>

RelationClose(c) ==
  /\ call[c].pc = "opened"
  /\ Goto(c, Idle)
  /\ UNCHANGED <<catalog, counter, decl, checkpointer, kept, restarts>>

-----------------------------------------------------------------------------
(* The checkpointer's pass (module PageMgr).  CREATE TABLE logs nothing,   *)
(* so it takes an insert by someone else to set one off, if there is one.  *)
PassStart ==
  /\ todo = {}
  /\ passes < MaxPasses
  /\ passes' = passes + 1
  /\ todo' = Pages
  /\ covered' = kept
  /\ UNCHANGED <<catalog, counter, call, decl, durable, kept, restarts>>

PassPage(p) ==
  /\ p \in todo
  /\ todo' = todo \ {p}
  /\ disk' = IF p \in dirty THEN [disk EXCEPT ![p] = mem[p]] ELSE disk
  /\ dirty' = dirty \ {p}
  /\ IF todo' = {} THEN durable' = covered /\ covered' = {}
                   ELSE UNCHANGED <<durable, covered>>
  /\ UNCHANGED <<mem, counter, call, decl, kept, passes, restarts>>

(* The machine goes down, in order or not: the buffer pool is dropped as   *)
(* it is, and the oid counter starts over.                                 *)
Down ==
  /\ restarts < MaxRestarts
  /\ restarts' = restarts + 1
  /\ counter' = 0
  /\ call' = [c \in Clients |-> Idle]
  /\ todo' = {}
  /\ covered' = {}
  /\ UNCHANGED <<decl, passes>>

(* The boot finds the superblock, and the catalog as it was saved. *)
Restart ==
  /\ Down
  /\ mem' = disk
  /\ dirty' = {}
  /\ kept' = durable
  /\ UNCHANGED <<disk, durable>>

(* After a crash it may not (FreshIsFirst in module PageAlloc), and the    *)
(* bootstrap writes blank pages over those of the catalog.                 *)
RestartFresh ==
  /\ Down
  /\ mem' = Bootstrapped
  /\ disk' = [p \in Pages |-> Blank]
  /\ dirty' = BootstrapMarks
  /\ kept' = {}
  /\ durable' = {}

-----------------------------------------------------------------------------
Create(c) ==
  \/ \E name \in Names, n \in 1 .. MaxCols : CreateTable(c, name, n)
  \/ InsertObjectRow(c) \/ InsertRelationRow(c) \/ InsertColumnRow(c)
  \/ CreateFails(c)

Open(c) ==
  \/ \E name \in Names : Find(c, name)
  \/ RelationOpen(c) \/ RelationOpenFails(c) \/ RelationOpened(c)
  \/ RelationClose(c)

Next ==
  \/ \E c \in Clients : Create(c) \/ Open(c)
  \/ PassStart \/ (\E p \in Pages : PassPage(p))
  \/ Restart \/ RestartFresh

Spec == Init /\ [][Next]_vars

-----------------------------------------------------------------------------
Creations == DOMAIN decl

TypeOK ==
  /\ \A f \in {mem, disk} : \A p \in Pages : Len(f[p].rows) <= PageRows[p]
  /\ dirty \subseteq Pages /\ todo \subseteq Pages
  /\ counter \in Nat
  /\ \A c \in Clients :
       call[c].pc \in Pages \union {"idle", "found", "row", "opened"}
  /\ kept \subseteq Creations /\ covered \subseteq Creations
  /\ durable \subseteq Creations

(* What CREATE TABLE number id declared, up to its n-th column. *)
Columns(id, n) == [i \in 1 .. n |-> [pos |-> i, def |-> id]]

(* No other creation drew the same oid, before a restart or after it.      *)
OidIsOwn(id) == \A other \in Creations \ {id} : decl[other].oid # decl[id].oid

(* Nobody used its name before it was acknowledged. *)
NameIsOwn(id) ==
  /\ \A other \in Creations \ {id} :
       decl[other].name = decl[id].name => id \in decl[other].after
  /\ \A i \in DOMAIN SysNames : SysNames[i] # decl[id].name

(* kds_relation_open reads the table's row and its columns in two scans,   *)
(* after a third found its oid, while the table may still be in the making *)
(* or have been left half made by a full page or a restart.  What it opens *)
(* is one table all the same: its root page, and its columns in order from *)
(* the first; all of them if the creation was acknowledged when the open   *)
(* began.  Tables that share an oid, drawn in two boots, are the exception.*)
OpenIsOwn ==
  \A c \in Clients : call[c].pc = "opened" =>
    \A id \in Creations : decl[id].oid = call[c].oid /\ OidIsOwn(id) =>
      /\ call[c].root = id
      /\ \E n \in 0 .. decl[id].nr_cols : call[c].schema = Columns(id, n)
      /\ call[c].whole => call[c].schema = Columns(id, decl[id].nr_cols)

(* A table whose CREATE was acknowledged, in this boot or before a pass    *)
(* that has finished, is there: its name leads to its oid, its oid to its  *)
(* root page and to all of its columns, whatever other creations came,     *)
(* failed or were cut off by a restart, until a boot takes the device for  *)
(* a new one.  Its name has to be its own first, since CREATE TABLE does   *)
(* not look for it in sys.objects: a later table of that name is created   *)
(* and never found.  Its oid has to be its own throughout, since the       *)
(* counter starts over with every boot.                                    *)
CreatedSurvives ==
  /\ TypeOK
  /\ \A id \in kept :
       /\ NameIsOwn(id) => FindTableOidByName(decl[id].name) = {decl[id].oid}
       /\ OidIsOwn(id) => /\ GetSysTableRow(decl[id].oid) = {id}
                          /\ BuildSchemaFromColumns(decl[id].oid) =
                               Columns(id, decl[id].nr_cols)
=============================================================================
