----------------------------- MODULE HeapInsert -----------------------------
(***************************************************************************)
(* Inserts into a heap table (exec_heap_insert.c), with the three parts    *)
(* they meet: the dshell proc that runs the executors in slices, the       *)
(* write-ahead log and the checkpointer, and a machine that may crash.     *)
(*                                                                         *)
(* A row is its primary key and a heap page a sequence of rows with room   *)
(* for PageCap of them (module Heap has the layout).  The log is the one   *)
(* module Log specifies, with whole records for bytes: a sequence, of      *)
(* which the first `flushed' records are on disk (module Wal has the ring  *)
(* and the pages).  Executors are numbered by the position of their client *)
(* in the dshell proc's list, which it scans from the head every time.     *)
(***************************************************************************)
EXTENDS Integers, Sequences, FiniteSets

CONSTANTS NExecs,      \* clients with an insert executor
          Pks,         \* primary keys
          PageCap,     \* rows a heap page has room for
          LogCap,      \* records the log's ring has room for
          MaxInserts,  \* bound on the inserts submitted
          MaxCrashes   \* bound on crashes

ASSUME HeapInsertAssumption ==
  /\ {NExecs, PageCap, LogCap, MaxInserts} \subseteq Nat \ {0}
  /\ MaxCrashes \in Nat

Execs == 1 .. NExecs

Pages == 1 .. MaxInserts + 1

Root == 1

VARIABLES mem,      \* the table's pages in the buffer pool
          disk,     \* and on disk
          dirty,    \* pages with KDS_PAGE_FLAG_DIRTY
          exec,     \* the executors
          cur,      \* the executor the dshell proc is running, 0 for none
          worked,   \* whether it has finished a unit of work in this slice
          log,      \* records appended to the log
          flushed,  \* how many of them are in WAL pages on disk
          ckpt,     \* how many of them checkpointed_lsn covers
          ckpc,     \* where the checkpointer is
          todo,     \* pages its pass over the buffer pool has still to visit
          free,     \* pages the allocator has to give
          clash,    \* keys that were submitted while another executor inserted them
          acked,    \* keys whose insert returned success in this boot
          covered,  \* keys acknowledged when the current checkpoint began
          durable,  \* keys acknowledged before the last checkpoint began
          inserts, crashes

table == <<mem, disk, dirty>>
proc == <<exec, cur, worked>>
wal == <<log, flushed, ckpt>>
checkpointer == <<ckpc, todo, covered, durable>>
boot == <<clash, acked, inserts, crashes>>
vars == <<table, free, proc, wal, checkpointer, boot>>

(* A heap page: blank as the allocator leaves it, empty once initialised.  *)
(* A blank page has lower = upper = 0 and room for nothing.                *)
Blank == [init |-> FALSE, rows |-> <<>>, next |-> 0]

Empty == [init |-> TRUE, rows |-> <<>>, next |-> 0]

NoExec == [phase |-> "idle", pk |-> 0, cursor |-> 0, target |-> 0, new |-> FALSE]

Init ==
  /\ mem = [p \in Pages |-> IF p = Root THEN Empty ELSE Blank]
  /\ disk = [p \in Pages |-> Blank]
  /\ dirty = {}
  /\ exec = [e \in Execs |-> NoExec]
  /\ cur = 0
  /\ worked = FALSE
  /\ log = <<>>
  /\ flushed = 0
  /\ ckpt = 0
  /\ ckpc = "idle"
  /\ todo = {}
  /\ free = Pages \ {Root}
  /\ clash = {}
  /\ acked = {}
  /\ covered = {}
  /\ durable = {}
  /\ inserts = 0
  /\ crashes = 0

Range(s) == {s[i] : i \in DOMAIN s}

HasRoom(p) == mem[p].init /\ Len(mem[p].rows) < PageCap

WithRow(p, pk) == [mem[p] EXCEPT !.rows = Append(@, pk)]

(***************************************************************************)
(* The dshell proc.                                                        *)
(***************************************************************************)
(* kds_heap_insert_exec_init, and the client's submission. *)
Submit(e, pk) ==
  /\ exec[e].phase = "idle"
  /\ inserts < MaxInserts
  /\ inserts' = inserts + 1
  /\ exec' = [exec EXCEPT ![e] = [phase |-> "dup", pk |-> pk, cursor |-> Root,
                                  target |-> 0, new |-> FALSE]]
  /\ clash' = clash \union
                ({pk} \intersect {exec[f].pk : f \in {f \in Execs : exec[f].phase # "idle"}})
  /\ UNCHANGED <<free, table, cur, worked, wal, checkpointer, acked, crashes>>

(* A slice goes to the first client in the list with something to run. *)
Pick(e) ==
  /\ cur = 0
  /\ exec[e].phase # "idle"
  /\ \A f \in 1 .. e - 1 : exec[f].phase = "idle"
  /\ cur' = e
  /\ worked' = FALSE
  /\ UNCHANGED <<free, table, exec, wal, checkpointer, boot>>

(* The slice has expired and run() returns KDS_EXEC_CONTINUE: between two  *)
(* pages of the duplicate scan; between two pages of the search for room,  *)
(* and before its first one.                                               *)
Expire ==
  /\ cur # 0
  /\ \/ exec[cur].phase = "dup" /\ worked
     \/ exec[cur].phase = "tail"
  /\ cur' = 0
  /\ worked' = FALSE
  /\ UNCHANGED <<free, table, exec, wal, checkpointer, boot>>

(* run() returns KDS_EXEC_DONE or KDS_EXEC_ERROR: the client is answered.  *)
Finish ==
  /\ exec' = [exec EXCEPT ![cur] = NoExec]
  /\ cur' = 0
  /\ worked' = FALSE

Goto(state) ==
  /\ exec' = [exec EXCEPT ![cur] = state]
  /\ worked' = TRUE
  /\ UNCHANGED cur

At(phase) == cur # 0 /\ exec[cur].phase = phase

(***************************************************************************)
(* The executor's phases, one page or one record at a time.                *)
(***************************************************************************)
(* heap_insert_run_dup_scan finds the key on this page: -EEXIST. *)
DupFound ==
  /\ At("dup")
  /\ exec[cur].pk \in Range(mem[exec[cur].cursor].rows)
  /\ Finish
  /\ UNCHANGED <<free, table, wal, checkpointer, boot>>

DupPageBlind ==
  /\ At("dup")
  /\ LET next == mem[exec[cur].cursor].next
     IN Goto(IF next = 0
             THEN [exec[cur] EXCEPT !.phase = "tail", !.cursor = Root]
             ELSE [exec[cur] EXCEPT !.cursor = next])
  /\ UNCHANGED <<free, table, wal, checkpointer, boot>>

(* It does not, and the scan moves on; past the last page the search for   *)
(* room starts over at the root.                                           *)
DupPage ==
  /\ At("dup")
  /\ exec[cur].pk \notin Range(mem[exec[cur].cursor].rows)
  /\ LET next == mem[exec[cur].cursor].next
     IN Goto(IF next = 0
             THEN [exec[cur] EXCEPT !.phase = "tail", !.cursor = Root]
             ELSE [exec[cur] EXCEPT !.cursor = next])
  /\ UNCHANGED <<free, table, wal, checkpointer, boot>>

(* heap_insert_run_find_tail: the page has room, and the row goes there. *)
TailInsert ==
  /\ At("tail")
  /\ LET p == exec[cur].cursor
     IN /\ HasRoom(p)
        /\ mem' = [mem EXCEPT ![p] = WithRow(p, exec[cur].pk)]
        /\ dirty' = dirty \union {p}
        /\ Goto([exec[cur] EXCEPT !.phase = "walinsert", !.target = p])
  /\ UNCHANGED <<free, disk, wal, checkpointer, boot>>

TailNextStays ==
  /\ At("tail")
  /\ ~ HasRoom(exec[cur].cursor)
  /\ mem[exec[cur].cursor].next # 0
  /\ Goto(exec[cur])
  /\ UNCHANGED <<free, table, wal, checkpointer, boot>>

(* The page is full and not the last. *)
TailNext ==
  /\ At("tail")
  /\ ~ HasRoom(exec[cur].cursor)
  /\ mem[exec[cur].cursor].next # 0
  /\ Goto([exec[cur] EXCEPT !.cursor = mem[exec[cur].cursor].next])
  /\ UNCHANGED <<free, table, wal, checkpointer, boot>>

LastIsFull ==
  /\ At("tail")
  /\ ~ HasRoom(exec[cur].cursor)
  /\ mem[exec[cur].cursor].next = 0

(* It is the last: a page is allocated, initialised and given the row, *)
GrowInsert(q) ==
  /\ LastIsFull
  /\ q \in free
  /\ \A p \in free : q <= p
  /\ free' = free \ {q}
  /\ mem' = [mem EXCEPT ![q] = [Empty EXCEPT !.rows = <<exec[cur].pk>>]]
  /\ dirty' = dirty \union {q}
  /\ Goto([exec[cur] EXCEPT !.phase = "link", !.target = q, !.new = TRUE])
  /\ UNCHANGED <<disk, wal, checkpointer, boot>>

(* or the allocator has none: -ENOSPC. *)
GrowFails ==
  /\ LastIsFull
  /\ Finish
  /\ UNCHANGED <<free, table, wal, checkpointer, boot>>

GrowLinkAtRoot ==
  /\ At("link")
  /\ mem' = [mem EXCEPT ![Root].next = exec[cur].target]
  /\ dirty' = dirty \union {Root}
  /\ Goto([exec[cur] EXCEPT !.phase = "walinit"])
  /\ UNCHANGED <<free, disk, wal, checkpointer, boot>>

GrowLinkClean ==
  /\ At("link")
  /\ mem' = [mem EXCEPT ![exec[cur].cursor].next = exec[cur].target]
  /\ Goto([exec[cur] EXCEPT !.phase = "walinit"])
  /\ UNCHANGED <<free, disk, dirty, wal, checkpointer, boot>>

(* and linked to the end of the chain. *)
GrowLink ==
  /\ At("link")
  /\ mem' = [mem EXCEPT ![exec[cur].cursor].next = exec[cur].target]
  /\ dirty' = dirty \union {exec[cur].cursor}
  /\ Goto([exec[cur] EXCEPT !.phase = "walinit"])
  /\ UNCHANGED <<free, disk, wal, checkpointer, boot>>

LogFull == Len(log) - flushed >= LogCap

(* kds_wal_append; a full ring drops the record, and the executor goes on  *)
(* without it.                                                             *)
WalAppend(rec) ==
  log' = IF LogFull THEN log ELSE Append(log, rec)

WalInitPage ==
  /\ At("walinit")
  /\ WalAppend([type |-> "init", page |-> exec[cur].target, pk |-> 0])
  /\ Goto([exec[cur] EXCEPT !.phase = "walinsert"])
  /\ UNCHANGED <<free, table, flushed, ckpt, checkpointer, boot>>

WalInsert ==
  /\ At("walinsert")
  /\ WalAppend([type |-> "insert", page |-> exec[cur].target, pk |-> exec[cur].pk])
  /\ acked' = acked \union {exec[cur].pk}
  /\ Finish
  /\ UNCHANGED <<free, table, flushed, ckpt, checkpointer, inserts, crashes, clash>>

(***************************************************************************)
(* The checkpointer: kds_wal_checkpointer_proc.                            *)
(***************************************************************************)
(* The log is flushed. *)
CkptLog ==
  /\ ckpc = "idle"
  /\ flushed' = Len(log)
  /\ covered' = acked
  /\ ckpc' = "check"
  /\ UNCHANGED <<free, table, proc, log, ckpt, todo, durable, boot>>

(* Nothing was flushed since the last checkpoint: there is none now. *)
CkptSkip ==
  /\ ckpc = "check"
  /\ ~ (flushed > ckpt)
  /\ ckpc' = "idle"
  /\ covered' = {}
  /\ UNCHANGED <<free, table, proc, wal, todo, durable, boot>>

(* Otherwise the dirty pages are, in the order of their frames. *)
CkptPass ==
  /\ ckpc = "check"
  /\ flushed > ckpt
  /\ ckpc' = "pass"
  /\ todo' = Pages
  /\ UNCHANGED <<free, table, proc, wal, covered, durable, boot>>

CkptPageKeepsDirty(p) ==
  /\ ckpc = "pass"
  /\ p \in todo
  /\ todo' = todo \ {p}
  /\ disk' = IF p \in dirty THEN [disk EXCEPT ![p] = mem[p]] ELSE disk
  /\ UNCHANGED <<free, mem, dirty, proc, wal, ckpc, covered, durable, boot>>

CkptPage(p) ==
  /\ ckpc = "pass"
  /\ p \in todo
  /\ todo' = todo \ {p}
  /\ disk' = IF p \in dirty THEN [disk EXCEPT ![p] = mem[p]] ELSE disk
  /\ dirty' = dirty \ {p}
  /\ UNCHANGED <<free, mem, proc, wal, ckpc, covered, durable, boot>>

(* kds_wal_checkpoint: its record is appended and flushed, with whatever   *)
(* was appended meanwhile, and checkpointed_lsn is set past all of it.     *)
CkptRecord ==
  /\ ckpc = "pass"
  /\ todo = {}
  /\ ~ LogFull
  /\ flushed' = Len(log)
  /\ ckpt' = Len(log)
  /\ durable' = covered
  /\ covered' = {}
  /\ ckpc' = "idle"
  /\ UNCHANGED <<free, table, proc, log, todo, boot>>

(* There is no room for the record: the checkpoint is not recorded. *)
CkptFull ==
  /\ ckpc = "pass"
  /\ todo = {}
  /\ LogFull
  /\ covered' = {}
  /\ ckpc' = "idle"
  /\ UNCHANGED <<free, table, proc, wal, todo, durable, boot>>

(***************************************************************************)
(* Power is lost, or the module is unloaded: kds_cleanup drops the pool as *)
(* it is and does not call kds_wal_shutdown, so that an orderly stop keeps *)
(* no more than a crash.  The system boots again: memory is what the disk  *)
(* holds, and no boot path calls kds_wal_recover; kds_wal_init starts a    *)
(* log of its own, and the old one's records stay on disk.  The allocator  *)
(* takes back every page without KDS_PAGE_FLAG_INIT on disk, in the order  *)
(* of the ids.  Crashes that lose the table's own root are in module       *)
(* PageAlloc.                                                              *)
(***************************************************************************)
Crash ==
  /\ crashes < MaxCrashes
  /\ disk[Root].init
  /\ crashes' = crashes + 1
  /\ mem' = disk
  /\ dirty' = {}
  /\ free' = {p \in Pages : ~ disk[p].init}
  /\ exec' = [e \in Execs |-> NoExec]
  /\ cur' = 0
  /\ worked' = FALSE
  /\ log' = <<>>
  /\ flushed' = 0
  /\ ckpt' = 0
  /\ ckpc' = "idle"
  /\ todo' = {}
  /\ covered' = {}
  /\ acked' = {}
  /\ UNCHANGED <<disk, durable, inserts, clash>>

Work ==
  \/ DupFound \/ DupPage \/ TailInsert \/ TailNext
  \/ (\E q \in Pages : GrowInsert(q)) \/ GrowFails \/ GrowLink
  \/ WalInitPage \/ WalInsert

Checkpoint ==
  \/ CkptLog \/ CkptSkip \/ CkptPass \/ (\E p \in Pages : CkptPage(p))
  \/ CkptRecord \/ CkptFull

Next ==
  \/ \E e \in Execs, pk \in Pks : Submit(e, pk)
  \/ \E e \in Execs : Pick(e)
  \/ Expire \/ Work \/ Checkpoint \/ Crash

Spec == Init /\ [][Next]_vars

(* The workers keep running both procs, and slices are not forever over    *)
(* before they begin: the deadline is set anew for each, slice_ns away.    *)
Fairness ==
  /\ WF_vars(\E e \in Execs : Pick(e))
  /\ SF_vars(Work)
  /\ WF_vars(Checkpoint)

FairSpec == Spec /\ Fairness

-----------------------------------------------------------------------------
TypeOK ==
  /\ \A p \in Pages : \A image \in {mem[p], disk[p]} :
       /\ image.init \in BOOLEAN
       /\ Len(image.rows) <= PageCap
       /\ Range(image.rows) \subseteq Pks
       /\ image.next \in Pages \union {0}
  /\ dirty \subseteq Pages
  /\ \A e \in Execs :
       /\ exec[e].phase \in {"idle", "dup", "tail", "link", "walinit", "walinsert"}
       /\ exec[e].cursor \in Pages \union {0}
  /\ cur \in Execs \union {0}
  /\ flushed \in 0 .. Len(log)
  /\ ckpt \in 0 .. flushed
  /\ ckpc \in {"idle", "check", "pass"}
  /\ todo \subseteq Pages
  /\ free \subseteq Pages

(* The pages a scan of the table visits: the least set that has the root,  *)
(* and with a page the one its link leads to.                              *)
Chain(image) ==
  {p \in Pages : \A S \in SUBSET Pages :
     Root \in S /\ (\A r \in S : image[r].next # 0 => image[r].next \in S) => p \in S}

Rows(image) == UNION {Range(image[p].rows) : p \in Chain(image)}

(* While the machine stays up, a key whose insert was acknowledged is      *)
(* found by every later scan of the chain, whatever other inserts did to   *)
(* the chain between the slices of this one.                               *)
AckedIsVisible == TypeOK /\ acked \subseteq Rows(mem)

(* An insert that was acknowledged before a completed checkpoint began is  *)
(* found after a crash: the pass saved the row's page and every page and   *)
(* link that leads to it.                                                  *)
CheckpointedSurvives == durable \subseteq Rows(mem) \intersect Rows(disk)

(* kds_executor.h, PRIMARY KEY CONSTRAINT: no two live rows of the table   *)
(* have the same primary key, through slices, growth and crashes; except   *)
(* for keys that two executors were inserting at once, since both may scan *)
(* before either inserts.                                                  *)
PkUnique ==
  \A p, q \in Chain(mem) :
    \A i \in DOMAIN mem[p].rows, j \in DOMAIN mem[q].rows :
      mem[p].rows[i] = mem[q].rows[j] /\ mem[p].rows[i] \notin clash
      => p = q /\ i = j

(* Every insert comes to an end, though others keep growing the chain it   *)
(* walks and slices expire before they begin; until a crash, after which   *)
(* the chain may be a circle.                                              *)
InsertEnds ==
  \A e \in Execs :
    exec[e].phase # "idle" ~> exec[e].phase = "idle" \/ crashes > 0

(* exec_heap_insert.c: "the checkpointer will eventually flush the dirty   *)
(* frame".  It does when the log has grown since the last checkpoint; a    *)
(* page dirtied behind the last pass waits for the next record.            *)
DirtyIsFlushed ==
  \A p \in Pages :
    p \in dirty /\ ckpc = "idle" /\ Len(log) > ckpt ~> p \notin dirty

(* exec_heap_insert.c, WAL ordering invariant: the "WAL record always      *)
(* precedes the corresponding dirty frame in any flush sequence".          *)
WalBeforeData ==
  \A p \in Pages : \A pk \in Range(disk[p].rows) :
    \E i \in 1 .. flushed : log[i].page = p /\ log[i].pk = pk
=============================================================================
