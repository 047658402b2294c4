----------------------------- MODULE PageAlloc -----------------------------
(***************************************************************************)
(* Page ids: the allocator of kernel/kds/page_alloc.c with its ring of     *)
(* pre-allocated pages, the superblock of meta.c that persists the id      *)
(* counter and the start of the last batch, and the boot sequence of       *)
(* main.c that reads them back after a shutdown or a crash.                *)
(*                                                                         *)
(* The buffer pool appears as the set of cached ids (PageMgr has the rest) *)
(* and a page on disk as the flags of its header. The superblock lies in   *)
(* the sectors of the page SuperId: KDS_SYS_RESERVED_PAGES = 128 is the    *)
(* first id ever minted, and page 128 starts at sector 128 * 16 = 2048,    *)
(* META_SUPERBLOCK_SECTOR. KDS_VERSION = 1 stands where a page header has  *)
(* its flags, so that the superblock reads as a page that is ALLOC.        *)
(***************************************************************************)
EXTENDS Integers, FiniteSets

CONSTANTS
    RingSize,       \* PRE_ALLOC_RING_BUFFER_SIZE
    PreAllocNum,    \* PRE_ALLOC_NUM
    Thres,          \* PRE_ALLOC_PAGE_THRES
    SuperId,        \* KDS_SYS_RESERVED_PAGES, the page under the superblock
    PoolSize,       \* KDS_BUF_NR_FRAMES
    MaxId,          \* bound on the ids minted
    MaxBoots,       \* bound on the boots
    MaxCrashes,     \* bound on the crashes
    MaxSplits       \* bound on the B-tree splits

ASSUME PageAllocAssumption ==
    /\ RingSize \in Nat /\ Thres \in 1..(RingSize - 1)
    /\ PreAllocNum \in Nat /\ PoolSize \in Nat
    /\ SuperId \in Nat \ {0} /\ MaxId \in Nat /\ SuperId <= MaxId
    /\ MaxBoots \in Nat /\ MaxCrashes \in Nat /\ MaxSplits \in Nat

Ids == SuperId..MaxId

None == 0

Slots == 0..(RingSize - 1)

VARIABLES
    max, point,     \* the superblock in memory: max_page_id, alloc_point
    sb,             \* the superblock on disk; ok: its magic is intact
    disk,           \* id -> header flags on disk: "none", "alloc", "init"
    cached,         \* ids in the buffer pool
    inited,         \* cached ids whose header in memory has INIT
    dirty,          \* cached ids whose frame is DIRTY
    ring, cursor, reserved,
    phase,          \* "off", "boot" (kds_bootstrap) or "up"
    pc,             \* where kds_batch_alloc or the reclaim scan is
    ask,            \* the count kds_batch_alloc was called with
    base, nxt, lim, \* start of the batch; the loop is at nxt of [nxt, lim);
                    \* ask, base, nxt and lim are 0 where they are dead
    fresh,          \* g_fresh_init
    used,           \* ids handed out in this boot
    assigned,       \* the id a B-tree split got from assign_page_id
    refs,           \* pages the catalog and other pages point to
    savedRefs,      \* the same, as it is on disk
    boots, crashes, splits

super == <<max, point>>
pool == <<cached, inited, dirty>>
ringVars == <<ring, cursor, reserved>>
loop == <<pc, ask, base, nxt, lim>>
links == <<refs, savedRefs>>
budget == <<boots, crashes, splits>>
vars == <<super, sb, disk, pool, ringVars, phase, loop, fresh, used, assigned,
          links, budget>>

Least(a, b) == IF a < b THEN a ELSE b

RingCount == (reserved - cursor + RingSize) % RingSize

RingIsFull == (reserved + 1) % RingSize = cursor

RingFreeSlots == RingSize - 1 - RingCount

\* Mutation of Push: the index is advanced before the store.
PushLate(id) ==
    /\ ring' = [ring EXCEPT ![(reserved + 1) % RingSize] = id]
    /\ reserved' = (reserved + 1) % RingSize
    /\ UNCHANGED cursor

Push(id) ==
    /\ ring' = [ring EXCEPT ![reserved] = id]
    /\ reserved' = (reserved + 1) % RingSize
    /\ UNCHANGED cursor

\* kds_page_alloc; an empty ring returns NULL and changes nothing.
Pop ==
    /\ RingCount > 0
    /\ ring' = [ring EXCEPT ![cursor] = None]
    /\ cursor' = (cursor + 1) % RingSize
    /\ used' = used \cup {ring[cursor]}
    /\ UNCHANGED reserved

PoolIsFull == Cardinality(cached) >= PoolSize

\* A page written to disk; the page under the superblock destroys it.
WritePage(id, flags) ==
    /\ disk' = [disk EXCEPT ![id] = flags]
    /\ sb' = IF id = SuperId THEN [sb EXCEPT !.ok = FALSE] ELSE sb

\* kds_superblock_fsync, and init_superblock_and_fsync.
WriteSuper(m, p) ==
    /\ sb' = [ok |-> TRUE, max |-> m, point |-> p]
    /\ disk' = [disk EXCEPT ![SuperId] = "alloc"]

\* kds_buf_alloc_new: ALLOC without INIT is on disk before the page is known.
AllocNew(id) ==
    /\ id \notin cached
    /\ ~PoolIsFull
    /\ WritePage(id, "alloc")
    /\ cached' = cached \cup {id}

\* -EEXIST and -ENOSPC.
AllocNewFails(id) == id \in cached \/ PoolIsFull

\* kds_buf_lookup_or_load: the flags come from the disk with the page.
LoadPage(id) ==
    /\ id \in cached \/ ~PoolIsFull
    /\ cached' = cached \cup {id}
    /\ inited' = IF id \notin cached /\ disk[id] = "init"
                 THEN inited \cup {id} ELSE inited

-----------------------------------------------------------------------------
Init ==
    /\ max = 0 /\ point = 0
    /\ sb = [ok |-> FALSE, max |-> 0, point |-> 0]
    /\ disk = [id \in Ids |-> "none"]
    /\ cached = {} /\ inited = {} /\ dirty = {}
    /\ ring = [i \in Slots |-> None] /\ cursor = 0 /\ reserved = 0
    /\ phase = "off" /\ pc = "idle"
    /\ ask = 0 /\ base = 0 /\ nxt = 0 /\ lim = 0
    /\ fresh = FALSE
    /\ used = {} /\ assigned = None
    /\ refs = {} /\ savedRefs = {}
    /\ boots = 0 /\ crashes = 0 /\ splits = 0

\* Mutation of Boot: the counter starts over at the last batch.
BootAtPoint ==
    /\ phase = "off" /\ boots < MaxBoots
    /\ boots' = boots + 1
    /\ phase' = "boot"
    /\ fresh' = ~sb.ok
    /\ max' = IF sb.ok /\ sb.point # 0 THEN sb.point ELSE SuperId
    /\ point' = IF sb.ok THEN sb.point ELSE 0
    /\ IF sb.ok THEN UNCHANGED <<sb, disk>> ELSE WriteSuper(SuperId, 0)
    /\ refs' = savedRefs
    /\ pc' = IF point' = 0 THEN "fill" ELSE "reclaim"
    /\ ask' = IF point' = 0 THEN RingSize ELSE 0
    /\ nxt' = point'
    /\ lim' = IF point' = 0 THEN 0 ELSE Least(point' + PreAllocNum, max')
    /\ UNCHANGED <<pool, ringVars, base, used, assigned, savedRefs, crashes,
                   splits>>

(* kds_bootstrap up to kds_init_page_alloc_system: the superblock is read, *)
(* or created when its magic is not there, and the ring is filled from a   *)
(* first batch (alloc_point 0) or from the reclaim scan.                   *)
Boot ==
    /\ phase = "off" /\ boots < MaxBoots
    /\ boots' = boots + 1
    /\ phase' = "boot"
    /\ fresh' = ~sb.ok
    /\ max' = IF sb.ok THEN sb.max ELSE SuperId
    /\ point' = IF sb.ok THEN sb.point ELSE 0
    /\ IF sb.ok THEN UNCHANGED <<sb, disk>> ELSE WriteSuper(SuperId, 0)
    /\ refs' = savedRefs
    /\ pc' = IF point' = 0 THEN "fill" ELSE "reclaim"
    /\ ask' = IF point' = 0 THEN RingSize ELSE 0
    /\ nxt' = point'
    /\ lim' = IF point' = 0 THEN 0 ELSE Least(point' + PreAllocNum, max')
    /\ UNCHANGED <<pool, ringVars, base, used, assigned, savedRefs, crashes,
                   splits>>

Scanning == pc = "reclaim" /\ nxt < lim /\ ~RingIsFull

\* Mutation of ReclaimPage: INIT is not looked at.
ReclaimAny ==
    /\ Scanning
    /\ LoadPage(nxt)
    /\ IF disk[nxt] # "none"
       THEN Push(nxt) ELSE UNCHANGED ringVars
    /\ nxt' = nxt + 1
    /\ UNCHANGED <<super, sb, disk, dirty, phase, pc, ask, base, lim, fresh,
                   used, assigned, links, budget>>

\* kds_reclaim_uninitialized_pages: ALLOC without INIT goes into the ring.
ReclaimPage ==
    /\ Scanning
    /\ LoadPage(nxt)
    /\ IF disk[nxt] = "alloc"
       THEN Push(nxt) ELSE UNCHANGED ringVars
    /\ nxt' = nxt + 1
    /\ UNCHANGED <<super, sb, disk, dirty, phase, pc, ask, base, lim, fresh,
                   used, assigned, links, budget>>

\* The page cannot be loaded: a read error, or the pool is full.
ReclaimSkip ==
    /\ Scanning
    /\ nxt' = nxt + 1
    /\ UNCHANGED <<super, sb, disk, pool, ringVars, phase, pc, ask, base, lim,
                   fresh, used, assigned, links, budget>>

\* Where kds_bootstrap goes on once the ring is filled.
Booted == IF fresh THEN "catalog" ELSE "wal"

ReclaimDone ==
    /\ pc = "reclaim"
    /\ nxt >= lim \/ RingIsFull
    /\ ask' = IF RingCount < Thres THEN RingSize - RingCount ELSE 0
    /\ pc' = IF RingCount < Thres THEN "fill" ELSE Booted
    /\ nxt' = 0 /\ lim' = 0
    /\ UNCHANGED <<super, sb, disk, pool, ringVars, phase, base, fresh, used,
                   assigned, links, budget>>

(* kds_batch_alloc takes its ids: the counter before the addition is the   *)
(* first of them. Fewer than Thres pages are staged, so there is room.     *)
BatchStart ==
    LET want == Least(ask, RingFreeSlots)
    IN  /\ pc = "fill"
        /\ max + want <= MaxId + 1
        /\ base' = max
        /\ max' = max + want
        /\ nxt' = max
        /\ lim' = max + want
        /\ ask' = 0
        /\ pc' = "batch"
        /\ UNCHANGED <<point, sb, disk, pool, ringVars, phase, fresh, used,
                       assigned, links, budget>>

\* One page of the batch; a full ring would end the loop.
BatchPage ==
    /\ pc = "batch" /\ nxt < lim
    /\ AllocNew(nxt)
    /\ IF RingIsFull
       THEN nxt' = lim /\ UNCHANGED ringVars
       ELSE nxt' = nxt + 1 /\ Push(nxt)
    /\ UNCHANGED <<super, inited, dirty, phase, pc, ask, base, lim, fresh, used,
                   assigned, links, budget>>

\* kds_buf_alloc_new refuses the id: the rest of the batch is given up.
BatchBreak ==
    /\ pc = "batch" /\ nxt < lim
    /\ AllocNewFails(nxt)
    /\ nxt' = lim
    /\ UNCHANGED <<super, sb, disk, pool, ringVars, phase, pc, ask, base, lim,
                   fresh, used, assigned, links, budget>>

\* kds_meta_set_alloc_range and kds_superblock_fsync, after the pages.
BatchPersist ==
    /\ pc = "batch" /\ nxt = lim
    /\ point' = base
    /\ WriteSuper(max, base)
    /\ pc' = IF phase = "boot" THEN Booted ELSE "idle"
    /\ base' = 0 /\ nxt' = 0 /\ lim' = 0
    /\ UNCHANGED <<max, pool, ringVars, phase, ask, fresh, used, assigned,
                   links, budget>>

\* kds_catalog_bootstrap rewrites the catalog's fixed pages.
CatalogBootstrap ==
    /\ pc = "catalog"
    /\ refs' = {} /\ savedRefs' = {}
    /\ pc' = "wal"
    /\ UNCHANGED <<super, sb, disk, pool, ringVars, phase, ask, base, nxt, lim,
                   fresh, used, assigned, budget>>

\* wal_alloc_page: the page is INIT and dirty from the start.
TakeWalPage ==
    /\ Pop
    /\ inited' = inited \cup {ring[cursor]}
    /\ dirty' = dirty \cup {ring[cursor]}
    /\ UNCHANGED <<super, sb, disk, cached, ask, base, nxt, lim, fresh, assigned,
                   links, budget>>

WalInit ==
    /\ pc = "wal"
    /\ TakeWalPage
    /\ phase' = "up" /\ pc' = "idle"

WalGrow ==
    /\ phase = "up"
    /\ TakeWalPage
    /\ UNCHANGED <<phase, pc>>

-----------------------------------------------------------------------------
\* Mutation of Prealloc: an empty ring is mistaken for a full one.
PreallocNotEmpty ==
    /\ phase = "up" /\ pc = "idle"
    /\ RingCount < Thres /\ RingCount # 0
    /\ ask' = RingSize - RingCount
    /\ pc' = "fill"
    /\ UNCHANGED <<super, sb, disk, pool, ringVars, phase, base, nxt, lim,
                   fresh, used, assigned, links, budget>>

\* kds_proc_prealloc; it counts under the lock and refills after it.
Prealloc ==
    /\ phase = "up" /\ pc = "idle"
    /\ RingCount < Thres
    /\ ask' = RingSize - RingCount
    /\ pc' = "fill"
    /\ UNCHANGED <<super, sb, disk, pool, ringVars, phase, base, nxt, lim,
                   fresh, used, assigned, links, budget>>

(* A page for a table (create table, or the next page of a heap): INIT is  *)
(* set in memory by heap_init_page or btree_init_root_kpage, which do not  *)
(* mark the frame dirty, and other pages now refer to it.                  *)
TakeTablePage ==
    /\ phase = "up"
    /\ Pop
    /\ inited' = inited \cup {ring[cursor]}
    /\ refs' = refs \cup {ring[cursor]}
    /\ UNCHANGED <<super, sb, disk, cached, dirty, phase, loop, fresh, assigned,
                   savedRefs, budget>>

\* A row is written to a page that is in use.
WriteRow(id) ==
    /\ phase = "up"
    /\ id \in refs
    /\ LoadPage(id)
    /\ dirty' = dirty \cup {id}
    /\ UNCHANGED <<super, sb, disk, ringVars, phase, loop, fresh, used, assigned,
                   links, budget>>

\* assign_page_id, the counter after the increment.
AssignPageId ==
    /\ phase = "up"
    /\ assigned = None
    /\ max < MaxId /\ splits < MaxSplits
    /\ splits' = splits + 1
    /\ max' = max + 1
    /\ assigned' = max + 1
    /\ UNCHANGED <<point, sb, disk, pool, ringVars, phase, loop, fresh, used,
                   links, boots, crashes>>

\* btree_alloc_new_page: the new node is INIT, written to and linked.
SplitAlloc ==
    /\ phase = "up"
    /\ assigned # None
    /\ AllocNew(assigned)
    /\ inited' = inited \cup {assigned}
    /\ dirty' = dirty \cup {assigned}
    /\ used' = used \cup {assigned}
    /\ refs' = refs \cup {assigned}
    /\ assigned' = None
    /\ UNCHANGED <<super, ringVars, phase, loop, fresh, savedRefs, budget>>

SplitFails ==
    /\ phase = "up"
    /\ assigned # None
    /\ AllocNewFails(assigned)
    /\ assigned' = None
    /\ UNCHANGED <<super, sb, disk, pool, ringVars, phase, loop, fresh, used,
                   links, budget>>

\* kds_frame_flush of a dirty page, header first.
FlushPage(id) ==
    /\ phase = "up"
    /\ id \in dirty
    /\ WritePage(id, IF id \in inited THEN "init" ELSE "alloc")
    /\ dirty' = dirty \ {id}
    /\ UNCHANGED <<super, cached, inited, ringVars, phase, loop, fresh, used,
                   assigned, links, budget>>

\* The pages that hold the references (the catalog's, mostly) are flushed.
FlushRefs ==
    /\ phase = "up"
    /\ savedRefs' = refs
    /\ UNCHANGED <<super, sb, disk, pool, ringVars, phase, loop, fresh, used,
                   assigned, refs, budget>>

\* kds_wal_checkpoint ends with a superblock write.
Checkpoint ==
    /\ phase = "up"
    /\ WriteSuper(max, point)
    /\ UNCHANGED <<super, pool, ringVars, phase, loop, fresh, used, assigned,
                   links, budget>>

\* Memory is gone.
PowerOff ==
    /\ phase' = "off" /\ pc' = "idle"
    /\ max' = 0 /\ point' = 0
    /\ cached' = {} /\ inited' = {} /\ dirty' = {}
    /\ ring' = [i \in Slots |-> None] /\ cursor' = 0 /\ reserved' = 0
    /\ ask' = 0 /\ base' = 0 /\ nxt' = 0 /\ lim' = 0
    /\ fresh' = FALSE
    /\ used' = {} /\ assigned' = None
    /\ refs' = {}
    /\ UNCHANGED <<savedRefs, boots, splits>>

\* Mutation of Shutdown: the superblock is not written again.
ShutdownUnsaved ==
    /\ phase = "up" /\ pc = "idle" /\ assigned = None
    /\ PowerOff
    /\ UNCHANGED <<sb, disk, crashes>>

(* kds_cleanup, once the workers have stopped: the ring is drained, the    *)
(* pool is dropped as it is, and the superblock is written last.           *)
Shutdown ==
    /\ phase = "up" /\ pc = "idle" /\ assigned = None
    /\ WriteSuper(max, point)
    /\ PowerOff
    /\ UNCHANGED crashes

\* A panic or a power failure, at any point.
Crash ==
    /\ phase # "off"
    /\ crashes < MaxCrashes
    /\ crashes' = crashes + 1
    /\ PowerOff
    /\ UNCHANGED <<sb, disk>>

Allocator ==
    \/ ReclaimPage
    \/ ReclaimDone
    \/ BatchStart
    \/ BatchPage
    \/ BatchBreak
    \/ BatchPersist
    \/ CatalogBootstrap
    \/ WalInit
    \/ Prealloc

Next ==
    \/ Boot
    \/ Allocator
    \/ ReclaimSkip
    \/ WalGrow
    \/ TakeTablePage
    \/ \E id \in Ids : WriteRow(id) \/ FlushPage(id)
    \/ AssignPageId
    \/ SplitAlloc
    \/ SplitFails
    \/ FlushRefs
    \/ Checkpoint
    \/ Shutdown
    \/ Crash

Spec == Init /\ [][Next]_vars

\* The prealloc proc is a system proc: its CPU's worker runs it again and again.
FairSpec == Spec /\ WF_vars(Allocator)

-----------------------------------------------------------------------------
Staged == {ring[i] : i \in Slots} \ {None}

Occupied == {(cursor + k) % RingSize : k \in 0..(RingCount - 1)}

TypeOK ==
    /\ max \in Nat /\ point \in Nat
    /\ sb \in [ok : BOOLEAN, max : Nat, point : Nat]
    /\ disk \in [Ids -> {"none", "alloc", "init"}]
    /\ inited \cup dirty \subseteq cached /\ cached \subseteq Ids
    /\ ring \in [Slots -> Ids \cup {None}]
    /\ cursor \in Slots /\ reserved \in Slots
    /\ phase \in {"off", "boot", "up"}
    /\ pc \in {"idle", "reclaim", "fill", "batch", "catalog", "wal"}
    /\ ask \in 0..RingSize
    /\ base \in Nat /\ nxt \in Nat /\ lim \in Nat
    /\ fresh \in BOOLEAN
    /\ used \subseteq Ids /\ assigned \in Ids \cup {None}
    /\ refs \subseteq Ids /\ savedRefs \subseteq Ids
    /\ boots \in 0..MaxBoots /\ crashes \in 0..MaxCrashes
    /\ splits \in 0..MaxSplits

(* A page has one owner: within a boot, kds_page_alloc and a B-tree split  *)
(* never hand out an id twice, and never one that is still staged, though  *)
(* the batch and the split can be after the same id.                       *)
SingleOwner ==
    /\ TypeOK
    /\ Staged \cap used = {}
    /\ Cardinality(Staged) = RingCount
    /\ Staged = {ring[i] : i \in Occupied}

(* What is staged, be it fresh or recycled by the boot scan, is a page     *)
(* without user data: ALLOC and not INIT on disk and in memory.            *)
StagedIsBlank ==
    \A id \in Staged :
        id \in cached /\ id \notin inited /\ disk[id] = "alloc"

(* A page that is saved and referred to on disk keeps its contents: no     *)
(* batch of this boot or of a later one blanks it, and no boot recycles    *)
(* it; until a crash or a B-tree split has put two pages on one id.        *)
SavedIsKept ==
    [][\A id \in savedRefs : disk[id] = "init" /\ crashes = 0 /\ splits = 0 =>
          disk'[id] = "init" /\ (id \in Staged' => id \in Staged)]_vars

(* A database is created once: a boot takes the device for a new one, and  *)
(* bootstraps the catalog over the old, only when no boot came before it   *)
(* or a crash did.  The superblock lies under the first page id, and what  *)
(* is written there (the first batch, a table's row) destroys its magic    *)
(* until the superblock is next written: the shutdown always does so.      *)
FreshIsFirst ==
    [][Boot /\ ~sb.ok => boots = 0 \/ crashes > 0]_vars

(* While the pool has room, an empty ring is filled again.                 *)
RingIsRefilled ==
    phase = "up" /\ RingCount = 0 ~>
        RingCount > 0 \/ phase = "off" \/ PoolIsFull \/ max + RingSize - 1 > MaxId + 1

============================================================================
