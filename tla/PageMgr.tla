------------------------------ MODULE PageMgr ------------------------------
(***************************************************************************)
(* The buffer pool of kernel/kds/page_mgr.c: a fixed array of frames with  *)
(* no eviction, the rhashtable from page ids to frames, the free list, the *)
(* load and allocation paths with their error exits, the content lock, and *)
(* the checkpointer's pass over the dirty frames.                          *)
(*                                                                         *)
(* A step is what the code does between two points at which another CPU    *)
(* can see the pool: a lookup with its pin, a section under the free-list  *)
(* lock, one disk transfer, the insertion into the map, the publication of *)
(* the frame's state after it, a section under the content lock.           *)
(***************************************************************************)
EXTENDS Integers, FiniteSets

CONSTANTS
    Threads,    \* kernel threads that call into the page manager
    Ckpt,       \* the checkpointer (wal.c), caller of flush_dirty_frames
    Pages,      \* page ids
    NFrames,    \* KDS_BUF_NR_FRAMES
    Vals,       \* contents of a page
    Zero,       \* the zero-filled page of kds_buf_alloc_new
    NoPage,     \* page_id 0 of a free frame
    NoLock,     \* a content lock nobody holds
    Absent      \* contents, to the layers above, of a page never allocated

Actors == Threads \cup {Ckpt}

Frames == 1..NFrames

NoFrame == 0

ASSUME PageMgrAssumption ==
    /\ NFrames \in Nat \ {0}
    /\ Zero \in Vals
    /\ Ckpt \notin Threads
    /\ NoPage \notin Pages
    /\ NoLock \notin Actors
    /\ Absent \notin Vals
    /\ IsFiniteSet(Threads)

VARIABLES
    state,      \* frame -> FREE, LOADING or VALID
    fpage,      \* frame -> the page id it holds
    data,       \* frame -> contents of its buffer
    dirty,      \* frame -> the DIRTY bit of kp->hdr.flags
    refcnt,     \* frame -> kp->refcnt
    lock,       \* frame -> holder of kp->lock
    free,       \* frames on the free list
    map,        \* page id -> frame, the rhashtable
    disk,       \* page id -> the sectors of the page, header included
    issued,     \* page id -> what its owner has done with the id
    pc,         \* actor -> where it is in its call
    op,         \* actor -> "load" or "alloc", the call it is in
    want,       \* actor -> the page id it asked for
    fr,         \* actor -> the frame in its hand
    next        \* frame index of the checkpointer's pass

frameVars == <<state, fpage, data, dirty, refcnt, lock>>
actorVars == <<pc, op, want, fr>>
vars == <<frameVars, free, map, disk, issued, actorVars, next>>

States == {"FREE", "LOADING", "VALID"}

PCs == {"idle", "take", "fill", "write", "register", "publish", "relookup",
        "using", "reject", "reading", "writing", "flush", "io", "clean",
        "scan"}

\* The call owns a frame that is on no list and in no map entry.
Private(a) == pc[a] \in {"fill", "write", "register"}

\* The call holds a pin on the frame in its hand.
Holding(a) ==
    pc[a] \in {"using", "reject", "reading", "writing", "flush", "io", "clean"}

\* The call holds the content lock of the frame in its hand.
Locking(a) == pc[a] \in {"reading", "writing", "io", "clean"}

Holders(f) == {a \in Actors : Holding(a) /\ fr[a] = f}

Mapped(p) == map[p] # NoFrame

-----------------------------------------------------------------------------
(* kds_buf_pool_init on a device that already holds the pages whose id is  *)
(* live; a page written by this code carries the DIRTY bit in its on-disk  *)
(* header, because both writers copy the header before they clear the bit. *)
Init ==
    /\ state = [f \in Frames |-> "FREE"]
    /\ fpage = [f \in Frames |-> NoPage]
    /\ data = [f \in Frames |-> Zero]
    /\ dirty = [f \in Frames |-> FALSE]
    /\ refcnt = [f \in Frames |-> 0]
    /\ lock = [f \in Frames |-> NoLock]
    /\ free = Frames
    /\ map = [p \in Pages |-> NoFrame]
    /\ issued \in [Pages -> {"no", "live"}]
    /\ \E content \in [Pages -> Vals] :
          disk = [p \in Pages |-> [data |-> content[p],
                                  dirty |-> issued[p] = "live"]]
    /\ pc = [a \in Actors |-> "idle"]
    /\ op = [a \in Actors |-> "load"]
    /\ want = [a \in Actors |-> NoPage]
    /\ fr = [a \in Actors |-> NoFrame]
    /\ next = 0

Goto(a, label) == pc' = [pc EXCEPT ![a] = label]

\* Mutation of Hit: the lookup forgets its pin.
HitUnpinned(a, p) ==
    /\ fr' = [fr EXCEPT ![a] = map[p]]
    /\ Goto(a, "using")
    /\ UNCHANGED refcnt

\* kds_buf_pin on the frame the map gives for p, and its return to the caller.
Hit(a, p) ==
    /\ refcnt' = [refcnt EXCEPT ![map[p]] = @ + 1]
    /\ fr' = [fr EXCEPT ![a] = map[p]]
    /\ Goto(a, "using")

\* kds_buf_lookup_or_load, fast path. A caller only knows ids that are live.
LookupHit(t, p) ==
    /\ pc[t] = "idle"
    /\ issued[p] = "live"
    /\ Mapped(p)
    /\ Hit(t, p)
    /\ op' = [op EXCEPT ![t] = "load"]
    /\ want' = [want EXCEPT ![t] = p]
    /\ UNCHANGED <<state, fpage, data, dirty, lock, free, map, disk, issued, next>>

LookupMiss(t, p) ==
    /\ pc[t] = "idle"
    /\ issued[p] = "live"
    /\ ~Mapped(p)
    /\ op' = [op EXCEPT ![t] = "load"]
    /\ want' = [want EXCEPT ![t] = p]
    /\ Goto(t, "take")
    /\ UNCHANGED <<frameVars, free, map, disk, issued, fr, next>>

\* kds_buf_alloc_new, up-front check. The owner of an id passes it in once.
AllocMiss(t, p) ==
    /\ pc[t] = "idle"
    /\ issued[p] = "no"
    /\ ~Mapped(p)
    /\ issued' = [issued EXCEPT ![p] = "pending"]
    /\ op' = [op EXCEPT ![t] = "alloc"]
    /\ want' = [want EXCEPT ![t] = p]
    /\ Goto(t, "take")
    /\ UNCHANGED <<frameVars, free, map, disk, fr, next>>

\* A cached id is pinned by the lookup, unpinned and refused with -EEXIST.
AllocHit(t, p) ==
    /\ pc[t] = "idle"
    /\ Mapped(p)
    /\ refcnt' = [refcnt EXCEPT ![map[p]] = @ + 1]
    /\ fr' = [fr EXCEPT ![t] = map[p]]
    /\ op' = [op EXCEPT ![t] = "alloc"]
    /\ want' = [want EXCEPT ![t] = p]
    /\ Goto(t, "reject")
    /\ UNCHANGED <<state, fpage, data, dirty, lock, free, map, disk, issued, next>>

\* A failed kds_buf_alloc_new leaves an id that nobody uses.
Burn(a) ==
    issued' = [issued EXCEPT ![want[a]] = IF op[a] = "alloc" THEN "burned" ELSE @]

\* Mutation of Take: the frame is not marked LOADING.
TakeUnmarked(t, f) ==
    /\ pc[t] = "take"
    /\ f \in free
    /\ free' = free \ {f}
    /\ fpage' = [fpage EXCEPT ![f] = want[t]]
    /\ fr' = [fr EXCEPT ![t] = f]
    /\ Goto(t, "fill")
    /\ UNCHANGED <<state, data, dirty, refcnt, lock, map, disk, issued,
                   op, want, next>>

\* kds_buf_take_free_frame, and the LOADING mark its two callers put on it.
Take(t, f) ==
    /\ pc[t] = "take"
    /\ f \in free
    /\ free' = free \ {f}
    /\ state' = [state EXCEPT ![f] = "LOADING"]
    /\ fpage' = [fpage EXCEPT ![f] = want[t]]
    /\ fr' = [fr EXCEPT ![t] = f]
    /\ Goto(t, "fill")
    /\ UNCHANGED <<data, dirty, refcnt, lock, map, disk, issued, op, want, next>>

\* -ENOSPC: the pool is full and nothing is ever evicted.
TakeFails(t) ==
    /\ pc[t] = "take"
    /\ free = {}
    /\ Burn(t)
    /\ Goto(t, "idle")
    /\ UNCHANGED <<frameVars, free, map, disk, op, want, fr, next>>

\* Mutation of Release: the error exit forgets the free list.
ReleaseLeaks(a) ==
    /\ state' = [state EXCEPT ![fr[a]] = "FREE"]
    /\ fpage' = [fpage EXCEPT ![fr[a]] = NoPage]
    /\ fr' = [fr EXCEPT ![a] = NoFrame]
    /\ UNCHANGED free

\* The error exits: FREE, page_id 0, back on the free list.
Release(a) ==
    /\ state' = [state EXCEPT ![fr[a]] = "FREE"]
    /\ fpage' = [fpage EXCEPT ![fr[a]] = NoPage]
    /\ free' = free \cup {fr[a]}
    /\ fr' = [fr EXCEPT ![a] = NoFrame]

\* Mutation of ReadFromDisk: the buffer is not filled from the disk.
ReadNothing(t) ==
    /\ pc[t] = "fill"
    /\ op[t] = "load"
    /\ data' = [data EXCEPT ![fr[t]] = Zero]
    /\ dirty' = [dirty EXCEPT ![fr[t]] = disk[want[t]].dirty]
    /\ refcnt' = [refcnt EXCEPT ![fr[t]] = 0]
    /\ Goto(t, "register")
    /\ UNCHANGED <<state, fpage, lock, free, map, disk, issued, op, want, fr, next>>

(* kds_frame_read_from_disk: the buffer and the header come from the disk, *)
(* the DIRTY bit that was in the header when it was written included.      *)
ReadFromDisk(t) ==
    /\ pc[t] = "fill"
    /\ op[t] = "load"
    /\ data' = [data EXCEPT ![fr[t]] = disk[want[t]].data]
    /\ dirty' = [dirty EXCEPT ![fr[t]] = disk[want[t]].dirty]
    /\ refcnt' = [refcnt EXCEPT ![fr[t]] = 0]
    /\ Goto(t, "register")
    /\ UNCHANGED <<state, fpage, lock, free, map, disk, issued, op, want, fr, next>>

\* kds_buf_alloc_new: the zeroed page with ALLOC | DIRTY in its header.
ZeroFill(t) ==
    /\ pc[t] = "fill"
    /\ op[t] = "alloc"
    /\ data' = [data EXCEPT ![fr[t]] = Zero]
    /\ dirty' = [dirty EXCEPT ![fr[t]] = TRUE]
    /\ refcnt' = [refcnt EXCEPT ![fr[t]] = 0]
    /\ Goto(t, "write")
    /\ UNCHANGED <<state, fpage, lock, free, map, disk, issued, op, want, fr, next>>

\* A failed disk read or a failed alloc_pages/vmalloc.
FillFails(t) ==
    /\ pc[t] = "fill"
    /\ Release(t)
    /\ Burn(t)
    /\ Goto(t, "idle")
    /\ UNCHANGED <<data, dirty, refcnt, lock, map, disk, op, want, next>>

(* kds_buf_alloc_new writes the page before it is registered and clears    *)
(* DIRTY. A failed write does not return: kds_write_logical_page panics.   *)
WriteNew(t) ==
    /\ pc[t] = "write"
    /\ disk' = [disk EXCEPT ![want[t]] =
                    [data |-> data[fr[t]], dirty |-> dirty[fr[t]]]]
    /\ dirty' = [dirty EXCEPT ![fr[t]] = FALSE]
    /\ Goto(t, "register")
    /\ UNCHANGED <<state, fpage, data, refcnt, lock, free, map, issued,
                   op, want, fr, next>>

(* kds_buf_register_frame: the insertion makes the frame visible to every  *)
(* lookup; the state and the pin follow, which lookups do not wait for.    *)
Register(t) ==
    /\ pc[t] = "register"
    /\ ~Mapped(want[t])
    /\ map' = [map EXCEPT ![want[t]] = fr[t]]
    /\ Goto(t, "publish")
    /\ UNCHANGED <<frameVars, free, disk, issued, op, want, fr, next>>

Publish(t) ==
    /\ pc[t] = "publish"
    /\ state' = [state EXCEPT ![fr[t]] = "VALID"]
    /\ refcnt' = [refcnt EXCEPT ![fr[t]] = @ + 1]
    /\ issued' = [issued EXCEPT ![want[t]] = "live"]
    /\ Goto(t, "using")
    /\ UNCHANGED <<fpage, data, dirty, lock, free, map, disk, op, want, fr, next>>

\* Mutation of RegisterExists: the loser loads again.
RegisterExistsRetries(t) ==
    /\ pc[t] = "register"
    /\ Mapped(want[t])
    /\ Release(t)
    /\ Burn(t)
    /\ Goto(t, "take")
    /\ UNCHANGED <<data, dirty, refcnt, lock, map, disk, op, want, next>>

\* -EEXIST: a racing loader was first. Our copy is dropped.
RegisterExists(t) ==
    /\ pc[t] = "register"
    /\ Mapped(want[t])
    /\ Release(t)
    /\ Burn(t)
    /\ Goto(t, IF op[t] = "load" THEN "relookup" ELSE "idle")
    /\ UNCHANGED <<data, dirty, refcnt, lock, map, disk, op, want, next>>

\* -ENOMEM for the map entry, or a failed rhashtable insertion.
RegisterFails(t) ==
    /\ pc[t] = "register"
    /\ Release(t)
    /\ Burn(t)
    /\ Goto(t, "idle")
    /\ UNCHANGED <<data, dirty, refcnt, lock, map, disk, op, want, next>>

\* The loser of the race picks up the winner's frame, or gives up: -ENOENT.
Relookup(t) ==
    /\ pc[t] = "relookup"
    /\ IF Mapped(want[t])
       THEN Hit(t, want[t])
       ELSE Goto(t, "idle") /\ UNCHANGED <<refcnt, fr>>
    /\ UNCHANGED <<state, fpage, data, dirty, lock, free, map, disk, issued,
                   op, want, next>>

\* kds_buf_unpin by the caller, and by kds_buf_alloc_new's rejection.
Unpin(t) ==
    /\ pc[t] \in {"using", "reject"}
    /\ refcnt' = [refcnt EXCEPT ![fr[t]] = @ - 1]
    /\ fr' = [fr EXCEPT ![t] = NoFrame]
    /\ Goto(t, "idle")
    /\ UNCHANGED <<state, fpage, data, dirty, lock, free, map, disk, issued,
                   op, want, next>>

-----------------------------------------------------------------------------
\* kds_page_lock / kds_page_unlock on the frame in the actor's hand.
Lock(a) ==
    /\ lock[fr[a]] = NoLock
    /\ lock' = [lock EXCEPT ![fr[a]] = a]

Unlock(a) ==
    /\ lock' = [lock EXCEPT ![fr[a]] = NoLock]

GetReadPtr(t) ==
    /\ pc[t] = "using"
    /\ Lock(t)
    /\ Goto(t, "reading")
    /\ UNCHANGED <<state, fpage, data, dirty, refcnt, free, map, disk, issued,
                   op, want, fr, next>>

PutReadPtr(t) ==
    /\ pc[t] = "reading"
    /\ Unlock(t)
    /\ Goto(t, "using")
    /\ UNCHANGED <<state, fpage, data, dirty, refcnt, free, map, disk, issued,
                   op, want, fr, next>>

\* kds_frame_get_write_ptr and the caller's stores through the pointer.
GetWritePtr(t, v) ==
    /\ pc[t] = "using"
    /\ Lock(t)
    /\ data' = [data EXCEPT ![fr[t]] = v]
    /\ Goto(t, "writing")
    /\ UNCHANGED <<state, fpage, dirty, refcnt, free, map, disk, issued,
                   op, want, fr, next>>

PutWritePtr(t) ==
    /\ pc[t] = "writing"
    /\ dirty' = [dirty EXCEPT ![fr[t]] = TRUE]
    /\ Unlock(t)
    /\ Goto(t, "using")
    /\ UNCHANGED <<state, fpage, data, refcnt, free, map, disk, issued,
                   op, want, fr, next>>

-----------------------------------------------------------------------------
\* kds_frame_flush, called with a pin held (wal.c, and the pass below).
FlushStart(t) ==
    /\ pc[t] = "using"
    /\ t # Ckpt
    /\ Goto(t, "flush")
    /\ UNCHANGED <<frameVars, free, map, disk, issued, op, want, fr, next>>

FlushLock(a) ==
    /\ pc[a] = "flush"
    /\ dirty[fr[a]]
    /\ Lock(a)
    /\ Goto(a, "io")
    /\ UNCHANGED <<state, fpage, data, dirty, refcnt, free, map, disk, issued,
                   op, want, fr, next>>

\* The lock is taken and dropped: the frame is clean.
FlushSkip(a) ==
    /\ pc[a] = "flush"
    /\ ~dirty[fr[a]]
    /\ lock[fr[a]] = NoLock
    /\ Goto(a, "using")
    /\ UNCHANGED <<frameVars, free, map, disk, issued, op, want, fr, next>>

FlushWrite(a) ==
    /\ pc[a] = "io"
    /\ disk' = [disk EXCEPT ![fpage[fr[a]]] =
                    [data |-> data[fr[a]], dirty |-> dirty[fr[a]]]]
    /\ Goto(a, "clean")
    /\ UNCHANGED <<frameVars, free, map, issued, op, want, fr, next>>

FlushClean(a) ==
    /\ pc[a] = "clean"
    /\ dirty' = [dirty EXCEPT ![fr[a]] = FALSE]
    /\ Unlock(a)
    /\ Goto(a, "using")
    /\ UNCHANGED <<state, fpage, data, refcnt, free, map, disk, issued,
                   op, want, fr, next>>

\* kds_buf_flush_dirty_frames: one pass over the frame array.
PassStart ==
    /\ pc[Ckpt] = "idle"
    /\ next' = 1
    /\ Goto(Ckpt, "scan")
    /\ UNCHANGED <<frameVars, free, map, disk, issued, op, want, fr>>

\* Mutation of Due: a frame somebody has pinned is left for the next pass.
DueUnpinned(f) == state[f] = "VALID" /\ dirty[f] /\ refcnt[f] = 0

\* The unlocked test of the state and of the DIRTY bit.
Due(f) == state[f] = "VALID" /\ dirty[f]

\* Mutation of Advance: the pass ends one frame early.
AdvanceShort ==
    /\ next' = IF next + 1 >= NFrames THEN 0 ELSE next + 1
    /\ Goto(Ckpt, IF next + 1 >= NFrames THEN "idle" ELSE "scan")

Advance ==
    /\ next' = IF next = NFrames THEN 0 ELSE next + 1
    /\ Goto(Ckpt, IF next = NFrames THEN "idle" ELSE "scan")

PassSkip ==
    /\ pc[Ckpt] = "scan"
    /\ ~Due(next)
    /\ Advance
    /\ UNCHANGED <<frameVars, free, map, disk, issued, op, want, fr>>

PassPin ==
    /\ pc[Ckpt] = "scan"
    /\ Due(next)
    /\ refcnt' = [refcnt EXCEPT ![next] = @ + 1]
    /\ fr' = [fr EXCEPT ![Ckpt] = next]
    /\ want' = [want EXCEPT ![Ckpt] = fpage[next]]
    /\ Goto(Ckpt, "flush")
    /\ UNCHANGED <<state, fpage, data, dirty, lock, free, map, disk, issued,
                   op, next>>

PassUnpin ==
    /\ pc[Ckpt] = "using"
    /\ refcnt' = [refcnt EXCEPT ![fr[Ckpt]] = @ - 1]
    /\ fr' = [fr EXCEPT ![Ckpt] = NoFrame]
    /\ Advance
    /\ UNCHANGED <<state, fpage, data, dirty, lock, free, map, disk, issued,
                   op, want>>

-----------------------------------------------------------------------------
Load(t) ==
    \/ \E p \in Pages : LookupHit(t, p) \/ LookupMiss(t, p)
    \/ ReadFromDisk(t)
    \/ Relookup(t)

Alloc(t) ==
    \/ \E p \in Pages : AllocMiss(t, p) \/ AllocHit(t, p)
    \/ ZeroFill(t)
    \/ WriteNew(t)

GetFrame(t) ==
    \/ \E f \in Frames : Take(t, f)
    \/ TakeFails(t)
    \/ FillFails(t)
    \/ Register(t)
    \/ Publish(t)
    \/ RegisterExists(t)
    \/ RegisterFails(t)

Use(t) ==
    \/ GetReadPtr(t)
    \/ PutReadPtr(t)
    \/ \E v \in Vals : GetWritePtr(t, v)
    \/ PutWritePtr(t)
    \/ FlushStart(t)
    \/ Unpin(t)

Flush(a) ==
    \/ FlushLock(a)
    \/ FlushSkip(a)
    \/ FlushWrite(a)
    \/ FlushClean(a)

Pass ==
    \/ PassStart
    \/ PassSkip
    \/ PassPin
    \/ PassUnpin

Next ==
    \/ \E t \in Threads : Load(t) \/ Alloc(t) \/ GetFrame(t) \/ Use(t)
    \/ \E a \in Actors : Flush(a)
    \/ Pass

Spec == Init /\ [][Next]_vars

(* Every call in the pool runs to its end, the checkpointer is scheduled   *)
(* again and again (main.c, kds_worker), and the content lock is a kernel  *)
(* spinlock, which is granted in the order of arrival.                     *)
Fairness ==
    /\ \A t \in Threads :
          /\ WF_vars(GetFrame(t) \/ ReadFromDisk(t) \/ Relookup(t)
                     \/ ZeroFill(t) \/ WriteNew(t))
          /\ WF_vars(PutReadPtr(t) \/ PutWritePtr(t))
    /\ \A a \in Actors :
          /\ SF_vars(FlushLock(a) \/ FlushSkip(a))
          /\ WF_vars(FlushWrite(a) \/ FlushClean(a))
    /\ WF_vars(Pass)

FairSpec == Spec /\ Fairness

-----------------------------------------------------------------------------
TypeOK ==
    /\ state \in [Frames -> States]
    /\ fpage \in [Frames -> Pages \cup {NoPage}]
    /\ data \in [Frames -> Vals]
    /\ dirty \in [Frames -> BOOLEAN]
    /\ refcnt \in [Frames -> Int]
    /\ lock \in [Frames -> Actors \cup {NoLock}]
    /\ free \subseteq Frames
    /\ map \in [Pages -> Frames \cup {NoFrame}]
    /\ disk \in [Pages -> [data : Vals, dirty : BOOLEAN]]
    /\ issued \in [Pages -> {"no", "pending", "live", "burned"}]
    /\ pc \in [Actors -> PCs]
    /\ op \in [Actors -> {"load", "alloc"}]
    /\ want \in [Actors -> Pages \cup {NoPage}]
    /\ fr \in [Actors -> Frames \cup {NoFrame}]
    /\ next \in 0..NFrames

(* No frame is lost or has two owners, whichever error exit of the two     *)
(* allocation paths is taken and however they interleave: a frame is on    *)
(* the free list, or in the hand of one call that is filling it, or in the *)
(* map under the one page id it carries.                                   *)
FrameConservation ==
    \A f \in Frames :
        LET fillers == {a \in Actors : Private(a) /\ fr[a] = f}
            keys == {p \in Pages : map[p] = f}
        IN  /\ f \in free => fillers = {} /\ keys = {}
            /\ f \notin free =>
                  \/ (\E a \in Actors : fillers = {a}) /\ keys = {}
                  \/ fillers = {} /\ keys = {fpage[f]}

(* Whoever comes back from kds_buf_lookup_or_load or kds_buf_alloc_new     *)
(* holds the frame the map gives for the page it asked for: two racing     *)
(* loaders never end up with two buffers of one page.                      *)
HandleIsCurrent ==
    \A a \in Actors : Holding(a) => fr[a] # NoFrame /\ map[want[a]] = fr[a]

(* kp->refcnt counts exactly the pins that callers hold, through the races *)
(* of registration, rejection and the checkpointer's own pins.             *)
PinsAccounted ==
    \A p \in Pages :
        Mapped(p) => refcnt[map[p]] = Cardinality(Holders(map[p]))

\* A page's clean frame agrees with the disk, unless a writer has it open.
CleanFrame(p) ==
    Mapped(p) /\ ~dirty[map[p]] =>
        \/ disk[p].data = data[map[p]]
        \/ \E a \in Actors : pc[a] = "writing" /\ fr[a] = map[p]

(* A frame that is not marked DIRTY can be dropped without loss: unless a  *)
(* writer is between its stores and its put_write_ptr, the disk holds the  *)
(* same contents. This is what the checkpointer's skip of clean frames     *)
(* relies on.                                                              *)
CleanIsOnDisk == \A p \in Pages : CleanFrame(p)

(* The -ENOENT exit of kds_buf_lookup_or_load is dead code: an entry that  *)
(* made the registration fail is still there when it is looked up again.   *)
LoserFindsWinner ==
    \A t \in Threads : pc[t] = "relookup" => Mapped(want[t])

(* What page_mgr.c says of the pass: "flush all dirty frames in the pool". *)
(* A frame the pass steps over holds nothing that the disk does not hold,  *)
(* though it looks at state and flags without a lock; unless it is open    *)
(* for writing, or registered and not yet VALID: kds_buf_register_frame    *)
(* lets others find and change the page before its state is set.           *)
PassSkipsOnlySaved ==
    [][PassSkip =>
          \A p \in Pages : map[p] = next =>
              \/ disk[p].data = data[next]
              \/ \E t \in Threads : pc[t] \in {"writing", "publish"} /\ fr[t] = next]_vars

\* The page as its readers find it.
Contents(p) ==
    IF issued[p] # "live" THEN Absent
    ELSE IF Mapped(p) THEN data[map[p]] ELSE disk[p].data

\* What a thread has open through a read or a write pointer.
Opened(t) ==
    IF pc[t] = "reading" THEN <<"read", want[t]>>
    ELSE IF pc[t] = "writing" THEN <<"write", want[t]>>
    ELSE << >>

Store == INSTANCE PageStore WITH store <- [p \in Pages |-> Contents(p)],
                                 access <- [t \in Threads |-> Opened(t)]

(* The pool implements the store: loading, losing a race, registering,     *)
(* flushing and failing never change what a page contains, and threads     *)
(* that reach a page along different paths still have it one at a time.    *)
ImplementsPageStore == Store!Spec

(* Every call that asks for a page returns, with a frame or an error.      *)
CallsReturn ==
    \A t \in Threads : pc[t] = "take" ~> pc[t] \in {"idle", "using"}

(* The checkpointer's passes write every dirty page out in the end.        *)
DirtyIsWritten ==
    \A p \in Pages : Mapped(p) /\ dirty[map[p]] ~> Mapped(p) /\ ~dirty[map[p]]

============================================================================
