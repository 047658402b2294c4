-------------------------------- MODULE Wal --------------------------------
(***************************************************************************)
(* The write-ahead log of wal.c: the ring buffer that kds_wal_append fills *)
(* under its spinlock, kds_wal_flush that drains it into a chain of WAL    *)
(* pages, and the checkpointer proc that calls both.  Executors append on  *)
(* one CPU while the checkpointer flushes on another; the flush takes the  *)
(* lock only to snapshot the offsets and to advance flush_off, so each of  *)
(* its unlocked stores is a step of its own.                               *)
(*                                                                         *)
(* A byte of the log is its absolute offset, so the contents of the ring   *)
(* and of a page say which bytes of the log they hold.  WAL pages are      *)
(* numbered in the order in which the allocator hands them out: the ids    *)
(* the ring of page_alloc.c yields within a boot increase, and only their  *)
(* order matters to an LSN.                                                *)
(***************************************************************************)
EXTENDS Integers, Sequences

CONSTANTS BufSize,   \* KDS_WAL_BUF_SIZE
          Payload,   \* KDS_WAL_PAGE_PAYLOAD
          MaxLen,    \* KDS_WAL_MAX_REC_SIZE, header and body
          CkptLen,   \* length of a CHECKPOINT record
          MaxRecs,   \* bound on the executors' records
          MaxFails   \* bound on failing calls of kds_page_alloc

ASSUME WalAssumption ==
  /\ BufSize \in Nat \ {0}
  /\ Payload \in Nat \ {0}
  /\ MaxLen \in Nat \ {0}
  /\ CkptLen \in 1 .. MaxLen
  /\ MaxRecs \in Nat
  /\ MaxFails \in Nat

VARIABLES ring,       \* buf->buf: the log byte each cell holds, -1 for none
          write_off,  \* buf->write_off
          flush_off,  \* buf->flush_off
          tail_page,  \* buf->tail_page_id
          tail_used,  \* buf->tail_used
          mem,        \* the WAL pages as the buffer pool holds them
          disk,       \* the WAL pages as the disk holds them
          flush_lsn,  \* g_wal->flush_lsn
          ckpt_lsn,   \* g_wal->checkpointed_lsn
          recs,       \* the records appended, in order, with their LSNs
          pc,         \* where the checkpointer is
          caller,     \* which call of kds_wal_flush it is in
          from,       \* flush_start, advanced chunk by chunk
          upto,       \* flush_end, the snapshot of write_off
          count,      \* executors' records so far
          fails       \* failed page allocations so far

buffer == <<ring, write_off, recs>>
tail == <<tail_page, tail_used>>
pages == <<mem, disk>>
lsns == <<flush_lsn, ckpt_lsn>>
flush == <<caller, from, upto>>
vars == <<buffer, flush_off, tail, pages, lsns, pc, flush, count, fails>>

(* An LSN is a page id and an offset into its payload, ordered as the u64  *)
(* kds_lsn_make packs them into; 0 is KDS_LSN_INVALID.                     *)
Lsn(page, off) == <<page, off>>

NoLsn == Lsn(0, 0)

LsnLess(a, b) == a[1] < b[1] \/ (a[1] = b[1] /\ a[2] < b[2])

(* Every executor's record is followed by at most one CHECKPOINT record,   *)
(* which bounds the log and with it the number of WAL pages.               *)
MaxBytes == MaxRecs * (MaxLen + CkptLen)

Pages == 1 .. MaxBytes \div Payload + 1

(* A page as wal_alloc_page leaves it, and as its preallocated image is on *)
(* disk: no payload, no next page.                                         *)
Fresh == [bytes |-> <<>>, next |-> 0]

Init ==
  /\ ring = [i \in 0 .. BufSize - 1 |-> -1]
  /\ write_off = 0
  /\ flush_off = 0
  /\ tail_page = 1
  /\ tail_used = 0
  /\ mem = [p \in Pages |-> Fresh]
  /\ disk = [p \in Pages |-> Fresh]
  /\ flush_lsn = NoLsn
  /\ ckpt_lsn = NoLsn
  /\ recs = <<>>
  /\ pc = "idle"
  /\ caller = "proc"
  /\ from = 0
  /\ upto = 0
  /\ count = 0
  /\ fails = 0

(***************************************************************************)
(* kds_wal_append, under buf->lock.                                        *)
(***************************************************************************)
Used == write_off - flush_off

Free == BufSize - Used

(* The LSN a record is given: from the tail as it is now, and all that is  *)
(* buffered in front of the record.                                        *)
NextLsn == Lsn(tail_page, tail_used + Used)

PutOver(len) ==
  /\ ring' = [i \in DOMAIN ring |->
                LET k == CHOOSE k \in write_off .. write_off + BufSize - 1 :
                           k % BufSize = i
                IN IF k < write_off + len THEN k ELSE ring[i]]
  /\ write_off' = write_off + len
  /\ recs' = Append(recs, [at |-> write_off, len |-> len, lsn |-> NextLsn])

(* The record is copied behind write_off, wrapping at the end of the ring. *)
Put(len) ==
  /\ len <= Free
  /\ ring' = [i \in DOMAIN ring |->
                LET k == CHOOSE k \in write_off .. write_off + BufSize - 1 :
                           k % BufSize = i
                IN IF k < write_off + len THEN k ELSE ring[i]]
  /\ write_off' = write_off + len
  /\ recs' = Append(recs, [at |-> write_off, len |-> len, lsn |-> NextLsn])

(* An executor appends a record.  With too little room kds_wal_append      *)
(* returns -ENOSPC and changes nothing.                                    *)
AppendRecord(len) ==
  /\ pc # "panic"
  /\ count < MaxRecs
  /\ Put(len)
  /\ count' = count + 1
  /\ UNCHANGED <<flush_off, tail, pages, lsns, pc, flush, fails>>

(***************************************************************************)
(* kds_wal_flush, called with caller = "proc" by the checkpointer and with *)
(* caller = "ckpt" by kds_wal_checkpoint.                                  *)
(***************************************************************************)
FlushStartShort(who) ==
  /\ caller' = who
  /\ from' = flush_off
  /\ upto' = IF flush_off = write_off THEN write_off ELSE write_off - 1
  /\ pc' = IF flush_off = write_off THEN "flushed" ELSE "copy"

(* The snapshot under the lock, and the early return when it is empty.     *)
FlushStart(who) ==
  /\ caller' = who
  /\ from' = flush_off
  /\ upto' = write_off
  /\ pc' = IF flush_off = write_off THEN "flushed" ELSE "copy"

Full(page) == Len(mem[page].bytes) >= Payload

MinOf(a, b) == IF a < b THEN a ELSE b

Chunk == MinOf(upto - from, Payload - Len(mem[tail_page].bytes))

(* One chunk goes from the ring to the tail page, and the page to disk.    *)
Copy ==
  /\ pc = "copy"
  /\ ~ Full(tail_page)
  /\ LET page == [mem[tail_page] EXCEPT !.bytes =
                    @ \o [i \in 1 .. Chunk |-> ring[(from + i - 1) % BufSize]]]
     IN /\ mem' = [mem EXCEPT ![tail_page] = page]
        /\ disk' = [disk EXCEPT ![tail_page] = page]
        /\ from' = from + Chunk
  /\ pc' = "tail"
  /\ UNCHANGED <<buffer, flush_off, tail, lsns, caller, upto, count, fails>>

(* The loop's condition: bytes_to_flush > 0. *)
Loop == IF from < upto THEN "copy" ELSE "advance"

(* buf->tail_used = whdr->used_bytes, without the lock. *)
TailUsed ==
  /\ pc = "tail"
  /\ tail_used' = Len(mem[tail_page].bytes)
  /\ pc' = IF Full(tail_page) THEN "grow" ELSE Loop
  /\ UNCHANGED <<buffer, flush_off, tail_page, pages, lsns, flush, count, fails>>

(* The page after the tail, which wal_alloc_page returns. *)
NewPage == tail_page + 1

Linked == [mem EXCEPT ![tail_page].next = NewPage]

GrowUnlinked ==
  /\ pc = "grow"
  /\ mem' = Linked
  /\ pc' = "newtail"
  /\ UNCHANGED <<buffer, flush_off, tail, disk, lsns, flush, count, fails>>

(* The page is full: the next one is linked to it, and the link is flushed *)
(* to disk before the new page can receive a byte.                         *)
Grow ==
  /\ pc = "grow"
  /\ mem' = Linked
  /\ disk' = [disk EXCEPT ![tail_page] = Linked[tail_page]]
  /\ pc' = "newtail"
  /\ UNCHANGED <<buffer, flush_off, tail, lsns, flush, count, fails>>

(* No page: the loop is left by a break, whatever is still to be flushed.  *)
GrowFails ==
  /\ pc = "grow"
  /\ fails < MaxFails
  /\ fails' = fails + 1
  /\ pc' = "advance"
  /\ UNCHANGED <<buffer, flush_off, tail, pages, lsns, flush, count>>

(* A flush that finds the tail page full grows the chain first; here the   *)
(* link stays in memory, as a dirty page.                                  *)
GrowLate ==
  /\ pc = "copy"
  /\ Full(tail_page)
  /\ mem' = Linked
  /\ pc' = "newtail"
  /\ UNCHANGED <<buffer, flush_off, tail, disk, lsns, flush, count, fails>>

(* No page here either: kds_wal_flush returns the error and both its       *)
(* callers panic.                                                          *)
GrowLateFails ==
  /\ pc = "copy"
  /\ Full(tail_page)
  /\ fails < MaxFails
  /\ fails' = fails + 1
  /\ pc' = "panic"
  /\ UNCHANGED <<buffer, flush_off, tail, pages, lsns, flush, count>>

TailPageKeeps ==
  /\ pc = "newtail"
  /\ pc' = "reset"
  /\ UNCHANGED <<buffer, flush_off, tail, pages, lsns, flush, count, fails>>

(* The tail moves to the new page in two stores, without the lock. *)
TailPage ==
  /\ pc = "newtail"
  /\ tail_page' = NewPage
  /\ pc' = "reset"
  /\ UNCHANGED <<buffer, flush_off, tail_used, pages, lsns, flush, count, fails>>

TailReset ==
  /\ pc = "reset"
  /\ tail_used' = 0
  /\ pc' = Loop
  /\ UNCHANGED <<buffer, flush_off, tail_page, pages, lsns, flush, count, fails>>

(* flush_off catches up with the snapshot, under the lock. *)
Advance ==
  /\ pc = "advance"
  /\ flush_off' = upto
  /\ pc' = "lsn"
  /\ UNCHANGED <<buffer, tail, pages, lsns, flush, count, fails>>

SetFlushLsn ==
  /\ pc = "lsn"
  /\ flush_lsn' = Lsn(tail_page, tail_used)
  /\ pc' = "flushed"
  /\ UNCHANGED <<buffer, flush_off, tail, pages, ckpt_lsn, flush, count, fails>>

(***************************************************************************)
(* kds_wal_checkpointer_proc and kds_wal_checkpoint.                       *)
(***************************************************************************)
(* A slice begins with a flush: kds_wal_need_flush compares write_off with *)
(* the address of flush_off, so it never says no.                          *)
ProcStart ==
  /\ pc = "idle"
  /\ FlushStart("proc")
  /\ UNCHANGED <<buffer, flush_off, tail, pages, lsns, count, fails>>

NeedCheckpoint == flush_lsn # NoLsn /\ LsnLess(ckpt_lsn, flush_lsn)

(* Nothing new was flushed: the slice ends. *)
ProcYields ==
  /\ pc = "flushed"
  /\ caller = "proc"
  /\ ~ NeedCheckpoint
  /\ pc' = "idle"
  /\ UNCHANGED <<buffer, flush_off, tail, pages, lsns, flush, count, fails>>

(* kds_buf_flush_dirty_frames: every WAL page that is dirty reaches disk.  *)
FlushDirtyFrames ==
  /\ pc = "flushed"
  /\ caller = "proc"
  /\ NeedCheckpoint
  /\ disk' = mem
  /\ pc' = "ckpt"
  /\ UNCHANGED <<buffer, flush_off, tail, mem, lsns, flush, count, fails>>

(* The CHECKPOINT record. *)
CkptAppend ==
  /\ pc = "ckpt"
  /\ Put(CkptLen)
  /\ pc' = "ckptflush"
  /\ UNCHANGED <<flush_off, tail, pages, lsns, flush, count, fails>>

(* No room for it: the checkpoint is given up with a warning. *)
CkptFull ==
  /\ pc = "ckpt"
  /\ CkptLen > Free
  /\ pc' = "idle"
  /\ UNCHANGED <<buffer, flush_off, tail, pages, lsns, flush, count, fails>>

CkptFlush ==
  /\ pc = "ckptflush"
  /\ FlushStart("ckpt")
  /\ UNCHANGED <<buffer, flush_off, tail, pages, lsns, count, fails>>

(* checkpointed_lsn becomes the flush LSN, which lies past the record. *)
CkptDone ==
  /\ pc = "flushed"
  /\ caller = "ckpt"
  /\ ckpt_lsn' = flush_lsn
  /\ pc' = "idle"
  /\ UNCHANGED <<buffer, flush_off, tail, pages, flush_lsn, flush, count, fails>>

Flush ==
  \/ Copy \/ TailUsed \/ Grow \/ GrowFails \/ GrowLate \/ GrowLateFails
  \/ TailPage \/ TailReset \/ Advance \/ SetFlushLsn

Checkpointer ==
  \/ ProcStart \/ Flush \/ ProcYields \/ FlushDirtyFrames
  \/ CkptAppend \/ CkptFull \/ CkptFlush \/ CkptDone

Next == Checkpointer \/ \E len \in 1 .. MaxLen : AppendRecord(len)

Spec == Init /\ [][Next]_vars

(* The worker threads keep running the checkpointer proc. *)
FairSpec == Spec /\ WF_vars(Checkpointer)

-----------------------------------------------------------------------------
Lsns == Nat \X Nat

TypeOK ==
  /\ ring \in [0 .. BufSize - 1 -> -1 .. MaxBytes - 1]
  /\ write_off \in 0 .. MaxBytes
  /\ flush_off \in 0 .. write_off
  /\ tail_page \in Pages
  /\ tail_used \in 0 .. Payload
  /\ \A p \in Pages : \A image \in {mem[p], disk[p]} :
       /\ image.next \in {0, p + 1}
       /\ Len(image.bytes) <= Payload
  /\ flush_lsn \in Lsns /\ ckpt_lsn \in Lsns
  /\ pc \in {"idle", "copy", "tail", "grow", "newtail", "reset", "advance",
             "lsn", "flushed", "ckpt", "ckptflush", "panic"}
  /\ caller \in {"proc", "ckpt"}
  /\ from \in 0 .. upto
  /\ upto \in 0 .. write_off
  /\ count \in 0 .. MaxRecs
  /\ fails \in 0 .. MaxFails

UnflushedInRing == \A k \in flush_off .. write_off - 1 : ring[k % BufSize] = k

(* No append overwrites a byte that is still to be flushed: kds_wal_append *)
(* compares the record with the free room before it wraps around the ring, *)
(* while a flush that holds no lock is reading it.                         *)
BufferedIsIntact == TypeOK /\ UnflushedInRing

(* Neither flush_lsn nor checkpointed_lsn ever goes back: recovery and     *)
(* kds_wal_need_checkpoint compare them as if they only grew.              *)
LsnsAdvance ==
  [][~ LsnLess(flush_lsn', flush_lsn) /\ ~ LsnLess(ckpt_lsn', ckpt_lsn)]_vars

(***************************************************************************)
(* What a reader of the disk finds: it follows next_wal_page_id from the   *)
(* first page on, and every page but the last is full.                     *)
(***************************************************************************)
Reachable(p) == \A q \in 1 .. p - 1 : disk[q].next = q + 1

Readable(k) ==
  LET p == k \div Payload + 1
      i == (k % Payload) + 1
  IN /\ p \in Pages
     /\ Reachable(p)
     /\ i <= Len(disk[p].bytes)
     /\ disk[p].bytes[i] = k

ReadablePrefix ==
  CHOOSE n \in 0 .. write_off :
    /\ \A k \in 0 .. n - 1 : Readable(k)
    /\ n = write_off \/ ~ Readable(n)

(* The ring, the chain of pages and the checkpointer implement the log of  *)
(* module Log: the disk holds a growing prefix of what was appended, in    *)
(* order and across page boundaries, and flush_off is never ahead of it.   *)
(* This lasts until kds_page_alloc first fails a flush: the loop then ends *)
(* with flush_off moved past bytes that were never written.                *)
TheLog == INSTANCE Log WITH appended <- write_off, durable <- ReadablePrefix,
                            reported <- flush_off

ImplementsLog == TheLog!Init /\ [][fails' > 0 \/ TheLog!Next]_(TheLog!vars)

(* Whatever kds_wal_append accepted is on disk eventually, as long as the  *)
(* log gets its pages.                                                     *)
AppendedIsLogged ==
  \A n \in 1 .. MaxBytes : write_off >= n ~> ReadablePrefix >= n \/ fails > 0

=============================================================================
