-------------------------------- MODULE Heap --------------------------------
(***************************************************************************)
(* The slotted pages of heap.c and the update path of undo.c, on one heap  *)
(* page and one undo page.  Every function of heap.c holds the page lock   *)
(* for its whole body and is one step; kds_heap_update_tuple calls several *)
(* of them and holds nothing in between.                                   *)
(*                                                                         *)
(* Offsets and lengths are the code's, in units the constants scale down;  *)
(* a tuple's payload is its length and a version number.                   *)
(***************************************************************************)
EXTENDS Integers, Sequences, FiniteSets

CONSTANTS Threads,   \* callers of kds_heap_update_tuple
          Lens,      \* payload lengths callers pass, each a u16
          Word,      \* 2^16: lengths and offsets are u16
          PageSize,  \* KDS_PAGE_SIZE
          AreaOff,   \* KDS_HEAP_AREA_OFFSET
          NextOff,   \* KDS_HEAP_NEXT_PAGE_OFFSET
          SlotSize,  \* sizeof(kds_heap_slot_t)
          HdrSize,   \* KDS_HEAP_TUPLE_HDR_SIZE
          UndoSize,  \* sizeof(kds_undo_entry_t)
          MaxOld,    \* KDS_UNDO_MAX_OLD_DATA
          MaxVers    \* bound on the versions written

ASSUME HeapAssumption ==
  /\ {Word, PageSize, AreaOff, NextOff, SlotSize, HdrSize, UndoSize, MaxOld, MaxVers}
       \subseteq Nat
  /\ Lens \subseteq 0 .. Word - 1
  /\ 0 < SlotSize /\ 0 < HdrSize /\ MaxOld <= UndoSize
  /\ AreaOff <= NextOff /\ NextOff <= PageSize
  /\ PageSize + SlotSize + HdrSize < Word

VARIABLES page,  \* "heap" and "undo": slot directory, lower and upper
          hist,  \* every row's versions, oldest first
          vers,  \* versions written so far
          upd,   \* every thread's call of kds_heap_update_tuple
          raced, \* rows two updates were at work on at once
          lost   \* rows whose update found no room to move to

ghosts == <<raced, lost>>
vars == <<page, hist, vers, upd, ghosts>>

(* heap_init_page_as: an empty page. *)
InitPage == [slots |-> <<>>, lower |-> AreaOff, upper |-> NextOff]

(* No update in progress. *)
Idle == [pc |-> "idle", slot |-> 0, new |-> 0, len |-> 0,
         old |-> [row |-> 0, ver |-> 0, len |-> 0, undo |-> 0, xmax |-> 0], ptr |-> 0]

Init ==
  /\ page = [p \in {"heap", "undo"} |-> InitPage]
  /\ hist = <<>>
  /\ vers = 0
  /\ upd = [t \in Threads |-> Idle]
  /\ raced = {}
  /\ lost = {}

(***************************************************************************)
(* heap.c                                                                  *)
(***************************************************************************)
(* A slot is dead when its flag is set; heap_retire_slot also zeroes its   *)
(* length.  An index past the directory is treated alike: -ENOENT.         *)
LiveSlot(p, s) == s \in DOMAIN page[p].slots /\ ~ page[p].slots[s].dead

Needed(len) == (SlotSize + HdrSize + len) % Word

FitsNoSlot(p, len) ==
  /\ len <= PageSize
  /\ (page[p].upper - page[p].lower) % Word >= HdrSize + len

(* heap_insert_tuple_ex refuses lengths over a page before it adds to them *)
(* in 16 bits, then compares with upper - lower.                           *)
Fits(p, len) ==
  /\ len <= PageSize
  /\ (page[p].upper - page[p].lower) % Word >= Needed(len)

InsertReusing(p, len, tup) ==
  LET upper == (page[p].upper - (HdrSize + len)) % Word
      slot == [off |-> upper, len |-> HdrSize + len, dead |-> FALSE, tup |-> tup]
      dead == {s \in DOMAIN page[p].slots : page[p].slots[s].dead}
  IN IF dead = {}
     THEN [slots |-> Append(page[p].slots, slot),
           lower |-> page[p].lower + SlotSize, upper |-> upper]
     ELSE [slots |-> [page[p].slots EXCEPT ![CHOOSE s \in dead : TRUE] = slot],
           lower |-> page[p].lower, upper |-> upper]

(* The tuple goes below upper, and a slot for it at the end of the directory. *)
InsertInto(p, len, tup) ==
  LET upper == (page[p].upper - (HdrSize + len)) % Word
      slot == [off |-> upper, len |-> HdrSize + len, dead |-> FALSE, tup |-> tup]
  IN [slots |-> Append(page[p].slots, slot),
      lower |-> page[p].lower + SlotSize,
      upper |-> upper]

(* heap_overwrite_tuple: the slot keeps its offset and its length. *)
Overwritten(p, s, tup) == [page[p] EXCEPT !.slots[s].tup = tup]

(* heap_retire_slot *)
Retired(p, s) ==
  [page[p] EXCEPT !.slots[s].dead = TRUE, !.slots[s].len = 0]

(* heap_slot_capacity *)
Capacity(p, s) == page[p].slots[s].len - HdrSize

Tuple(row, ver, len, undo) ==
  [row |-> row, ver |-> ver, len |-> len, undo |-> undo, xmax |-> 0]

(* A new row: heap_insert_tuple, with no undo entry. *)
InsertRow(len) ==
  /\ vers < MaxVers
  /\ Fits("heap", len)
  /\ page' = [page EXCEPT !["heap"] =
                InsertInto("heap", len, Tuple(Len(hist) + 1, vers + 1, len, 0))]
  /\ hist' = Append(hist, <<vers + 1>>)
  /\ vers' = vers + 1
  /\ UNCHANGED <<upd, ghosts>>

(* heap_delete_tuple stamps xmax and leaves the tuple where it is. *)
DeleteRow(s) ==
  /\ LiveSlot("heap", s)
  /\ page' = [page EXCEPT !["heap"].slots[s].tup.xmax = 1]
  /\ UNCHANGED <<hist, vers, upd, ghosts>>

(***************************************************************************)
(* undo.c: kds_heap_update_tuple by thread t of slot s.                    *)
(***************************************************************************)
Step(t, call) == upd' = [upd EXCEPT ![t] = call]

(* The call, and its first read, of the header alone.  A dead slot, or a   *)
(* payload too long for an undo entry, ends it here.                       *)
UpdateStart(t, s, len) ==
  /\ upd[t].pc = "idle"
  /\ vers < MaxVers
  /\ LiveSlot("heap", s)
  /\ LET old == page["heap"].slots[s].tup
     IN /\ old.len <= MaxOld
        /\ Step(t, [upd[t] EXCEPT !.pc = IF old.len > 0 THEN "read" ELSE "undo",
                                  !.slot = s, !.new = vers + 1, !.len = len,
                                  !.old = old])
        /\ raced' = raced \union
             ({old.row} \intersect {upd[u].old.row : u \in {u \in Threads : upd[u].pc # "idle"}})
  /\ vers' = vers + 1
  /\ UNCHANGED <<page, hist, lost>>

(* The second read, of header and payload, into a buffer of the size the   *)
(* first one found.                                                        *)
UpdateRead(t) ==
  /\ upd[t].pc = "read"
  /\ LET s == upd[t].slot
         old == page["heap"].slots[s].tup
     IN IF LiveSlot("heap", s) /\ old.len <= upd[t].old.len
        THEN Step(t, [upd[t] EXCEPT !.pc = "undo", !.old = old])
        ELSE Step(t, Idle)
  /\ UNCHANGED <<page, hist, vers, ghosts>>

UndoWriteUnchained(t) ==
  /\ upd[t].pc = "undo"
  /\ Fits("undo", UndoSize)
  /\ page' = [page EXCEPT !["undo"] =
                InsertInto("undo", UndoSize, [upd[t].old EXCEPT !.undo = 0])]
  /\ Step(t, [upd[t] EXCEPT !.pc = "fit", !.ptr = Len(page["undo"].slots) + 1])
  /\ UNCHANGED <<hist, vers, ghosts>>

(* kds_undo_write_entry: the old version, chained onto its own undo entry. *)
UndoWrite(t) ==
  /\ upd[t].pc = "undo"
  /\ Fits("undo", UndoSize)
  /\ page' = [page EXCEPT !["undo"] = InsertInto("undo", UndoSize, upd[t].old)]
  /\ Step(t, [upd[t] EXCEPT !.pc = "fit", !.ptr = Len(page["undo"].slots) + 1])
  /\ UNCHANGED <<hist, vers, ghosts>>

(* The undo page is full: -ENOSPC, with nothing changed. *)
UndoFull(t) ==
  /\ upd[t].pc = "undo"
  /\ ~ Fits("undo", UndoSize)
  /\ Step(t, Idle)
  /\ UNCHANGED <<page, hist, vers, ghosts>>

(* heap_slot_capacity decides between overwriting and relocating. *)
UpdateFit(t) ==
  /\ upd[t].pc = "fit"
  /\ LET s == upd[t].slot
     IN Step(t, IF ~ LiveSlot("heap", s) THEN Idle
                ELSE [upd[t] EXCEPT !.pc = IF upd[t].len <= Capacity("heap", s)
                                           THEN "overwrite" ELSE "retire"])
  /\ UNCHANGED <<page, hist, vers, ghosts>>

NewTuple(t) == Tuple(upd[t].old.row, upd[t].new, upd[t].len, upd[t].ptr)

NewVersion(t) == hist' = [hist EXCEPT ![upd[t].old.row] = Append(@, upd[t].new)]

(* The new version fits the slot, which heap_overwrite_tuple checks again. *)
UpdateInPlace(t) ==
  /\ upd[t].pc = "overwrite"
  /\ LET s == upd[t].slot
     IN IF LiveSlot("heap", s) /\ (HdrSize + upd[t].len) % Word <= page["heap"].slots[s].len
        THEN /\ page' = [page EXCEPT !["heap"] = Overwritten("heap", s, NewTuple(t))]
             /\ NewVersion(t)
        ELSE UNCHANGED <<page, hist>>
  /\ Step(t, Idle)
  /\ UNCHANGED <<vers, ghosts>>

RetireNothing(t) ==
  /\ upd[t].pc = "retire"
  /\ Step(t, [upd[t] EXCEPT !.pc = "insert"])
  /\ UNCHANGED <<page, hist, vers, ghosts>>

(* It does not: the old slot is retired, whatever comes next. *)
UpdateRetire(t) ==
  /\ upd[t].pc = "retire"
  /\ page' = [page EXCEPT !["heap"] = Retired("heap", upd[t].slot)]
  /\ Step(t, [upd[t] EXCEPT !.pc = "insert"])
  /\ UNCHANGED <<hist, vers, ghosts>>

(* The new version goes to a new slot, *)
UpdateMove(t) ==
  /\ upd[t].pc = "insert"
  /\ Fits("heap", upd[t].len)
  /\ page' = [page EXCEPT !["heap"] = InsertInto("heap", upd[t].len, NewTuple(t))]
  /\ NewVersion(t)
  /\ Step(t, Idle)
  /\ UNCHANGED <<vers, ghosts>>

(* or nowhere, if the page has no room for it: -ENOSPC. *)
UpdateNoRoom(t) ==
  /\ upd[t].pc = "insert"
  /\ ~ Fits("heap", upd[t].len)
  /\ Step(t, Idle)
  /\ lost' = lost \union {upd[t].old.row}
  /\ UNCHANGED <<page, hist, vers, raced>>

Update(t) ==
  \/ \E s \in DOMAIN page["heap"].slots, len \in Lens : UpdateStart(t, s, len)
  \/ UpdateRead(t) \/ UndoWrite(t) \/ UndoFull(t) \/ UpdateFit(t)
  \/ UpdateInPlace(t) \/ UpdateRetire(t) \/ UpdateMove(t) \/ UpdateNoRoom(t)

Next ==
  \/ \E len \in Lens : InsertRow(len)
  \/ \E s \in DOMAIN page["heap"].slots : DeleteRow(s)
  \/ \E t \in Threads : Update(t)

Spec == Init /\ [][Next]_vars

-----------------------------------------------------------------------------
Pages == DOMAIN page

TypeOK ==
  /\ \A p \in Pages :
       /\ page[p].lower \in AreaOff .. NextOff
       /\ page[p].upper \in AreaOff .. NextOff
       /\ \A s \in DOMAIN page[p].slots :
            /\ page[p].slots[s].off \in 0 .. Word - 1
            /\ page[p].slots[s].len \in 0 .. Word - 1
            /\ page[p].slots[s].dead \in BOOLEAN
  /\ vers \in 0 .. MaxVers
  /\ \A t \in Threads :
       upd[t].pc \in {"idle", "read", "undo", "fit", "overwrite", "retire", "insert"}

(* The bytes of the live tuples of a page never overlap, nor do they reach *)
(* into the slot directory below them or the next-page link above them;    *)
(* an in-place update that shrinks a tuple and a later one that grows it   *)
(* again stay within the slot's reservation (heap.c, 16-bit arithmetic).   *)
TuplesDisjoint ==
  TypeOK /\ \A p \in Pages :
    LET live == {s \in DOMAIN page[p].slots : LiveSlot(p, s)}
        slot(s) == page[p].slots[s]
    IN /\ AreaOff + SlotSize * Len(page[p].slots) = page[p].lower
       /\ \A s \in live :
            /\ page[p].lower <= slot(s).off
            /\ slot(s).off + slot(s).len <= NextOff
            /\ HdrSize + (IF p = "undo" THEN UndoSize ELSE slot(s).tup.len) <= slot(s).len
       /\ \A s1, s2 \in live : s1 < s2 => slot(s2).off + slot(s2).len <= slot(s1).off

(* A slot that was retired is never used again, and a live slot never      *)
(* changes the row it stands for, so an old kds_heap_tid_t finds its row   *)
(* or nothing (the slot directory comment of kds_heap.h).                  *)
TidsStayValid ==
  [][\A s \in DOMAIN page["heap"].slots :
       /\ s \in DOMAIN page'["heap"].slots
       /\ page["heap"].slots[s].dead => page'["heap"].slots[s].dead
       /\ page'["heap"].slots[s].tup.row = page["heap"].slots[s].tup.row]_vars

(* The versions the undo chain from each entry holds, oldest first. *)
ChainsOf(undo) ==
  LET chain[i \in 0 .. Len(undo)] ==
        IF i = 0 THEN <<>> ELSE Append(chain[undo[i].tup.undo], undo[i].tup.ver)
  IN chain

UndoChain == ChainsOf(page["undo"].slots)

(* The versions of the row that a reader of slot s can reach, oldest first. *)
Versions(s) ==
  LET tup == page["heap"].slots[s].tup
  IN Append(UndoChain[tup.undo], tup.ver)

Copies(r) ==
  {s \in DOMAIN page["heap"].slots :
     LiveSlot("heap", s) /\ page["heap"].slots[s].tup.row = r}

(* kds_undo.h on kds_heap_update_tuple: the new entry is chained onto the  *)
(* old one "so the full history remains reachable".  Every version of a    *)
(* row can be reached from its live tuple, in order, unless two updates of *)
(* the row overlapped: both then chain onto the version both have read.    *)
HistoryReachable ==
  \A r \in DOMAIN hist \ raced : \A s \in Copies(r) : Versions(s) = hist[r]

(* A row has exactly one live tuple, or is in the hands of the update that *)
(* is moving it and has retired the slot it came from.  The exceptions are *)
(* the move that finds no room, since kds_heap_update_tuple has by then    *)
(* given the old tuple up, and updates of one row that overlap.            *)
RowsSurvive ==
  \A r \in DOMAIN hist \ raced :
    LET movers == {t \in Threads : upd[t].pc = "insert" /\ upd[t].old.row = r}
        places == Cardinality(Copies(r)) + Cardinality(movers)
    IN IF r \in lost THEN places = 0 ELSE places = 1
=============================================================================
