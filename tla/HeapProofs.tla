----------------------------- MODULE HeapProofs -----------------------------
(***************************************************************************)
(* The slotted pages, for every page size, tuple length, word width that   *)
(* holds a page, and number of threads: tuples never overlap, and a tuple  *)
(* id never comes to stand for another row.  Then its rows, for every      *)
(* number of rows, updates and slots: RInv is inductive. The undo chain    *)
(* from a row's live tuple is the history of the row, and a row has one    *)
(* live tuple or is in the hand of one update.                             *)
(***************************************************************************)
EXTENDS Heap, WellFoundedInduction, FiniteSetTheorems, TLAPS

Tuples == [row : Nat, ver : Nat, len : 0 .. Word - 1, undo : Nat, xmax : Nat]

SlotRecords == [off : 0 .. Word - 1, len : 0 .. Word - 1, dead : BOOLEAN, tup : Tuples]

PageImages == [slots : Seq(SlotRecords), lower : AreaOff .. NextOff, upper : AreaOff .. NextOff]

Calls == [pc : {"idle", "read", "undo", "fit", "overwrite", "retire", "insert"},
          slot : Nat, new : Nat, len : 0 .. Word - 1, old : Tuples, ptr : Nat]

(* The room a tuple needs in its slot. *)
Room(p, tup) == HdrSize + (IF p = "undo" THEN UndoSize ELSE tup.len)

(* A well-formed page: the directory ends at lower, the tuples begin at    *)
(* upper, and each live slot lies above every later one.                   *)
PageInv(p, pg) ==
  /\ pg \in PageImages
  /\ AreaOff + SlotSize * Len(pg.slots) = pg.lower
  /\ pg.lower <= pg.upper
  /\ \A s \in DOMAIN pg.slots : ~ pg.slots[s].dead =>
       /\ pg.upper <= pg.slots[s].off
       /\ pg.slots[s].off + pg.slots[s].len <= NextOff
       /\ Room(p, pg.slots[s].tup) <= pg.slots[s].len
  /\ \A s1, s2 \in DOMAIN pg.slots :
       s1 < s2 /\ ~ pg.slots[s1].dead /\ ~ pg.slots[s2].dead =>
         pg.slots[s2].off + pg.slots[s2].len <= pg.slots[s1].off

PageOK ==
  /\ page \in [{"heap", "undo"} -> PageImages]
  /\ \A p \in {"heap", "undo"} : PageInv(p, page[p])

(* An update at work names a slot of its row; one that is about to write   *)
(* in place has found that its tuple fits, and slots do not shrink.        *)
CallInv(call, slots) ==
  /\ call.pc # "idle" =>
       call.slot \in DOMAIN slots /\ call.old.row = slots[call.slot].tup.row
  /\ call.pc = "overwrite" /\ ~ slots[call.slot].dead =>
       HdrSize + call.len <= slots[call.slot].len

HInv ==
  /\ PageOK
  /\ hist \in Seq(Seq(Nat)) /\ vers \in 0 .. MaxVers
  /\ upd \in [Threads -> Calls]
  /\ \A t \in Threads : CallInv(upd[t], page["heap"].slots)

-----------------------------------------------------------------------------
\* The constants, one by one.
LEMMA Constants ==
  /\ PageSize \in Nat /\ AreaOff \in Nat /\ NextOff \in Nat /\ SlotSize \in Nat
  /\ HdrSize \in Nat /\ UndoSize \in Nat /\ MaxOld \in Nat /\ MaxVers \in Nat
  /\ Word \in Nat /\ Lens \subseteq 0 .. Word - 1 /\ 0 < SlotSize /\ 0 < HdrSize
  /\ AreaOff <= NextOff /\ NextOff <= PageSize /\ PageSize + SlotSize + HdrSize < Word
BY HeapAssumption

\* The 16-bit sums of heap_insert_tuple_ex do not wrap on a well-formed page.
LEMMA FitsExactly ==
  ASSUME NEW p \in {"heap", "undo"}, PageInv(p, page[p]), NEW len \in Nat, Fits(p, len)
  PROVE  /\ len <= PageSize
         /\ page[p].lower + SlotSize + HdrSize + len <= page[p].upper
         /\ (page[p].upper - (HdrSize + len)) % Word = page[p].upper - (HdrSize + len)
<1>. DEFINE lo == page[p].lower
            up == page[p].upper
<1>1. /\ lo \in Nat /\ up \in Nat /\ lo <= up /\ up <= NextOff
  BY Constants DEF PageInv, PageImages
<1>2. len <= PageSize /\ (up - lo) % Word >= (SlotSize + HdrSize + len) % Word
  BY DEF Fits, Needed
<1>. HIDE DEF lo, up
<1>3. \A n \in 0 .. Word - 1 : n % Word = n
  BY Constants
<1>4. (up - lo) % Word = up - lo
  BY <1>1, <1>3, Constants
<1>5. (SlotSize + HdrSize + len) % Word = SlotSize + HdrSize + len
  BY <1>2, <1>3, Constants
<1>6. lo + SlotSize + HdrSize + len <= up
  BY <1>1, <1>2, <1>4, <1>5, Constants
<1>7. (up - (HdrSize + len)) % Word = up - (HdrSize + len)
  BY <1>1, <1>3, <1>6, Constants
<1>. QED
  BY SMTT(20), Z3T(20), <1>2, <1>6, <1>7 DEF lo, up

\* heap_insert_tuple_ex: the new tuple lies below all others and above the directory.
LEMMA InsertKeeps ==
  ASSUME NEW p \in {"heap", "undo"}, PageInv(p, page[p]), NEW len \in Nat, Fits(p, len),
         NEW tup \in Tuples, Room(p, tup) = HdrSize + len
  PROVE  /\ PageInv(p, InsertInto(p, len, tup))
         /\ DOMAIN page[p].slots \subseteq DOMAIN InsertInto(p, len, tup).slots
         /\ \A s \in DOMAIN page[p].slots :
              InsertInto(p, len, tup).slots[s] = page[p].slots[s]
<1>. DEFINE old == page[p]
            up == old.upper - (HdrSize + len)
            slot == [off |-> up, len |-> HdrSize + len, dead |-> FALSE, tup |-> tup]
            new == [slots |-> Append(old.slots, slot), lower |-> old.lower + SlotSize,
                    upper |-> up]
            n == Len(old.slots)
<1>1. /\ len <= PageSize /\ old.lower + SlotSize + HdrSize + len <= old.upper
      /\ InsertInto(p, len, tup) = new
  BY Zenon, FitsExactly DEF InsertInto
<1>2. /\ old.slots \in Seq(SlotRecords) /\ old.lower \in Nat /\ old.upper \in Nat
      /\ AreaOff <= old.lower /\ old.upper <= NextOff /\ n \in Nat
      /\ DOMAIN old.slots = 1 .. n
  BY SMTT(20), Z3T(20), Constants DEF PageInv, PageImages
<1>. HIDE DEF old, up, slot, new, n
<1>3. /\ up \in Nat /\ old.lower + SlotSize <= up /\ up + (HdrSize + len) = old.upper
  <2>1. /\ old.lower \in Nat /\ old.upper \in Nat /\ SlotSize \in Nat /\ HdrSize \in Nat
        /\ old.lower + SlotSize + HdrSize + len <= old.upper
    BY <1>1, <1>2, Constants
  <2>2. \A lo, u \in Nat : lo + SlotSize + HdrSize + len <= u =>
          /\ u - (HdrSize + len) \in Nat /\ lo + SlotSize <= u - (HdrSize + len)
          /\ u - (HdrSize + len) + (HdrSize + len) = u
    BY Constants
  <2>. QED  BY <2>1, <2>2 DEF up
<1>4. slot \in SlotRecords
  <2>1. up \in 0 .. Word - 1 /\ HdrSize + len \in 0 .. Word - 1
    BY <1>1, <1>2, <1>3, Constants
  <2>. QED  BY <2>1 DEF slot, SlotRecords
<1>5. /\ new.slots \in Seq(SlotRecords) /\ Len(new.slots) = n + 1
      /\ DOMAIN new.slots = 1 .. n + 1
      /\ \A s \in 1 .. n : new.slots[s] = old.slots[s]
      /\ new.slots[n + 1] = slot
      /\ new.lower = old.lower + SlotSize /\ new.upper = up
  BY <1>2, <1>4 DEF n, new
<1>6. new \in PageImages
  <2>1. old.lower + SlotSize \in AreaOff .. NextOff /\ up \in AreaOff .. NextOff
    <3>1. /\ old.lower \in Nat /\ old.upper \in Nat /\ up \in Nat /\ SlotSize \in Nat
          /\ HdrSize \in Nat /\ AreaOff \in Nat /\ NextOff \in Nat
      BY Zenon, <1>2, <1>3, Constants
    <3>2. /\ AreaOff <= old.lower /\ old.upper <= NextOff
          /\ old.lower + SlotSize <= up /\ up + (HdrSize + len) = old.upper
      BY Zenon, <1>2, <1>3
    <3>. QED  BY <3>1, <3>2
  <2>2. new = [slots |-> new.slots, lower |-> old.lower + SlotSize, upper |-> up]
    BY DEF new
  <2>. QED  BY <1>5, <2>1, <2>2 DEF PageImages
<1>7. AreaOff + SlotSize * (n + 1) = old.lower + SlotSize
  <2>1. AreaOff + SlotSize * n = old.lower
    BY DEF PageInv, n, old
  <2>2. SlotSize * (n + 1) = SlotSize * n + SlotSize /\ SlotSize * n \in Nat
    <3>1. \A a, b \in Nat : a * (b + 1) = a * b + a /\ a * b \in Nat
      OBVIOUS
    <3>2. SlotSize \in Nat /\ n \in Nat
      BY Zenon, <1>2, Constants
    <3>. QED  BY Zenon, <3>1, <3>2
  <2>3. SlotSize \in Nat /\ AreaOff \in Nat /\ old.lower \in Nat
    BY Zenon, <1>2, Constants
  <2>. QED  BY SMTT(20), Z3T(20), <2>1, <2>2, <2>3
<1>8. ASSUME NEW s \in 1 .. n, ~ old.slots[s].dead
      PROVE  /\ old.upper <= old.slots[s].off
             /\ old.slots[s].off + old.slots[s].len <= NextOff
             /\ Room(p, old.slots[s].tup) <= old.slots[s].len
             /\ old.slots[s].off \in Nat /\ old.slots[s].len \in Nat
  <2>1. old.slots[s] \in SlotRecords
    BY <1>2
  <2>2. old.slots[s].off \in Nat /\ old.slots[s].len \in Nat
    BY <2>1, Constants DEF SlotRecords
  <2>3. PageInv(p, old) /\ s \in DOMAIN old.slots
    BY <1>2 DEF old
  <2>. QED  BY <1>8, <2>2, <2>3 DEF PageInv
<1>9. ASSUME NEW s \in 1 .. n + 1, ~ new.slots[s].dead
      PROVE  /\ new.upper <= new.slots[s].off
             /\ new.slots[s].off + new.slots[s].len <= NextOff
             /\ Room(p, new.slots[s].tup) <= new.slots[s].len
  <2>1. CASE s \in 1 .. n
    <3>1. new.slots[s] = old.slots[s] /\ new.upper = up
      BY <1>5, <2>1
    <3>2. /\ old.upper <= old.slots[s].off /\ old.slots[s].off \in Nat
          /\ old.slots[s].off + old.slots[s].len <= NextOff
          /\ Room(p, old.slots[s].tup) <= old.slots[s].len
      BY <1>8, <1>9, <2>1, <3>1
    <3>3. up <= old.slots[s].off
      <4>1. up <= old.upper /\ up \in Nat /\ old.upper \in Nat
        BY <1>2, <1>3, Constants
      <4>2. old.upper <= old.slots[s].off /\ old.slots[s].off \in Nat
        BY Zenon, <3>2
      <4>. QED  BY <4>1, <4>2
    <3>. QED  BY <3>1, <3>2, <3>3
  <2>2. CASE s = n + 1
    <3>1. /\ new.slots[s].off = up /\ new.slots[s].len = HdrSize + len
          /\ new.slots[s].tup = tup /\ new.upper = up
      BY <1>5, <2>2 DEF slot
    <3>2. up + (HdrSize + len) <= NextOff /\ up <= up
      BY <1>2, <1>3, Constants
    <3>3. HdrSize + len <= HdrSize + len
      BY Constants
    <3>. QED  BY <3>1, <3>2, <3>3
  <2>. QED  BY <1>2, <2>1, <2>2
<1>10. ASSUME NEW s1 \in 1 .. n + 1, NEW s2 \in 1 .. n + 1, s1 < s2,
              ~ new.slots[s1].dead, ~ new.slots[s2].dead
       PROVE  new.slots[s2].off + new.slots[s2].len <= new.slots[s1].off
  <2>1. s1 \in 1 .. n
    BY <1>2, <1>10
  <2>2. CASE s2 \in 1 .. n
    <3>1. PageInv(p, old) /\ s1 \in DOMAIN old.slots /\ s2 \in DOMAIN old.slots
      BY <1>2, <2>1, <2>2 DEF old
    <3>. QED  BY Zenon, <1>5, <1>10, <2>1, <2>2, <3>1 DEF PageInv
  <2>3. CASE s2 = n + 1
    <3>1. new.slots[s2].off = up /\ new.slots[s2].len = HdrSize + len
      BY <1>5, <2>3 DEF slot
    <3>2. old.upper <= new.slots[s1].off
      BY <1>5, <1>8, <1>10, <2>1
    <3>. QED  BY SMTT(20), Z3T(20), <1>3, <3>1, <3>2
  <2>. QED  BY <1>2, <2>2, <2>3
<1>11. PageInv(p, new)
  BY Zenon, <1>3, <1>5, <1>6, <1>7, <1>9, <1>10 DEF PageInv
<1>. QED
  BY SMTT(20), Z3T(20), <1>1, <1>2, <1>5, <1>11 DEF old, n

\* A slot that keeps its place: its tuple is rewritten within it, or it is retired.
LEMMA RewriteKeeps ==
  ASSUME NEW p \in {"heap", "undo"}, NEW pg, PageInv(p, pg),
         NEW s \in DOMAIN pg.slots, NEW x \in SlotRecords,
         x.off = pg.slots[s].off,
         \/ x.dead
         \/ ~ pg.slots[s].dead /\ x.len = pg.slots[s].len /\ Room(p, x.tup) <= x.len
  PROVE  PageInv(p, [pg EXCEPT !.slots = [pg.slots EXCEPT ![s] = x]])
<1>. DEFINE new == [pg EXCEPT !.slots = [pg.slots EXCEPT ![s] = x]]
<1>1. pg.slots \in Seq(SlotRecords) /\ pg \in PageImages
  BY DEF PageInv, PageImages
<1>2. /\ new.slots = [pg.slots EXCEPT ![s] = x]
      /\ new.lower = pg.lower /\ new.upper = pg.upper
  BY <1>1 DEF PageImages
<1>. HIDE DEF new
<1>3. /\ new.slots \in Seq(SlotRecords) /\ Len(new.slots) = Len(pg.slots)
      /\ DOMAIN new.slots = DOMAIN pg.slots
      /\ new.slots[s] = x
      /\ \A i \in DOMAIN pg.slots \ {s} : new.slots[i] = pg.slots[i]
  BY <1>1, <1>2
<1>4. new \in PageImages
  <2>1. /\ pg = [slots |-> pg.slots, lower |-> pg.lower, upper |-> pg.upper]
        /\ pg.lower \in AreaOff .. NextOff /\ pg.upper \in AreaOff .. NextOff
    BY <1>1 DEF PageImages
  <2>2. new = [slots |-> new.slots, lower |-> pg.lower, upper |-> pg.upper]
    BY <1>2, <2>1 DEF new
  <2>. QED  BY <1>3, <2>1, <2>2 DEF PageImages
<1>5. ASSUME NEW i \in DOMAIN pg.slots, ~ new.slots[i].dead
      PROVE  /\ ~ pg.slots[i].dead
             /\ new.slots[i].off = pg.slots[i].off /\ new.slots[i].len = pg.slots[i].len
             /\ Room(p, new.slots[i].tup) <= new.slots[i].len
  <2>1. CASE i = s
    BY <1>3, <1>5, <2>1
  <2>2. CASE i # s
    BY <1>3, <1>5, <2>2 DEF PageInv
  <2>. QED  BY <2>1, <2>2
<1>. QED
  BY Zenon, <1>2, <1>3, <1>4, <1>5 DEF PageInv, new

-----------------------------------------------------------------------------
(* What a step leaves of a slot directory. *)
SlotsKept(old, new) ==
  \A s \in DOMAIN old :
    /\ s \in DOMAIN new
    /\ old[s].dead => new[s].dead
    /\ new[s].tup.row = old[s].tup.row
    /\ ~ new[s].dead => new[s].len = old[s].len

\* A page that is replaced by a well-formed one.
LEMMA Replaced ==
  ASSUME PageOK, NEW p \in {"heap", "undo"}, NEW new, PageInv(p, new),
         page' = [page EXCEPT ![p] = new],
         p = "heap" => SlotsKept(page["heap"].slots, new.slots)
  PROVE  PageOK' /\ SlotsKept(page["heap"].slots, page'["heap"].slots)
<1>1. new \in PageImages /\ page'[p] = new
  BY DEF PageInv, PageOK
<1>2. page' \in [{"heap", "undo"} -> PageImages]
  BY <1>1 DEF PageOK
<1>3. \A q \in {"heap", "undo"} \ {p} : page'[q] = page[q]
  BY DEF PageOK
<1>4. \A q \in {"heap", "undo"} : PageInv(q, page'[q])
  BY SMTT(20), Z3T(20), <1>1, <1>3 DEF PageOK
<1>5. SlotsKept(page["heap"].slots, page["heap"].slots)
  BY DEF SlotsKept
<1>6. SlotsKept(page["heap"].slots, page'["heap"].slots)
  BY <1>1, <1>3, <1>5
<1>. QED  BY ZenonT(20), <1>2, <1>4, <1>6 DEF PageOK

\* A slot of the heap page that is rewritten in its place.
LEMMA SlotRewritten ==
  ASSUME PageOK, NEW s \in DOMAIN page["heap"].slots, NEW x \in SlotRecords,
         x.off = page["heap"].slots[s].off,
         x.tup.row = page["heap"].slots[s].tup.row,
         \/ x.dead
         \/ /\ ~ page["heap"].slots[s].dead /\ x.len = page["heap"].slots[s].len
            /\ HdrSize + x.tup.len <= x.len,
         page' = [page EXCEPT !["heap"] =
                    [page["heap"] EXCEPT !.slots = [page["heap"].slots EXCEPT ![s] = x]]]
  PROVE  PageOK' /\ SlotsKept(page["heap"].slots, page'["heap"].slots)
<1>. DEFINE pg == page["heap"]
            new == [pg EXCEPT !.slots = [pg.slots EXCEPT ![s] = x]]
<1>1. PageInv("heap", pg)
  BY SMTT(20), Z3T(20) DEF PageOK
<1>2. PageInv("heap", new)
  <2>1. Room("heap", x.tup) = HdrSize + x.tup.len
    BY DEF Room
  <2>. HIDE DEF pg
  <2>2. /\ s \in DOMAIN pg.slots /\ x.off = pg.slots[s].off
        /\ \/ x.dead
           \/ /\ ~ pg.slots[s].dead /\ x.len = pg.slots[s].len
              /\ Room("heap", x.tup) <= x.len
    BY ZenonT(20), <2>1 DEF pg
  <2>. QED  BY <1>1, <2>2, RewriteKeeps
<1>3. new.slots = [pg.slots EXCEPT ![s] = x] /\ pg.slots \in Seq(SlotRecords)
  BY <1>1 DEF PageInv, PageImages
<1>4. SlotsKept(pg.slots, new.slots)
  <2>. HIDE DEF new
  <2>1. ASSUME NEW i \in DOMAIN pg.slots
        PROVE  i \in DOMAIN new.slots /\ new.slots[i] = IF i = s THEN x ELSE pg.slots[i]
    BY <1>3
  <2>. QED  BY <2>1 DEF SlotsKept
<1>5. page' = [page EXCEPT !["heap"] = new]
  OBVIOUS
<1>. QED
  <2>. HIDE DEF new
  <2>. QED  BY Zenon, <1>2, <1>4, <1>5, Replaced

\* A tuple that is inserted.
LEMMA TupleInserted ==
  ASSUME PageOK, NEW p \in {"heap", "undo"}, NEW len \in Nat, Fits(p, len),
         NEW tup \in Tuples, p = "undo" => len = UndoSize, p = "heap" => tup.len = len,
         page' = [page EXCEPT ![p] = InsertInto(p, len, tup)]
  PROVE  PageOK' /\ SlotsKept(page["heap"].slots, page'["heap"].slots)
<1>1. Room(p, tup) = HdrSize + len
  BY DEF Room
<1>2. PageInv(p, page[p])
  BY DEF PageOK
<1>3. /\ PageInv(p, InsertInto(p, len, tup))
      /\ DOMAIN page[p].slots \subseteq DOMAIN InsertInto(p, len, tup).slots
      /\ \A s \in DOMAIN page[p].slots :
           InsertInto(p, len, tup).slots[s] = page[p].slots[s]
  BY Zenon, <1>1, <1>2, InsertKeeps
<1>4. SlotsKept(page[p].slots, InsertInto(p, len, tup).slots)
  BY <1>3 DEF SlotsKept
<1>. QED  BY Zenon, <1>3, <1>4, Replaced

-----------------------------------------------------------------------------
\* The initial state.
LEMMA HInvInit == Init => HInv
<1>. SUFFICES ASSUME Init PROVE HInv
  OBVIOUS
<1>1. InitPage \in PageImages
  BY Constants DEF InitPage, PageImages
<1>2. Idle \in Calls
  BY Constants DEF Idle, Calls, Tuples
<1>3. \A p \in {"heap", "undo"} : PageInv(p, InitPage)
  <2>1. /\ InitPage.slots = << >> /\ InitPage.lower = AreaOff /\ InitPage.upper = NextOff
    BY DEF InitPage
  <2>2. AreaOff + SlotSize * 0 = AreaOff
    BY Constants
  <2>. QED  BY <1>1, <2>1, <2>2, Constants DEF PageInv
<1>4. CallInv(Idle, InitPage.slots)
  BY DEF CallInv, Idle
<1>. QED
  BY <1>1, <1>2, <1>3, <1>4, Constants DEF Init, HInv, PageOK

-----------------------------------------------------------------------------
\* The slots of the heap page and the calls are of their types.
LEMMA HeapTypes ==
  ASSUME HInv
  PROVE  /\ PageOK /\ page["heap"] \in PageImages
         /\ \A s \in DOMAIN page["heap"].slots : page["heap"].slots[s] \in SlotRecords
         /\ \A t \in Threads : upd[t] \in Calls /\ CallInv(upd[t], page["heap"].slots)
<1>1. page["heap"] \in PageImages
  BY DEF HInv, PageOK
<1>2. page["heap"].slots \in Seq(SlotRecords)
  BY <1>1 DEF PageImages
<1>. QED  BY <1>1, <1>2 DEF HInv

\* The page an in-place update or a move writes is well formed.
LEMMA PageStep ==
  ASSUME HInv, Next
  PROVE  PageOK' /\ SlotsKept(page["heap"].slots, page'["heap"].slots)
<1>. DEFINE slots == page["heap"].slots
            Goal == PageOK' /\ SlotsKept(page["heap"].slots, page'["heap"].slots)
<1>1. ASSUME UNCHANGED page PROVE Goal
  BY <1>1, HeapTypes DEF PageOK, SlotsKept
<1>2. ASSUME NEW len \in Lens, InsertRow(len) PROVE Goal
  <2>. DEFINE tup == Tuple(Len(hist) + 1, vers + 1, len, 0)
  <2>1. len \in 0 .. Word - 1 /\ len \in Nat
    BY Constants
  <2>2. tup \in Tuples /\ tup.len = len
    <3>1. Len(hist) + 1 \in Nat /\ vers + 1 \in Nat
      BY Constants DEF HInv
    <3>. QED  BY <2>1, <3>1, Constants DEF Tuple, Tuples
  <2>3. Fits("heap", len) /\ page' = [page EXCEPT !["heap"] = InsertInto("heap", len, tup)]
    BY <1>2 DEF InsertRow
  <2>. HIDE DEF tup
  <2>. QED  BY Zenon, <2>1, <2>2, <2>3, HeapTypes, TupleInserted
<1>3. ASSUME NEW s \in DOMAIN slots, DeleteRow(s) PROVE Goal
  <2>. DEFINE x == [slots[s] EXCEPT !.tup = [slots[s].tup EXCEPT !.xmax = 1]]
  <2>1. slots[s] \in SlotRecords /\ ~ slots[s].dead
    BY <1>3, HeapTypes DEF DeleteRow, LiveSlot
  <2>2. slots[s].tup \in Tuples
    BY ZenonT(40), <2>1 DEF SlotRecords
  <2>3. /\ x \in SlotRecords /\ x.off = slots[s].off /\ x.len = slots[s].len
        /\ x.dead = slots[s].dead
        /\ x.tup.row = slots[s].tup.row /\ x.tup.len = slots[s].tup.len
    BY <2>1, <2>2 DEF SlotRecords, Tuples
  <2>4. page' = [page EXCEPT !["heap"] = [page["heap"] EXCEPT !.slots = [slots EXCEPT ![s] = x]]]
    BY <1>3 DEF DeleteRow
  <2>5. HdrSize + x.tup.len <= x.len
    BY Zenon, <2>1, <2>3, HeapTypes DEF PageOK, PageInv, Room
  <2>. HIDE DEF x
  <2>. QED  BY Zenon, <2>1, <2>3, <2>4, <2>5, HeapTypes, SlotRewritten
<1>4. ASSUME NEW t \in Threads, UndoWrite(t) PROVE Goal
  <2>1. upd[t].old \in Tuples
    BY HeapTypes DEF Calls
  <2>2. /\ Fits("undo", UndoSize) /\ UndoSize \in Nat
        /\ page' = [page EXCEPT !["undo"] = InsertInto("undo", UndoSize, upd[t].old)]
    BY Zenon, <1>4, Constants DEF UndoWrite
  <2>. QED  BY Zenon, <2>1, <2>2, HeapTypes, TupleInserted
<1>5. ASSUME NEW t \in Threads
      PROVE  /\ upd[t] \in Calls /\ upd[t].len \in 0 .. Word - 1 /\ upd[t].len \in Nat
             /\ NewTuple(t) \in Tuples /\ NewTuple(t).len = upd[t].len
             /\ NewTuple(t).row = upd[t].old.row
  <2>1. upd[t] \in Calls
    BY HeapTypes
  <2>2. /\ upd[t].len \in 0 .. Word - 1 /\ upd[t].old.row \in Nat
        /\ upd[t].new \in Nat /\ upd[t].ptr \in Nat
    BY <2>1 DEF Calls, Tuples
  <2>. QED  BY <2>1, <2>2, Constants DEF NewTuple, Tuple, Tuples
<1>6. ASSUME NEW t \in Threads, UpdateMove(t) PROVE Goal
  <2>1. /\ Fits("heap", upd[t].len)
        /\ page' = [page EXCEPT !["heap"] = InsertInto("heap", upd[t].len, NewTuple(t))]
    BY Zenon, <1>6 DEF UpdateMove
  <2>. QED  BY Zenon, <1>5, <2>1, HeapTypes, TupleInserted
<1>7. ASSUME NEW t \in Threads, UpdateInPlace(t) PROVE Goal
  <2>. DEFINE s == upd[t].slot
              x == [slots[s] EXCEPT !.tup = NewTuple(t)]
  <2>1. CASE ~ LiveSlot("heap", s)
    BY <1>1, <1>7, <2>1 DEF UpdateInPlace
  <2>2. CASE LiveSlot("heap", s) /\ UNCHANGED page
    BY <1>1, <2>2
  <2>3. CASE LiveSlot("heap", s) /\ page' = [page EXCEPT !["heap"] = Overwritten("heap", s, NewTuple(t))]
    <3>1. s \in DOMAIN slots /\ ~ slots[s].dead /\ slots[s] \in SlotRecords
      BY Zenon, <2>3, HeapTypes DEF LiveSlot
    <3>2. /\ x \in SlotRecords /\ x.off = slots[s].off /\ x.len = slots[s].len
          /\ x.dead = slots[s].dead /\ x.tup = NewTuple(t)
      BY Zenon, <1>5, <3>1 DEF SlotRecords
    <3>3. upd[t].old.row = slots[s].tup.row /\ HdrSize + upd[t].len <= slots[s].len
      BY Zenon, <1>7, <3>1, HeapTypes DEF UpdateInPlace, CallInv
    <3>4. page' = [page EXCEPT !["heap"] = [page["heap"] EXCEPT !.slots = [slots EXCEPT ![s] = x]]]
      BY <2>3 DEF Overwritten
    <3>. HIDE DEF x
    <3>. QED  BY Zenon, <1>5, <3>1, <3>2, <3>3, <3>4, HeapTypes, SlotRewritten
  <2>. QED  BY Zenon, <1>7, <2>1, <2>2, <2>3 DEF UpdateInPlace
<1>8. ASSUME NEW t \in Threads, UpdateRetire(t) PROVE Goal
  <2>. DEFINE s == upd[t].slot
              x == [slots[s] EXCEPT !.dead = TRUE, !.len = 0]
  <2>1. s \in DOMAIN slots /\ slots[s] \in SlotRecords
    BY <1>8, HeapTypes DEF UpdateRetire, CallInv
  <2>2. /\ x \in SlotRecords /\ x.off = slots[s].off /\ x.dead /\ x.tup = slots[s].tup
    <3>1. 0 \in 0 .. Word - 1 /\ TRUE \in BOOLEAN
      BY SMTT(20), Z3T(20), Constants
    <3>2. x.dead = TRUE /\ x.off = slots[s].off /\ x.tup = slots[s].tup
      BY <2>1 DEF SlotRecords
    <3>3. x \in SlotRecords
      BY Zenon, <2>1, <3>1 DEF SlotRecords
    <3>. QED  BY <3>2, <3>3, Zenon
  <2>3. page' = [page EXCEPT !["heap"] = [page["heap"] EXCEPT !.slots = [slots EXCEPT ![s] = x]]]
    BY ZenonT(20), <1>8, <2>1, HeapTypes DEF UpdateRetire, Retired, PageImages
  <2>. HIDE DEF x
  <2>. QED  BY ZenonT(40), <2>1, <2>2, <2>3, HeapTypes, SlotRewritten
<1>9. ASSUME NEW t \in Threads, Update(t) PROVE Goal
  <2>1. CASE UNCHANGED page
    BY <1>1, <2>1
  <2>2. UNCHANGED page \/ UndoWrite(t) \/ UpdateInPlace(t) \/ UpdateRetire(t) \/ UpdateMove(t)
    BY Zenon, <1>9 DEF Update, UpdateStart, UpdateRead, UndoFull, UpdateFit,
       UpdateNoRoom
  <2>. QED  BY <2>1, <2>2, <1>4, <1>6, <1>7, <1>8
<1>. QED
  BY <1>2, <1>3, <1>9 DEF Next

\* A call keeps to its slot, whatever others do to it.
LEMMA CallKept ==
  ASSUME NEW call, NEW old, NEW new, CallInv(call, old), SlotsKept(old, new)
  PROVE  CallInv(call, new)
<1>1. CASE call.pc = "idle"
  BY <1>1 DEF CallInv
<1>2. CASE call.pc # "idle"
  <2>1. call.slot \in DOMAIN old /\ call.old.row = old[call.slot].tup.row
    BY <1>2 DEF CallInv
  <2>2. /\ call.slot \in DOMAIN new /\ call.old.row = new[call.slot].tup.row
        /\ ~ new[call.slot].dead => ~ old[call.slot].dead /\ new[call.slot].len = old[call.slot].len
    BY SMTT(20), Z3T(20), <2>1 DEF SlotsKept
  <2>. QED  BY <2>2 DEF CallInv
<1>. QED  BY <1>1, <1>2

\* Every step of an update leaves a call of the right type that names its row.
LEMMA CallStep ==
  ASSUME HInv, Next, NEW t \in Threads
  PROVE  upd'[t] \in Calls /\ CallInv(upd'[t], page["heap"].slots)
<1>. DEFINE slots == page["heap"].slots
            Goal == upd'[t] \in Calls /\ CallInv(upd'[t], slots)
<1>0. upd[t] \in Calls /\ CallInv(upd[t], slots) /\ upd \in [Threads -> Calls]
  BY HeapTypes DEF HInv
<1>1. ASSUME upd'[t] = upd[t] PROVE Goal
  BY SMTT(20), Z3T(20), <1>0, <1>1
<1>2. ASSUME upd'[t] = Idle PROVE Goal
  <2>1. Idle \in Calls
    BY SMTT(20), Z3T(20), Constants DEF Idle, Calls, Tuples
  <2>. QED  BY <1>2, <2>1 DEF CallInv, Idle
<1>3. ASSUME NEW s \in DOMAIN slots, NEW len \in Lens, UpdateStart(t, s, len) PROVE Goal
  <2>1. slots[s] \in SlotRecords /\ s \in Nat
    <3>1. page["heap"].slots \in Seq(SlotRecords)
      BY HeapTypes DEF PageImages
    <3>. QED  BY <3>1
  <2>2. slots[s].tup \in Tuples /\ len \in 0 .. Word - 1 /\ vers + 1 \in Nat
    BY <2>1, Constants DEF SlotRecords, HInv
  <2>3. PICK lab \in {"read", "undo"} :
          upd'[t] = [upd[t] EXCEPT !.pc = lab, !.slot = s, !.new = vers + 1, !.len = len,
                                   !.old = slots[s].tup]
    BY Zenon, <1>0, <1>3 DEF UpdateStart, Step
  <2>4. upd'[t] = [pc |-> lab, slot |-> s, new |-> vers + 1, len |-> len,
                   old |-> slots[s].tup, ptr |-> upd[t].ptr]
    BY Zenon, <1>0, <2>3 DEF Calls
  <2>5. upd[t].ptr \in Nat
    BY SMTT(20), Z3T(20), <1>0 DEF Calls
  <2>. QED  BY <2>1, <2>2, <2>4, <2>5 DEF Calls, CallInv
<1>4. CASE UpdateRead(t)
  <2>1. CASE ~ LiveSlot("heap", upd[t].slot)
    BY <1>0, <1>2, <1>4, <2>1 DEF UpdateRead, Step
  <2>2. CASE LiveSlot("heap", upd[t].slot) /\ upd'[t] # Idle
    <3>1. /\ upd'[t] = [upd[t] EXCEPT !.pc = "undo", !.old = slots[upd[t].slot].tup]
          /\ upd[t].slot \in DOMAIN slots
      BY Zenon, <1>0, <1>4, <2>2 DEF UpdateRead, Step, LiveSlot
    <3>2. slots[upd[t].slot].tup \in Tuples
      BY <3>1, HeapTypes DEF SlotRecords
    <3>3. /\ upd'[t] \in Calls /\ upd'[t].pc = "undo" /\ upd'[t].slot = upd[t].slot
          /\ upd'[t].old = slots[upd[t].slot].tup
      BY ZenonT(40), <1>0, <3>1, <3>2 DEF Calls
    <3>. QED  BY Zenon, <3>1, <3>3 DEF CallInv
  <2>. QED  BY <1>2, <2>1, <2>2
<1>5. CASE UndoWrite(t)
  <2>1. Len(page["undo"].slots) + 1 \in Nat
    <3>1. page["undo"] \in PageImages
      BY HeapTypes DEF PageOK
    <3>. QED  BY <3>1 DEF PageImages
  <2>2. /\ upd[t].pc = "undo"
        /\ upd'[t] = [upd[t] EXCEPT !.pc = "fit", !.ptr = Len(page["undo"].slots) + 1]
    BY <1>0, <1>5 DEF UndoWrite, Step
  <2>3. /\ upd'[t] \in Calls /\ upd'[t].pc = "fit" /\ upd'[t].slot = upd[t].slot
        /\ upd'[t].old = upd[t].old
    BY ZenonT(40), <1>0, <2>1, <2>2 DEF Calls
  <2>. QED  BY <1>0, <2>2, <2>3 DEF CallInv
<1>6. CASE UpdateFit(t)
  <2>1. CASE ~ LiveSlot("heap", upd[t].slot)
    BY <1>0, <1>2, <1>6, <2>1 DEF UpdateFit, Step
  <2>2. CASE LiveSlot("heap", upd[t].slot)
    <3>1. PICK lab \in {"overwrite", "retire"} :
            /\ upd'[t] = [upd[t] EXCEPT !.pc = lab]
            /\ lab = "overwrite" => upd[t].len <= Capacity("heap", upd[t].slot)
      BY <1>0, <1>6, <2>2 DEF UpdateFit, Step
    <3>2. /\ upd'[t] \in Calls /\ upd'[t].pc = lab /\ upd'[t].slot = upd[t].slot
          /\ upd'[t].old = upd[t].old /\ upd'[t].len = upd[t].len
      BY <1>0, <3>1 DEF Calls
    <3>3. upd[t].pc = "fit"
      BY Zenon, <1>6 DEF UpdateFit
    <3>4. upd[t].slot \in DOMAIN slots /\ upd[t].old.row = slots[upd[t].slot].tup.row
      BY Zenon, <1>0, <3>3 DEF CallInv
    <3>5. slots[upd[t].slot].len \in Nat /\ upd[t].len \in Nat
      <4>1. slots[upd[t].slot] \in SlotRecords
        BY ZenonT(20), <3>4, HeapTypes
      <4>. QED  BY <1>0, <4>1, Constants DEF SlotRecords, Calls
    <3>6. lab = "overwrite" => HdrSize + upd[t].len <= slots[upd[t].slot].len
      BY SMTT(20), Z3T(20), <3>1, <3>5, Constants DEF Capacity
    <3>. QED  BY <3>2, <3>4, <3>6 DEF CallInv
  <2>. QED  BY <2>1, <2>2
<1>7. CASE UpdateRetire(t)
  <2>1. upd[t].pc = "retire" /\ upd'[t] = [upd[t] EXCEPT !.pc = "insert"]
    BY <1>0, <1>7 DEF UpdateRetire, Step
  <2>2. /\ upd'[t] \in Calls /\ upd'[t].pc = "insert" /\ upd'[t].slot = upd[t].slot
        /\ upd'[t].old = upd[t].old
    BY Zenon, <1>0, <2>1 DEF Calls
  <2>. QED  BY <1>0, <2>1, <2>2 DEF CallInv
<1>8. CASE UndoFull(t) \/ UpdateInPlace(t) \/ UpdateMove(t) \/ UpdateNoRoom(t)
  BY <1>0, <1>2, <1>8 DEF UndoFull, UpdateInPlace, UpdateMove, UpdateNoRoom, Step
<1>9. ASSUME NEW u \in Threads, u # t, Update(u) PROVE Goal
  <2>1. upd'[t] = upd[t]
    BY Zenon, <1>0, <1>9 DEF Update, UpdateStart, UpdateRead, UndoWrite, UndoFull,
       UpdateFit,
       UpdateInPlace, UpdateRetire, UpdateMove, UpdateNoRoom, Step
  <2>. QED  BY Zenon, <1>1, <2>1
<1>10. CASE upd' = upd
  BY <1>1, <1>10
<1>11. ASSUME Update(t) PROVE Goal
  <2>. HIDE DEF Goal
  <2>. QED  BY Zenon, <1>3, <1>4, <1>5, <1>6, <1>7, <1>8, <1>11 DEF Update, Goal
<1>. QED
  BY <1>9, <1>10, <1>11 DEF Next, InsertRow, DeleteRow

\* The history and the version counter.
LEMMA HistStep ==
  ASSUME HInv, Next
  PROVE  hist' \in Seq(Seq(Nat)) /\ vers' \in 0 .. MaxVers
<1>0. hist \in Seq(Seq(Nat)) /\ vers \in 0 .. MaxVers /\ vers \in Nat
  BY Constants DEF HInv
<1>1. ASSUME NEW len \in Lens, InsertRow(len)
      PROVE  hist' \in Seq(Seq(Nat)) /\ vers' \in 0 .. MaxVers
  <2>1. <<vers + 1>> \in Seq(Nat)
    BY <1>0
  <2>2. hist' \in Seq(Seq(Nat))
    BY <1>0, <1>1, <2>1 DEF InsertRow
  <2>. QED  BY <1>0, <1>1, <2>2, Constants DEF InsertRow
<1>2. ASSUME NEW t \in Threads, NewVersion(t) PROVE hist' \in Seq(Seq(Nat))
  <2>. DEFINE r == upd[t].old.row
  <2>1. upd[t].new \in Nat
    BY HeapTypes DEF Calls
  <2>2. hist' = [hist EXCEPT ![r] = Append(hist[r], upd[t].new)]
    BY <1>2 DEF NewVersion
  <2>. HIDE DEF r
  <2>3. CASE r \in DOMAIN hist
    <3>1. Append(hist[r], upd[t].new) \in Seq(Nat)
      BY <1>0, <2>1, <2>3
    <3>. QED  BY <1>0, <2>2, <2>3, <3>1
  <2>4. CASE r \notin DOMAIN hist
    <3>1. hist = [i \in DOMAIN hist |-> hist[i]]
      BY <1>0
    <3>2. hist' = [i \in DOMAIN hist |-> hist[i]]
      BY <2>2, <2>4, Zenon
    <3>. QED  BY <1>0, <3>1, <3>2, Zenon
  <2>. QED  BY <2>3, <2>4
<1>3. ASSUME NEW t \in Threads, Update(t)
      PROVE  hist' \in Seq(Seq(Nat)) /\ vers' \in 0 .. MaxVers
  <2>1. hist' = hist \/ NewVersion(t)
    BY Zenon, <1>3 DEF Update, UpdateStart, UpdateRead, UndoWrite, UndoFull, UpdateFit,
       UpdateInPlace, UpdateRetire, UpdateMove, UpdateNoRoom
  <2>2. vers' = vers \/ (vers < MaxVers /\ vers' = vers + 1)
    BY Zenon, <1>3 DEF Update, UpdateStart, UpdateRead, UndoWrite, UndoFull, UpdateFit,
       UpdateInPlace, UpdateRetire, UpdateMove, UpdateNoRoom
  <2>. QED  BY SMTT(20), Z3T(20), <1>0, <1>2, <2>1, <2>2, Constants
<1>4. ASSUME NEW s, DeleteRow(s) PROVE hist' \in Seq(Seq(Nat)) /\ vers' \in 0 .. MaxVers
  BY <1>0, <1>4 DEF DeleteRow
<1>. QED
  BY <1>1, <1>3, <1>4 DEF Next

-----------------------------------------------------------------------------
(* The inductive invariant: the pages are well formed, and every update    *)
(* that is at work (undo.c, kds_heap_update_tuple) still names its row.    *)
THEOREM HeapInvariant == Spec => []HInv
<1>1. Init => HInv
  BY HInvInit
<1>2. HInv /\ [Next]_vars => HInv'
  <2>. SUFFICES ASSUME HInv, [Next]_vars PROVE HInv'
    BY Zenon
  <2>1. CASE Next
    <3>1. PageOK' /\ SlotsKept(page["heap"].slots, page'["heap"].slots)
      BY <2>1, PageStep
    <3>2. hist' \in Seq(Seq(Nat)) /\ vers' \in 0 .. MaxVers
      BY <2>1, HistStep
    <3>3. \A t \in Threads : upd'[t] \in Calls /\ CallInv(upd'[t], page["heap"].slots)
      BY <2>1, CallStep
    <3>4. \A t \in Threads : CallInv(upd'[t], page'["heap"].slots)
      BY <3>1, <3>3, CallKept
    <3>5. upd' \in [Threads -> Calls]
      <4>1. DOMAIN upd' = Threads /\ upd' = [t \in Threads |-> upd'[t]]
        <5>1. upd \in [Threads -> Calls]
          BY DEF HInv
        <5>. QED
          BY ZenonT(40), <2>1, <5>1 DEF Next, InsertRow, DeleteRow, Update, UpdateStart,
             UpdateRead,
             UndoWrite, UndoFull, UpdateFit, UpdateInPlace, UpdateRetire, UpdateMove,
             UpdateNoRoom, Step
      <4>. QED  BY Zenon, <3>3, <4>1
    <3>. QED  BY <3>1, <3>2, <3>4, <3>5 DEF HInv
  <2>2. CASE UNCHANGED vars
    BY <2>2 DEF vars, HInv, PageOK
  <2>. QED  BY <2>1, <2>2
<1>. QED
  BY <1>1, <1>2, PTL DEF Spec

(* The live tuples of a page never overlap and stay between the directory  *)
(* and the next-page link (heap.c), for all page sizes and threads.        *)
THEOREM TuplesNeverOverlap == Spec => []TuplesDisjoint
<1>1. HInv => TuplesDisjoint
  <2>. SUFFICES ASSUME HInv PROVE TuplesDisjoint
    OBVIOUS
  <2>1. DOMAIN page = {"heap", "undo"} /\ PageOK
    BY DEF HInv, PageOK
  <2>2. ASSUME NEW p \in {"heap", "undo"}
        PROVE  /\ PageInv(p, page[p]) /\ page[p] \in PageImages
               /\ page[p].lower \in Nat /\ page[p].upper \in Nat
               /\ \A s \in DOMAIN page[p].slots : page[p].slots[s] \in SlotRecords
    <3>1. PageInv(p, page[p]) /\ page[p] \in PageImages
      BY <2>1 DEF PageOK
    <3>2. page[p].slots \in Seq(SlotRecords)
      BY ZenonT(40), <3>1 DEF PageImages
    <3>. QED  BY <3>1, <3>2, Constants DEF PageImages
  <2>3. TypeOK
    <3>1. vers \in 0 .. MaxVers
      BY DEF HInv
    <3>2. \A t \in Threads : upd[t].pc \in {"idle", "read", "undo", "fit", "overwrite",
                                           "retire", "insert"}
      BY HeapTypes DEF Calls
    <3>3. ASSUME NEW p \in {"heap", "undo"}
          PROVE  page[p].lower \in AreaOff .. NextOff /\ page[p].upper \in AreaOff .. NextOff
      BY Zenon, <2>2 DEF PageImages
    <3>4. ASSUME NEW p \in {"heap", "undo"}, NEW s \in DOMAIN page[p].slots
          PROVE  /\ page[p].slots[s].off \in 0 .. Word - 1
                 /\ page[p].slots[s].len \in 0 .. Word - 1
                 /\ page[p].slots[s].dead \in BOOLEAN
      BY Zenon, <2>2 DEF SlotRecords
    <3>. QED  BY SMTT(20), Z3T(20), <2>1, <3>1, <3>2, <3>3, <3>4 DEF TypeOK, Pages
  <2>4. ASSUME NEW p \in {"heap", "undo"}, NEW s \in DOMAIN page[p].slots, LiveSlot(p, s)
        PROVE  /\ page[p].lower <= page[p].slots[s].off
               /\ page[p].slots[s].off + page[p].slots[s].len <= NextOff
               /\ HdrSize + (IF p = "undo" THEN UndoSize ELSE page[p].slots[s].tup.len)
                    <= page[p].slots[s].len
    <3>1. /\ page[p].upper <= page[p].slots[s].off /\ page[p].lower <= page[p].upper
          /\ page[p].slots[s].off + page[p].slots[s].len <= NextOff
          /\ Room(p, page[p].slots[s].tup) <= page[p].slots[s].len
      BY Zenon, <2>2, <2>4 DEF PageInv, LiveSlot
    <3>2. page[p].slots[s].off \in Nat
      BY SMTT(20), Z3T(20), <2>2, Constants DEF SlotRecords
    <3>3. page[p].lower <= page[p].slots[s].off
      BY <2>2, <3>1, <3>2
    <3>. QED  BY Zenon, <3>1, <3>3 DEF Room
  <2>5. ASSUME NEW p \in {"heap", "undo"}, NEW s1 \in DOMAIN page[p].slots,
               NEW s2 \in DOMAIN page[p].slots, LiveSlot(p, s1), LiveSlot(p, s2), s1 < s2
        PROVE  page[p].slots[s2].off + page[p].slots[s2].len <= page[p].slots[s1].off
    BY Zenon, <2>2, <2>5 DEF PageInv, LiveSlot
  <2>6. ASSUME NEW p \in {"heap", "undo"}
        PROVE  AreaOff + SlotSize * Len(page[p].slots) = page[p].lower
    BY Zenon, <2>2 DEF PageInv
  <2>. QED  BY <2>1, <2>3, <2>4, <2>5, <2>6 DEF TuplesDisjoint, Pages
<1>. QED
  BY <1>1, HeapInvariant, PTL

(* A kds_heap_tid_t finds its row or nothing (the slot directory comment   *)
(* of kds_heap.h), whichever updates overlap.                              *)
THEOREM TidsAreStable == Spec => TidsStayValid
<1>1. HInv /\ [Next]_vars =>
        [\A s \in DOMAIN page["heap"].slots :
           /\ s \in DOMAIN page'["heap"].slots
           /\ page["heap"].slots[s].dead => page'["heap"].slots[s].dead
           /\ page'["heap"].slots[s].tup.row = page["heap"].slots[s].tup.row]_vars
  BY PageStep DEF SlotsKept
<1>. QED
  BY <1>1, HeapInvariant, PTL DEF Spec, TidsStayValid

-----------------------------------------------------------------------------
(* Rows and their histories. *)

\* Induction over the undo entries: a nonempty set of numbers has a least one.
LEMMA Least ==
  ASSUME NEW T, T \subseteq Nat, T # {}
  PROVE  \E x \in T : \A y \in T : x <= y
<1>1. IsWellFoundedOn(OpToRel(<, Nat), Nat)
  BY Zenon, NatLessThanWellFounded
<1>2. PICK x \in T : \A y \in T : ~ (<<y, x>> \in OpToRel(<, Nat))
  BY Zenon, <1>1, WFMin
<1>3. \A y \in T : ~ (y < x)
  BY Zenon, <1>2 DEF OpToRel
<1>. QED  BY <1>3

\* g is the table of the undo chains over entries 0 .. n.
Unfolds(g, u, n) ==
  g = [i \in 0 .. n |-> IF i = 0 THEN <<>> ELSE Append(g[u[i].tup.undo], u[i].tup.ver)]

\* Undo entries are chained onto older ones only.
PointsBack(u, n) == \A i \in 1 .. n : u[i].tup.undo \in 0 .. i - 1

\* A table of chains extends to one entry more.
LEMMA ChainExtends ==
  ASSUME NEW u, NEW n \in Nat, n # 0, PointsBack(u, n),
         NEW g, Unfolds(g, u, n - 1)
  PROVE  \E h : Unfolds(h, u, n)
<1>. DEFINE new == Append(g[u[n].tup.undo], u[n].tup.ver)
            h == [i \in 0 .. n |-> IF i = n THEN new ELSE g[i]]
<1>1. ASSUME NEW i \in 0 .. n
      PROVE  h[i] = IF i = 0 THEN <<>> ELSE Append(h[u[i].tup.undo], u[i].tup.ver)
  <2>1. CASE i = n
    <3>1. u[n].tup.undo \in 0 .. n - 1
      BY SMTT(20), Z3T(20) DEF PointsBack
    <3>2. h[u[n].tup.undo] = g[u[n].tup.undo]
      BY <3>1
    <3>. QED  BY Zenon, <2>1, <3>2
  <2>2. CASE i = 0
    <3>1. 0 \in 0 .. n - 1 /\ h[0] = g[0]
      OBVIOUS
    <3>2. g[0] = <<>>
      BY Zenon, <3>1 DEF Unfolds
    <3>. QED  BY Zenon, <2>2, <3>1, <3>2
  <2>3. CASE i # n /\ i # 0
    <3>1. i \in 0 .. n - 1 /\ i \in 1 .. n
      BY <2>3
    <3>2. u[i].tup.undo \in 0 .. i - 1
      BY Zenon, <3>1 DEF PointsBack
    <3>3. h[i] = g[i] /\ h[u[i].tup.undo] = g[u[i].tup.undo]
      BY <2>3, <3>1, <3>2
    <3>4. g[i] = Append(g[u[i].tup.undo], u[i].tup.ver)
      BY Zenon, <2>3, <3>1 DEF Unfolds
    <3>. QED  BY Zenon, <2>3, <3>3, <3>4
  <2>. QED  BY <2>1, <2>2, <2>3
<1>2. h = [i \in 0 .. n |-> h[i]]
  BY Zenon
<1>. HIDE DEF h
<1>3. Unfolds(h, u, n)
  BY Zenon, <1>1, <1>2 DEF Unfolds
<1>. QED  BY ZenonT(40), <1>3

(* ChainsOf is the table of the chains: a walk along kds_undo_write_entry's *)
(* links ends.                                                             *)
LEMMA ChainUnfolds ==
  ASSUME NEW u, Len(u) \in Nat, PointsBack(u, Len(u))
  PROVE  Unfolds(ChainsOf(u), u, Len(u))
<1>. DEFINE Bad == {n \in 0 .. Len(u) : ~ \E g : Unfolds(g, u, n)}
<1>1. Bad = {}
  <2>. SUFFICES ASSUME Bad # {} PROVE FALSE
    OBVIOUS
  <2>1. Bad \subseteq Nat
    OBVIOUS
  <2>2. PICK n \in Bad : \A m \in Bad : n <= m
    <3>. HIDE DEF Bad
    <3>. QED  BY Zenon, <2>1, Least
  <2>3. n \in Nat /\ n <= Len(u) /\ ~ \E g : Unfolds(g, u, n)
    OBVIOUS
  <2>4. CASE n = 0
    <3>. DEFINE g == [i \in 0 .. 0 |-> <<>>]
    <3>1. Unfolds(g, u, 0)
      BY DEF Unfolds
    <3>. QED  BY ZenonT(40), <2>3, <2>4, <3>1
  <2>5. CASE n # 0
    <3>1. n - 1 \in 0 .. Len(u) /\ ~ (n <= n - 1)
      BY <2>3, <2>5
    <3>2. n - 1 \notin Bad
      BY Zenon, <2>2, <3>1
    <3>3. PICK g : Unfolds(g, u, n - 1)
      BY <3>1, <3>2
    <3>4. PointsBack(u, n)
      BY <2>3 DEF PointsBack
    <3>. QED  BY Zenon, <2>3, <2>5, <3>3, <3>4, ChainExtends
  <2>. QED  BY <2>4, <2>5
<1>2. \E g : Unfolds(g, u, Len(u))
  BY <1>1
<1>3. ChainsOf(u) = CHOOSE g : Unfolds(g, u, Len(u))
  BY Zenon DEF ChainsOf, Unfolds
<1>. QED  BY <1>2, <1>3

\* New undo entries leave the chains from the old ones as they are.
LEMMA ChainKept ==
  ASSUME NEW u, NEW w, Len(u) \in Nat, Len(w) \in Nat, Len(u) <= Len(w),
         PointsBack(w, Len(w)),
         \A i \in 1 .. Len(u) : u[i] = w[i]
  PROVE  \A i \in 0 .. Len(u) : ChainsOf(w)[i] = ChainsOf(u)[i]
<1>0. PointsBack(u, Len(u))
  BY DEF PointsBack
<1>1. /\ Unfolds(ChainsOf(u), u, Len(u)) /\ Unfolds(ChainsOf(w), w, Len(w))
  BY <1>0, ChainUnfolds
<1>. DEFINE Bad == {i \in 0 .. Len(u) : ChainsOf(w)[i] # ChainsOf(u)[i]}
<1>. SUFFICES ASSUME Bad # {} PROVE FALSE
  BY Zenon
<1>2. Bad \subseteq Nat
  OBVIOUS
<1>3. PICK n \in Bad : \A m \in Bad : n <= m
  <2>. HIDE DEF Bad
  <2>. QED  BY Zenon, <1>2, Least
<1>4. n \in 0 .. Len(u) /\ n \in 0 .. Len(w) /\ ChainsOf(w)[n] # ChainsOf(u)[n]
  OBVIOUS
<1>5. n # 0
  BY Zenon, <1>1, <1>4 DEF Unfolds
<1>6. /\ n \in 1 .. Len(u) /\ u[n] = w[n] /\ w[n].tup.undo \in 0 .. n - 1
  BY <1>4, <1>5 DEF PointsBack
<1>7. /\ ChainsOf(u)[n] = Append(ChainsOf(u)[u[n].tup.undo], u[n].tup.ver)
      /\ ChainsOf(w)[n] = Append(ChainsOf(w)[w[n].tup.undo], w[n].tup.ver)
  BY Zenon, <1>1, <1>4, <1>5 DEF Unfolds
<1>8. w[n].tup.undo \in 0 .. Len(u) /\ ~ (n <= w[n].tup.undo)
  BY SMTT(20), Z3T(20), <1>4, <1>6
<1>9. w[n].tup.undo \notin Bad
  BY Zenon, <1>3, <1>8
<1>10. ChainsOf(w)[w[n].tup.undo] = ChainsOf(u)[w[n].tup.undo]
  BY Zenon, <1>8, <1>9
<1>. QED  BY Zenon, <1>4, <1>6, <1>7, <1>10

-----------------------------------------------------------------------------
(* The slot directories of the heap page and of the undo page. *)
H == page["heap"].slots

U == page["undo"].slots

Active(t) == upd[t].pc # "idle"

(* The updates that hold row r between retiring its slot and moving it. *)
Movers(r) == {t \in Threads : upd[t].pc = "insert" /\ upd[t].old.row = r}

(* Undo entries point back, and whatever points at one points into the page. *)
UndoInv ==
  /\ PointsBack(U, Len(U))
  /\ \A s \in DOMAIN H : H[s].tup.undo \in 0 .. Len(U)
  /\ \A t \in Threads : upd[t].old.undo \in 0 .. Len(U) /\ upd[t].ptr \in 0 .. Len(U)

(* Two updates at work on one row have raced for it. *)
RowInv ==
  /\ raced \subseteq DOMAIN hist /\ lost \subseteq DOMAIN hist
  /\ \A s \in DOMAIN H : H[s].tup.row \in DOMAIN hist
  /\ \A t, u \in Threads : Active(t) /\ Active(u) /\ t # u =>
        upd[t].old.row # upd[u].old.row \/ upd[t].old.row \in raced

(* The row's one tuple is in the page or in the hands of a mover, or is lost. *)
OnePlace(r) ==
  /\ \A s1, s2 \in Copies(r) : s1 = s2
  /\ Movers(r) # {} => Copies(r) = {}
  /\ r \in lost <=> Copies(r) = {} /\ Movers(r) = {}

(* An update of a row it has to itself finds the slot as it left it, and   *)
(* once its undo entry is written the chain from there is the history.     *)
CallAt(t) ==
  /\ upd[t].pc # "insert" => ~ H[upd[t].slot].dead
  /\ upd[t].pc = "undo" => /\ upd[t].old.undo = H[upd[t].slot].tup.undo
                           /\ upd[t].old.ver = H[upd[t].slot].tup.ver
  /\ upd[t].pc \in {"fit", "overwrite", "retire", "insert"} =>
       UndoChain[upd[t].ptr] = hist[upd[t].old.row]

RInv ==
  /\ UndoInv /\ RowInv
  /\ \A r \in DOMAIN hist \ raced : OnePlace(r)
  /\ HistoryReachable
  /\ \A t \in Threads : Active(t) /\ upd[t].old.row \notin raced => CallAt(t)

-----------------------------------------------------------------------------
\* The directories, the histories and the calls are of their types.
LEMMA RowTypes ==
  ASSUME HInv
  PROVE  /\ H \in Seq(SlotRecords) /\ U \in Seq(SlotRecords)
         /\ page["heap"] \in PageImages /\ page["undo"] \in PageImages
         /\ DOMAIN page = {"heap", "undo"}
         /\ hist \in Seq(Seq(Nat)) /\ vers \in Nat
         /\ upd \in [Threads -> Calls]
         /\ \A t \in Threads : Active(t) =>
              upd[t].slot \in DOMAIN H /\ upd[t].old.row = H[upd[t].slot].tup.row
<1>1. page["heap"] \in PageImages /\ page["undo"] \in PageImages /\ DOMAIN page = {"heap", "undo"}
  BY DEF HInv, PageOK
<1>2. H \in Seq(SlotRecords) /\ U \in Seq(SlotRecords)
  BY Zenon, <1>1 DEF PageImages, H, U
<1>3. vers \in Nat
  BY Constants DEF HInv
<1>4. \A t \in Threads : Active(t) =>
        upd[t].slot \in DOMAIN H /\ upd[t].old.row = H[upd[t].slot].tup.row
  BY Zenon DEF HInv, CallInv, Active, H
<1>. QED  BY Zenon, <1>1, <1>2, <1>3, <1>4 DEF HInv

\* The directories after an insertion: one live slot more.
LEMMA Inserted ==
  ASSUME HInv, NEW len, NEW tup, NEW p \in {"heap", "undo"},
         page' = [page EXCEPT ![p] = InsertInto(p, len, tup)]
  PROVE  \E x : /\ x.dead = FALSE /\ x.tup = tup
                /\ page'[p].slots = Append(page[p].slots, x)
                /\ \A q \in {"heap", "undo"} \ {p} : page'[q] = page[q]
<1>. DEFINE upper == (page[p].upper - (HdrSize + len)) % Word
            x == [off |-> upper, len |-> HdrSize + len, dead |-> FALSE, tup |-> tup]
<1>1. InsertInto(p, len, tup) = [slots |-> Append(page[p].slots, x),
                                 lower |-> page[p].lower + SlotSize, upper |-> upper]
  BY Zenon DEF InsertInto
<1>2. DOMAIN page = {"heap", "undo"}
  BY Zenon, RowTypes
<1>3. x.dead = FALSE /\ x.tup = tup
  BY Zenon
<1>. HIDE DEF x, upper
<1>4. page'[p].slots = Append(page[p].slots, x)
  BY <1>1, <1>2
<1>5. \A q \in {"heap", "undo"} \ {p} : page'[q] = page[q]
  BY Zenon, <1>2
<1>. QED  BY Zenon, <1>3, <1>4, <1>5

\* heap_insert_tuple of a new row.
LEMMA InsertRowEffect ==
  ASSUME HInv, NEW len, InsertRow(len)
  PROVE  /\ \E x : /\ x.dead = FALSE /\ x.tup.row = Len(hist) + 1 /\ x.tup.undo = 0
                   /\ x.tup.ver = vers + 1 /\ H' = Append(H, x)
         /\ U' = U /\ hist' = Append(hist, <<vers + 1>>)
         /\ upd' = upd /\ raced' = raced /\ lost' = lost
<1>. DEFINE tup == Tuple(Len(hist) + 1, vers + 1, len, 0)
<1>1. page' = [page EXCEPT !["heap"] = InsertInto("heap", len, tup)]
  BY Zenon DEF InsertRow
<1>2. tup.row = Len(hist) + 1 /\ tup.undo = 0 /\ tup.ver = vers + 1
  BY DEF Tuple
<1>. HIDE DEF tup
<1>3. \E x : /\ x.dead = FALSE /\ x.tup = tup
             /\ page'["heap"].slots = Append(page["heap"].slots, x)
             /\ \A q \in {"heap", "undo"} \ {"heap"} : page'[q] = page[q]
  BY ZenonT(40), <1>1, Inserted
<1>. QED  BY Zenon, <1>2, <1>3 DEF InsertRow, H, U, ghosts

\* heap_delete_tuple.
LEMMA DeleteRowEffect ==
  ASSUME HInv, NEW s \in DOMAIN H, DeleteRow(s)
  PROVE  /\ \E x : /\ x.dead = H[s].dead /\ x.tup.row = H[s].tup.row
                   /\ x.tup.undo = H[s].tup.undo /\ x.tup.ver = H[s].tup.ver
                   /\ H' = [H EXCEPT ![s] = x]
         /\ U' = U /\ hist' = hist /\ upd' = upd /\ raced' = raced /\ lost' = lost
<1>. DEFINE x == [H[s] EXCEPT !.tup = [H[s].tup EXCEPT !.xmax = 1]]
<1>0. H[s] \in SlotRecords /\ H[s].tup \in Tuples
  <2>1. H[s] \in SlotRecords
    BY RowTypes
  <2>. QED  BY Zenon, <2>1 DEF SlotRecords
<1>1. /\ x.dead = H[s].dead /\ x.tup.row = H[s].tup.row
      /\ x.tup.undo = H[s].tup.undo /\ x.tup.ver = H[s].tup.ver
  BY Zenon, <1>0 DEF SlotRecords, Tuples
<1>2. page' = [page EXCEPT !["heap"] = [page["heap"] EXCEPT !.slots = [H EXCEPT ![s] = x]]]
  BY Zenon DEF DeleteRow, H
<1>. HIDE DEF x
<1>3. H' = [H EXCEPT ![s] = x] /\ U' = U
  BY Zenon, <1>2, RowTypes DEF H, U, PageImages
<1>. QED  BY Zenon, <1>1, <1>3 DEF DeleteRow, ghosts

\* kds_undo_write_entry.
LEMMA UndoWriteEffect ==
  ASSUME HInv, NEW t \in Threads, UndoWrite(t)
  PROVE  /\ \E x : x.tup = upd[t].old /\ U' = Append(U, x)
         /\ H' = H /\ hist' = hist /\ raced' = raced /\ lost' = lost
<1>. DEFINE tup == upd[t].old
            len == UndoSize
<1>1. page' = [page EXCEPT !["undo"] = InsertInto("undo", len, tup)]
  BY Zenon DEF UndoWrite
<1>. HIDE DEF tup, len
<1>2. \E x : /\ x.dead = FALSE /\ x.tup = tup
             /\ page'["undo"].slots = Append(page["undo"].slots, x)
             /\ \A q \in {"heap", "undo"} \ {"undo"} : page'[q] = page[q]
  BY ZenonT(20), <1>1, Inserted
<1>. QED  BY Zenon, <1>2 DEF UndoWrite, H, U, ghosts, tup

\* The end of an update that moved.
LEMMA MoveEffect ==
  ASSUME HInv, NEW t \in Threads, UpdateMove(t)
  PROVE  /\ \E x : x.dead = FALSE /\ x.tup = NewTuple(t) /\ H' = Append(H, x)
         /\ U' = U /\ raced' = raced /\ lost' = lost
<1>. DEFINE tup == NewTuple(t)
            len == upd[t].len
<1>1. page' = [page EXCEPT !["heap"] = InsertInto("heap", len, tup)]
  BY DEF UpdateMove
<1>. HIDE DEF tup, len
<1>2. \E x : /\ x.dead = FALSE /\ x.tup = tup
             /\ page'["heap"].slots = Append(page["heap"].slots, x)
             /\ \A q \in {"heap", "undo"} \ {"heap"} : page'[q] = page[q]
  BY ZenonT(20), <1>1, Inserted
<1>. QED  BY Zenon, <1>2 DEF UpdateMove, H, U, ghosts, tup

\* heap_overwrite_tuple.
LEMMA OverwriteEffect ==
  ASSUME HInv, NEW t \in Threads, upd[t].slot \in DOMAIN H,
         page' = [page EXCEPT !["heap"] = Overwritten("heap", upd[t].slot, NewTuple(t))]
  PROVE  /\ \E x : x.dead = H[upd[t].slot].dead /\ x.tup = NewTuple(t)
                   /\ H' = [H EXCEPT ![upd[t].slot] = x]
         /\ U' = U
<1>. DEFINE s == upd[t].slot
            x == [H[s] EXCEPT !.tup = NewTuple(t)]
<1>0. H[s] \in SlotRecords
  BY RowTypes
<1>1. x.dead = H[s].dead /\ x.tup = NewTuple(t)
  BY Zenon, <1>0 DEF SlotRecords
<1>2. page' = [page EXCEPT !["heap"] = [page["heap"] EXCEPT !.slots = [H EXCEPT ![s] = x]]]
  BY Zenon DEF Overwritten, H
<1>. HIDE DEF x, s
<1>3. H' = [H EXCEPT ![s] = x] /\ U' = U
  BY Zenon, <1>2, RowTypes DEF H, U, PageImages
<1>. QED  BY Zenon, <1>1, <1>3 DEF s

\* heap_retire_slot.
LEMMA RetireEffect ==
  ASSUME HInv, NEW t \in Threads, UpdateRetire(t)
  PROVE  /\ \E x : x.dead = TRUE /\ x.tup = H[upd[t].slot].tup
                   /\ H' = [H EXCEPT ![upd[t].slot] = x]
         /\ U' = U /\ hist' = hist /\ raced' = raced /\ lost' = lost
<1>. DEFINE s == upd[t].slot
            x == [H[s] EXCEPT !.dead = TRUE, !.len = 0]
<1>0. s \in DOMAIN H
  BY ZenonT(20), RowTypes DEF UpdateRetire, Active
<1>1. H[s] \in SlotRecords
  BY <1>0, RowTypes
<1>2. x.dead = TRUE /\ x.tup = H[s].tup
  BY Zenon, <1>1 DEF SlotRecords
<1>3. page' = [page EXCEPT !["heap"] = [page["heap"] EXCEPT !.slots = [H EXCEPT ![s] = x]]]
  BY ZenonT(60), <1>0, <1>1, RowTypes DEF UpdateRetire, Retired, PageImages, H
<1>. HIDE DEF x, s
<1>4. H' = [H EXCEPT ![s] = x] /\ U' = U
  BY <1>3, RowTypes DEF H, U, PageImages
<1>. QED  BY Zenon, <1>2, <1>4 DEF UpdateRetire, ghosts, s

-----------------------------------------------------------------------------
(* Slots that show the same row and version. *)
Alike(x, y) ==
  /\ x.dead = y.dead /\ x.tup.row = y.tup.row
  /\ x.tup.undo = y.tup.undo /\ x.tup.ver = y.tup.ver

\* The live tuples of a row.
LEMMA CopiesAre ==
  ASSUME NEW r
  PROVE  /\ Copies(r) = {s \in DOMAIN H : ~ H[s].dead /\ H[s].tup.row = r}
         /\ Copies(r)' = {s \in DOMAIN H' : ~ H'[s].dead /\ H'[s].tup.row = r}
BY Zenon DEF Copies, LiveSlot, H

\* A step that leaves what the slots show, and the undo page, keeps the rows.
LEMMA RowsStay ==
  ASSUME RInv, DOMAIN H' = DOMAIN H, \A s \in DOMAIN H : Alike(H'[s], H[s]),
         U' = U, hist' = hist, raced \subseteq raced'
  PROVE  /\ \A r : Copies(r)' = Copies(r)
         /\ UndoChain' = UndoChain
         /\ HistoryReachable'
<1>1. ASSUME NEW r PROVE Copies(r)' = Copies(r)
  <2>1. /\ Copies(r) = {s \in DOMAIN H : ~ H[s].dead /\ H[s].tup.row = r}
        /\ Copies(r)' = {s \in DOMAIN H' : ~ H'[s].dead /\ H'[s].tup.row = r}
    BY Zenon, CopiesAre
  <2>. QED  BY <2>1 DEF Alike
<1>2. UndoChain' = UndoChain
  BY DEF UndoChain, U
<1>3. ASSUME NEW s \in DOMAIN H PROVE Versions(s)' = Versions(s)
  BY Zenon, <1>2 DEF Versions, H, Alike
<1>4. ASSUME NEW r \in DOMAIN hist' \ raced', NEW s \in Copies(r)' PROVE Versions(s)' = hist'[r]
  <2>1. s \in DOMAIN H /\ s \in Copies(r)
    BY Zenon, <1>1 DEF Copies, H
  <2>. QED  BY Zenon, <1>3, <2>1 DEF RInv, HistoryReachable
<1>. QED  BY <1>1, <1>2, <1>4 DEF HistoryReachable

\* An update that a step leaves alone, with its slot and its row.
LEMMA CallAtKept ==
  ASSUME HInv, RInv, NEW t \in Threads, Active(t), upd[t].old.row \notin raced,
         upd'[t] = upd[t], Alike(H'[upd[t].slot], H[upd[t].slot]),
         \A i \in 0 .. Len(U) : UndoChain'[i] = UndoChain[i],
         hist'[upd[t].old.row] = hist[upd[t].old.row]
  PROVE  CallAt(t)'
<1>1. CallAt(t)
  BY Zenon DEF RInv
<1>2. upd[t].ptr \in 0 .. Len(U)
  BY Zenon DEF RInv, UndoInv
<1>. QED  BY Zenon, <1>1, <1>2 DEF CallAt, Alike

\* The other updates of a row that has not been raced for.
LEMMA Others ==
  ASSUME RInv, NEW t \in Threads, Active(t), NEW u \in Threads, u # t, Active(u),
         upd[u].old.row \notin raced
  PROVE  upd[u].old.row # upd[t].old.row
BY Zenon DEF RInv, RowInv

\* A step of one update that writes nothing: it reads, decides, or ends.
LEMMA QuietStep ==
  ASSUME HInv, RInv, NEW t \in Threads, H' = H, U' = U, hist' = hist, lost' = lost,
         raced \subseteq raced', raced' \subseteq DOMAIN hist,
         \A u \in Threads \ {t} : upd'[u] = upd[u],
         upd[t].pc # "insert", upd'[t].pc # "insert",
         upd'[t].old.undo \in 0 .. Len(U), upd'[t].ptr \in 0 .. Len(U),
         upd'[t].pc # "idle" => \A u \in Threads \ {t} : Active(u) =>
           upd[u].old.row # upd'[t].old.row \/ upd'[t].old.row \in raced',
         upd'[t].pc # "idle" /\ upd'[t].old.row \notin raced' => CallAt(t)'
  PROVE  RInv'
<1>1. DOMAIN H' = DOMAIN H /\ \A s \in DOMAIN H : Alike(H'[s], H[s])
  BY Zenon DEF Alike
<1>2. /\ \A r : Copies(r)' = Copies(r)
      /\ UndoChain' = UndoChain
      /\ HistoryReachable'
  BY Zenon, <1>1, RowsStay
<1>3. UndoInv'
  BY Zenon DEF RInv, UndoInv
<1>4. RowInv'
  <2>1. ASSUME NEW u \in Threads, NEW v \in Threads, Active(u)', Active(v)', u # v
        PROVE  upd'[u].old.row # upd'[v].old.row \/ upd'[u].old.row \in raced'
    <3>1. CASE u = t
      BY Zenon, <2>1, <3>1 DEF Active
    <3>2. CASE v = t
      BY Zenon, <2>1, <3>2 DEF Active
    <3>3. CASE u # t /\ v # t
      BY ZenonT(40), <2>1, <3>3 DEF Active, RInv, RowInv
    <3>. QED  BY Zenon, <3>1, <3>2, <3>3
  <2>. QED  BY Zenon, <2>1 DEF RInv, RowInv
<1>5. ASSUME NEW r \in DOMAIN hist' \ raced' PROVE OnePlace(r)'
  <2>1. Movers(r)' = Movers(r)
    BY Zenon DEF Movers
  <2>2. OnePlace(r)
    BY Zenon DEF RInv
  <2>. QED  BY Zenon, <1>2, <2>1, <2>2 DEF OnePlace
<1>6. ASSUME NEW u \in Threads, Active(u)', upd'[u].old.row \notin raced' PROVE CallAt(u)'
  <2>1. CASE u = t
    BY Zenon, <1>6, <2>1 DEF Active
  <2>2. CASE u # t
    <3>1. upd'[u] = upd[u] /\ Active(u) /\ upd[u].old.row \notin raced
      BY Zenon, <1>6, <2>2 DEF Active
    <3>2. Alike(H'[upd[u].slot], H[upd[u].slot])
      BY Zenon DEF Alike
    <3>. QED  BY Zenon, <1>2, <3>1, <3>2, CallAtKept
  <2>. QED  BY Zenon, <2>1, <2>2
<1>. QED  BY ZenonT(20), <1>2, <1>3, <1>4, <1>5, <1>6 DEF RInv

\* kds_heap_update_tuple ends without a write: -ENOENT or -ENOSPC.
LEMMA EndStep ==
  ASSUME HInv, RInv, NEW t \in Threads, page' = page, hist' = hist, ghosts' = ghosts,
         upd[t].pc # "insert", Step(t, Idle)
  PROVE  RInv'
<1>1. upd'[t] = Idle /\ \A u \in Threads \ {t} : upd'[u] = upd[u]
  BY Zenon, RowTypes DEF Step
<1>2. H' = H /\ U' = U /\ lost' = lost /\ raced' = raced
  BY Zenon DEF H, U, ghosts
<1>3. Len(U) \in Nat /\ raced \subseteq DOMAIN hist
  BY SMTT(20), Z3T(20), RowTypes DEF RInv, RowInv
<1>4. /\ upd'[t].pc = "idle" /\ upd'[t].old.undo \in 0 .. Len(U) /\ upd'[t].ptr \in 0 .. Len(U)
  BY SMTT(20), Z3T(20), <1>1, <1>3 DEF Idle
<1>. QED  BY Zenon, <1>1, <1>2, <1>3, <1>4, QuietStep

\* The first read: another update of the row makes it a race.
LEMMA StartStep ==
  ASSUME HInv, RInv, NEW t \in Threads, NEW s \in DOMAIN H, NEW len, UpdateStart(t, s, len)
  PROVE  RInv'
<1>. DEFINE old == H[s].tup
            busy == {upd[u].old.row : u \in {u \in Threads : upd[u].pc # "idle"}}
<1>1. PICK lab \in {"read", "undo"} :
        upd' = [upd EXCEPT ![t] = [upd[t] EXCEPT !.pc = lab, !.slot = s, !.new = vers + 1,
                                                 !.len = len, !.old = old]]
  BY Zenon DEF UpdateStart, Step, H
<1>2. upd \in [Threads -> Calls] /\ upd[t] \in Calls
  BY Zenon, RowTypes
<1>3. /\ upd'[t].pc = lab /\ upd'[t].slot = s /\ upd'[t].old = old /\ upd'[t].ptr = upd[t].ptr
      /\ \A u \in Threads \ {t} : upd'[u] = upd[u]
  BY Zenon, <1>1, <1>2 DEF Calls
<1>4. /\ upd[t].pc = "idle" /\ ~ H[s].dead /\ raced' = raced \union ({old.row} \intersect busy)
      /\ H' = H /\ U' = U /\ hist' = hist /\ lost' = lost
  BY Zenon DEF UpdateStart, LiveSlot, H, U
<1>5. /\ old.undo \in 0 .. Len(U) /\ upd[t].ptr \in 0 .. Len(U) /\ old.row \in DOMAIN hist
      /\ raced \subseteq DOMAIN hist
  BY Zenon DEF RInv, UndoInv, RowInv
<1>6. ASSUME NEW u \in Threads \ {t}, Active(u), upd[u].old.row = old.row
      PROVE  old.row \in raced'
  BY Zenon, <1>4, <1>6 DEF Active
<1>7. CallAt(t)'
  BY Zenon, <1>3, <1>4 DEF CallAt
<1>8. raced \subseteq raced' /\ raced' \subseteq DOMAIN hist
  BY Zenon, <1>4, <1>5
<1>. HIDE DEF old, busy
<1>. QED  BY ZenonT(20), <1>3, <1>4, <1>5, <1>6, <1>7, <1>8, QuietStep

\* A step of the update that keeps its row, slot and undo entry.
LEMMA SameRow ==
  ASSUME HInv, RInv, NEW t \in Threads, Active(t)
  PROVE  \A u \in Threads \ {t} : Active(u) =>
           upd[u].old.row # upd[t].old.row \/ upd[t].old.row \in raced
BY Zenon DEF RInv, RowInv

\* The second read.
LEMMA ReadStep ==
  ASSUME HInv, RInv, NEW t \in Threads, UpdateRead(t)
  PROVE  RInv'
<1>. DEFINE s == upd[t].slot
<1>1. /\ upd[t].pc = "read" /\ page' = page /\ hist' = hist /\ ghosts' = ghosts
      /\ Active(t) /\ s \in DOMAIN H /\ upd[t].old.row = H[s].tup.row
  BY Zenon, RowTypes DEF UpdateRead, Active, ghosts
<1>2. CASE Step(t, Idle)
  BY ZenonT(20), <1>1, <1>2, EndStep
<1>3. CASE ~ H[s].dead /\ Step(t, [upd[t] EXCEPT !.pc = "undo", !.old = H[s].tup])
  <2>1. upd \in [Threads -> Calls] /\ upd[t] \in Calls
    BY Zenon, RowTypes
  <2>2. /\ upd'[t].pc = "undo" /\ upd'[t].slot = s /\ upd'[t].old = H[s].tup
        /\ upd'[t].ptr = upd[t].ptr /\ \A u \in Threads \ {t} : upd'[u] = upd[u]
    BY Zenon, <1>3, <2>1 DEF Calls, Step
  <2>3. H' = H /\ U' = U /\ lost' = lost /\ raced' = raced /\ hist' = hist
    BY Zenon, <1>1 DEF H, U, ghosts
  <2>4. /\ H[s].tup.undo \in 0 .. Len(U) /\ upd[t].ptr \in 0 .. Len(U)
        /\ raced \subseteq DOMAIN hist
    BY Zenon, <1>1 DEF RInv, UndoInv, RowInv
  <2>5. CallAt(t)'
    BY Zenon, <1>3, <2>2, <2>3 DEF CallAt
  <2>6. \A u \in Threads \ {t} : Active(u) =>
          upd[u].old.row # H[s].tup.row \/ H[s].tup.row \in raced
    BY Zenon, <1>1, SameRow
  <2>. HIDE DEF s
  <2>. QED  BY ZenonT(40), <1>1, <2>2, <2>3, <2>4, <2>5, <2>6, QuietStep
<1>. QED  BY Zenon, <1>2, <1>3 DEF UpdateRead, LiveSlot, H

\* heap_slot_capacity.
LEMMA FitStep ==
  ASSUME HInv, RInv, NEW t \in Threads, UpdateFit(t)
  PROVE  RInv'
<1>. DEFINE s == upd[t].slot
<1>1. /\ upd[t].pc = "fit" /\ page' = page /\ hist' = hist /\ ghosts' = ghosts
      /\ Active(t) /\ s \in DOMAIN H
  BY Zenon, RowTypes DEF UpdateFit, Active, ghosts
<1>2. CASE Step(t, Idle)
  BY Zenon, <1>1, <1>2, EndStep
<1>3. ASSUME NEW lab \in {"overwrite", "retire"}, Step(t, [upd[t] EXCEPT !.pc = lab])
      PROVE  RInv'
  <2>1. upd \in [Threads -> Calls] /\ upd[t] \in Calls
    BY Zenon, RowTypes
  <2>2. /\ upd'[t].pc = lab /\ upd'[t].slot = s /\ upd'[t].old = upd[t].old
        /\ upd'[t].ptr = upd[t].ptr /\ \A u \in Threads \ {t} : upd'[u] = upd[u]
    BY Zenon, <1>3, <2>1 DEF Calls, Step
  <2>3. H' = H /\ U' = U /\ lost' = lost /\ raced' = raced /\ hist' = hist
        /\ UndoChain' = UndoChain
    BY Zenon, <1>1 DEF H, U, ghosts, UndoChain
  <2>4. /\ upd[t].old.undo \in 0 .. Len(U) /\ upd[t].ptr \in 0 .. Len(U)
        /\ raced \subseteq DOMAIN hist
    BY Zenon, <1>1 DEF RInv, UndoInv, RowInv
  <2>5. ASSUME upd[t].old.row \notin raced PROVE CallAt(t)'
    <3>1. CallAt(t)
      BY Zenon, <1>1, <2>5 DEF RInv
    <3>. QED  BY ZenonT(20), <1>1, <2>2, <2>3, <3>1 DEF CallAt
  <2>6. \A u \in Threads \ {t} : Active(u) =>
          upd[u].old.row # upd[t].old.row \/ upd[t].old.row \in raced
    BY Zenon, <1>1, SameRow
  <2>. HIDE DEF s
  <2>. QED  BY ZenonT(20), <1>1, <2>2, <2>3, <2>4, <2>5, <2>6, QuietStep
<1>. QED  BY Zenon, <1>2, <1>3 DEF UpdateFit

\* heap_delete_tuple stamps xmax, which no version depends on.
LEMMA DeleteStep ==
  ASSUME HInv, RInv, NEW s \in DOMAIN H, DeleteRow(s)
  PROVE  RInv'
<1>1. PICK x : /\ x.dead = H[s].dead /\ x.tup.row = H[s].tup.row
               /\ x.tup.undo = H[s].tup.undo /\ x.tup.ver = H[s].tup.ver
               /\ H' = [H EXCEPT ![s] = x]
  BY Zenon, DeleteRowEffect
<1>2. U' = U /\ hist' = hist /\ upd' = upd /\ raced' = raced /\ lost' = lost
  BY Zenon, DeleteRowEffect
<1>3. DOMAIN H' = DOMAIN H /\ \A i \in DOMAIN H : Alike(H'[i], H[i])
  BY Zenon, <1>1, RowTypes DEF Alike
<1>4. /\ \A r : Copies(r)' = Copies(r)
      /\ UndoChain' = UndoChain
      /\ HistoryReachable'
  BY Zenon, <1>2, <1>3, RowsStay
<1>5. UndoInv'
  BY Zenon, <1>2, <1>3 DEF RInv, UndoInv, Alike
<1>6. RowInv'
  BY ZenonT(40), <1>2, <1>3 DEF RInv, RowInv, Alike, Active
<1>7. ASSUME NEW r \in DOMAIN hist' \ raced' PROVE OnePlace(r)'
  BY <1>2, <1>4 DEF RInv, OnePlace, Movers
<1>8. ASSUME NEW u \in Threads, Active(u)', upd'[u].old.row \notin raced' PROVE CallAt(u)'
  <2>1. Active(u) /\ upd[u].old.row \notin raced /\ upd[u].slot \in DOMAIN H
    BY ZenonT(20), <1>2, <1>8, RowTypes DEF Active
  <2>. QED  BY ZenonT(20), <1>2, <1>3, <1>4, <2>1, CallAtKept
<1>. QED  BY ZenonT(20), <1>4, <1>5, <1>6, <1>7, <1>8 DEF RInv

\* kds_undo_write_entry: the chain from the new entry is the row's history.
LEMMA UndoStep ==
  ASSUME HInv, RInv, NEW t \in Threads, UndoWrite(t)
  PROVE  RInv'
<1>. DEFINE n == Len(U)
<1>1. PICK x : x.tup = upd[t].old /\ U' = Append(U, x)
  BY Zenon, UndoWriteEffect
<1>2. H' = H /\ hist' = hist /\ raced' = raced /\ lost' = lost
  BY Zenon, UndoWriteEffect
<1>3. upd \in [Threads -> Calls] /\ upd[t] \in Calls /\ U \in Seq(SlotRecords)
  BY Zenon, RowTypes
<1>4. /\ upd[t].pc = "undo" /\ Active(t) /\ upd[t].slot \in DOMAIN H
      /\ upd[t].old.row = H[upd[t].slot].tup.row
  BY Zenon, RowTypes DEF UndoWrite, Active
<1>5. /\ upd'[t].pc = "fit" /\ upd'[t].slot = upd[t].slot /\ upd'[t].old = upd[t].old
      /\ upd'[t].ptr = n + 1 /\ \A u \in Threads \ {t} : upd'[u] = upd[u]
  BY ZenonT(20), <1>3 DEF UndoWrite, Step, Calls, U
<1>6. /\ n \in Nat /\ Len(U') = n + 1 /\ U'[n + 1] = x
      /\ \A i \in 1 .. n : U'[i] = U[i]
  BY SMTT(20), Z3T(20), <1>1, <1>3
<1>7. /\ PointsBack(U, n) /\ upd[t].old.undo \in 0 .. n
      /\ \A s \in DOMAIN H : H[s].tup.undo \in 0 .. n
      /\ \A u \in Threads : upd[u].old.undo \in 0 .. n /\ upd[u].ptr \in 0 .. n
  BY Zenon DEF RInv, UndoInv
<1>. HIDE DEF n
<1>8. PointsBack(U', n + 1)
  <2>1. ASSUME NEW i \in 1 .. n + 1 PROVE U'[i].tup.undo \in 0 .. i - 1
    <3>1. CASE i = n + 1
      BY SMTT(20), Z3T(20), <1>1, <1>6, <1>7, <3>1
    <3>2. CASE i # n + 1
      <4>1. i \in 1 .. n
        BY <1>6, <3>2
      <4>. QED  BY ZenonT(20), <1>6, <1>7, <4>1 DEF PointsBack
    <3>. QED  BY ZenonT(40), <3>1, <3>2
  <2>. QED  BY Zenon, <2>1 DEF PointsBack
<1>9. UndoInv'
  <2>1. \A i \in 0 .. n : i \in 0 .. n + 1
    BY <1>6
  <2>2. n + 1 \in 0 .. n + 1
    BY <1>6
  <2>3. ASSUME NEW u \in Threads
        PROVE  upd'[u].old.undo \in 0 .. n + 1 /\ upd'[u].ptr \in 0 .. n + 1
    <3>1. CASE u = t
      BY ZenonT(20), <1>5, <1>7, <2>1, <2>2, <3>1
    <3>2. CASE u # t
      BY ZenonT(20), <1>5, <1>7, <2>1, <3>2
    <3>. QED  BY Zenon, <3>1, <3>2
  <2>4. \A s \in DOMAIN H' : H'[s].tup.undo \in 0 .. n + 1
    BY ZenonT(20), <1>2, <1>7, <2>1
  <2>. QED  BY Zenon, <1>6, <1>8, <2>3, <2>4 DEF UndoInv
<1>10. \A i \in 0 .. n : UndoChain'[i] = UndoChain[i]
  <2>1. UndoChain = ChainsOf(U) /\ UndoChain' = ChainsOf(U')
    BY Zenon DEF UndoChain, U
  <2>2. Len(U) = n /\ n <= n + 1 /\ n + 1 \in Nat
    BY <1>6 DEF n
  <2>. QED  BY ZenonT(20), <1>6, <1>8, <2>1, <2>2, ChainKept
<1>11. UndoChain'[n + 1] = Append(UndoChain[upd[t].old.undo], upd[t].old.ver)
  <2>1. Unfolds(UndoChain', U', n + 1)
    <3>1. UndoChain' = ChainsOf(U')
      BY Zenon DEF UndoChain, U
    <3>. QED  BY SMTT(20), Z3T(20), <1>6, <1>8, <3>1, ChainUnfolds
  <2>2. n + 1 \in 0 .. n + 1 /\ n + 1 # 0
    BY <1>6
  <2>3. UndoChain'[n + 1] = Append(UndoChain'[x.tup.undo], x.tup.ver)
    BY ZenonT(20), <1>6, <2>1, <2>2 DEF Unfolds
  <2>. QED  BY ZenonT(40), <1>1, <1>7, <1>10, <2>3
<1>12. ASSUME NEW r PROVE Copies(r)' = Copies(r) /\ Movers(r)' = Movers(r)
  <2>1. Copies(r)' = Copies(r)
    BY Zenon, <1>2, CopiesAre
  <2>2. Movers(r)' = Movers(r)
    BY Zenon, <1>4, <1>5 DEF Movers
  <2>. QED  BY SMTT(20), Z3T(20), <2>1, <2>2
<1>13. ASSUME NEW s \in DOMAIN H PROVE Versions(s)' = Versions(s)
  <2>1. H[s].tup.undo \in 0 .. n
    BY Zenon, <1>7
  <2>. QED  BY ZenonT(20), <1>2, <1>10, <2>1 DEF Versions, H
<1>14. HistoryReachable'
  <2>1. ASSUME NEW r \in DOMAIN hist \ raced, NEW s \in Copies(r) PROVE Versions(s)' = hist[r]
    <3>1. s \in DOMAIN H /\ Versions(s) = hist[r]
      BY ZenonT(40) DEF Copies, H, RInv, HistoryReachable
    <3>. QED  BY Zenon, <1>13, <3>1
  <2>. QED  BY ZenonT(20), <1>2, <1>12, <2>1 DEF HistoryReachable
<1>15. RowInv'
  <2>1. /\ \A u \in Threads : upd'[u].old = upd[u].old
        /\ \A u \in Threads : Active(u)' => Active(u)
    BY Zenon, <1>4, <1>5 DEF Active
  <2>2. \A u, v \in Threads : Active(u)' /\ Active(v)' /\ u # v =>
          upd'[u].old.row # upd'[v].old.row \/ upd'[u].old.row \in raced
    BY ZenonT(20), <2>1 DEF RInv, RowInv
  <2>. QED  BY Zenon, <1>2, <2>2 DEF RInv, RowInv
<1>16. ASSUME NEW r \in DOMAIN hist' \ raced' PROVE OnePlace(r)'
  BY SMTT(20), Z3T(20), <1>2, <1>12 DEF RInv, OnePlace
<1>17. ASSUME NEW u \in Threads, Active(u)', upd'[u].old.row \notin raced' PROVE CallAt(u)'
  <2>1. CASE u = t
    <3>1. CallAt(t) /\ upd[t].old.row \notin raced
      BY ZenonT(20), <1>2, <1>4, <1>5, <1>17, <2>1 DEF RInv
    <3>2. /\ ~ H[upd[t].slot].dead /\ upd[t].old.undo = H[upd[t].slot].tup.undo
          /\ upd[t].old.ver = H[upd[t].slot].tup.ver
      BY ZenonT(20), <1>4, <3>1 DEF CallAt
    <3>3. upd[t].slot \in Copies(upd[t].old.row) /\ upd[t].old.row \in DOMAIN hist
      BY ZenonT(20), <1>4, <3>2, CopiesAre DEF RInv, RowInv
    <3>4. Versions(upd[t].slot) = hist[upd[t].old.row]
      BY Zenon, <3>1, <3>3 DEF RInv, HistoryReachable
    <3>5. UndoChain'[n + 1] = hist[upd[t].old.row]
      BY ZenonT(20), <1>11, <3>2, <3>4 DEF Versions, H
    <3>. QED  BY ZenonT(20), <1>2, <1>5, <2>1, <3>2, <3>5 DEF CallAt
  <2>2. CASE u # t
    <3>1. upd'[u] = upd[u] /\ Active(u) /\ upd[u].old.row \notin raced
      BY ZenonT(20), <1>2, <1>5, <1>17, <2>2 DEF Active
    <3>2. Alike(H'[upd[u].slot], H[upd[u].slot])
      BY Zenon, <1>2 DEF Alike
    <3>3. \A i \in 0 .. Len(U) : UndoChain'[i] = UndoChain[i]
      BY Zenon, <1>10 DEF n
    <3>. QED  BY ZenonT(20), <1>2, <3>1, <3>2, <3>3, CallAtKept
  <2>. QED  BY Zenon, <2>1, <2>2
<1>. QED  BY ZenonT(20), <1>9, <1>14, <1>15, <1>16, <1>17 DEF RInv

\* A version is added to the history of the update's row.
LEMMA NewVersionEffect ==
  ASSUME HInv, NEW t \in Threads, NewVersion(t), upd[t].old.row \in DOMAIN hist
  PROVE  /\ DOMAIN hist' = DOMAIN hist
         /\ hist'[upd[t].old.row] = Append(hist[upd[t].old.row], upd[t].new)
         /\ \A r \in DOMAIN hist \ {upd[t].old.row} : hist'[r] = hist[r]
         /\ NewTuple(t).row = upd[t].old.row /\ NewTuple(t).undo = upd[t].ptr
         /\ NewTuple(t).ver = upd[t].new
<1>1. NewTuple(t).row = upd[t].old.row /\ NewTuple(t).undo = upd[t].ptr /\ NewTuple(t).ver = upd[t].new
  BY Zenon DEF NewTuple, Tuple
<1>. QED  BY Zenon, <1>1, RowTypes DEF NewVersion

\* What a step of update t needs of the others: their rows are not its row.
LEMMA OthersKept ==
  ASSUME HInv, RInv, NEW t \in Threads, Active(t), raced' = raced,
         \A u \in Threads \ {t} : upd'[u] = upd[u],
         \A s \in DOMAIN H : H[s].tup.row # upd[t].old.row => Alike(H'[s], H[s]),
         \A r \in DOMAIN hist \ {upd[t].old.row} : hist'[r] = hist[r],
         UndoChain' = UndoChain,
         NEW u \in Threads \ {t}, Active(u)', upd'[u].old.row \notin raced'
  PROVE  CallAt(u)'
<1>1. upd'[u] = upd[u] /\ Active(u) /\ upd[u].old.row \notin raced
  BY Zenon DEF Active
<1>2. upd[u].old.row # upd[t].old.row
  BY Zenon, <1>1, Others
<1>3. /\ upd[u].slot \in DOMAIN H /\ H[upd[u].slot].tup.row = upd[u].old.row
      /\ upd[u].old.row \in DOMAIN hist
  BY Zenon, <1>1, RowTypes DEF RInv, RowInv
<1>4. hist'[upd[u].old.row] = hist[upd[u].old.row]
  BY Zenon, <1>2, <1>3
<1>5. Alike(H'[upd[u].slot], H[upd[u].slot])
  BY Zenon, <1>2, <1>3
<1>. QED  BY ZenonT(20), <1>1, <1>4, <1>5, CallAtKept

\* Rows and calls when update t is over or its row unchanged.
LEMMA RowInvKept ==
  ASSUME HInv, RInv, NEW t \in Threads, Active(t), raced' = raced, DOMAIN hist' = DOMAIN hist,
         lost' \subseteq DOMAIN hist,
         \A u \in Threads \ {t} : upd'[u] = upd[u],
         upd'[t].pc = "idle" \/ upd'[t].old.row = upd[t].old.row,
         \A s \in DOMAIN H' : H'[s].tup.row \in DOMAIN hist
  PROVE  RowInv'
<1>1. ASSUME NEW u \in Threads, NEW v \in Threads, Active(u)', Active(v)', u # v
      PROVE  upd'[u].old.row # upd'[v].old.row \/ upd'[u].old.row \in raced'
  <2>1. Active(u) /\ upd'[u].old.row = upd[u].old.row
    BY Zenon, <1>1 DEF Active
  <2>2. Active(v) /\ upd'[v].old.row = upd[v].old.row
    BY Zenon, <1>1 DEF Active
  <2>. QED  BY Zenon, <1>1, <2>1, <2>2 DEF RInv, RowInv
<1>. QED  BY Zenon, <1>1 DEF RInv, RowInv

\* The new version in the row's slot.
LEMMA OverwriteStep ==
  ASSUME HInv, RInv, NEW t \in Threads, UpdateInPlace(t), hist' # hist
  PROVE  RInv'
<1>. DEFINE s == upd[t].slot
            row == upd[t].old.row
<1>0. /\ upd[t].pc = "overwrite" /\ LiveSlot("heap", s) /\ NewVersion(t) /\ Step(t, Idle)
      /\ page' = [page EXCEPT !["heap"] = Overwritten("heap", s, NewTuple(t))]
      /\ ghosts' = ghosts
  BY Zenon DEF UpdateInPlace, ghosts
<1>1. /\ Active(t) /\ s \in DOMAIN H /\ ~ H[s].dead /\ row = H[s].tup.row
      /\ row \in DOMAIN hist /\ upd[t].ptr \in 0 .. Len(U)
  <2>1. Active(t) /\ ~ H[s].dead
    BY Zenon, <1>0 DEF Active, LiveSlot, H
  <2>2. s \in DOMAIN H /\ row = H[s].tup.row
    BY ZenonT(20), <2>1, RowTypes
  <2>. QED  BY ZenonT(20), <2>1, <2>2 DEF RInv, RowInv, UndoInv
<1>2. PICK x : x.dead = H[s].dead /\ x.tup = NewTuple(t) /\ H' = [H EXCEPT ![s] = x]
  BY ZenonT(20), <1>0, <1>1, OverwriteEffect
<1>3. U' = U /\ raced' = raced /\ lost' = lost
  BY ZenonT(20), <1>0, <1>1, OverwriteEffect DEF ghosts
<1>4. upd'[t] = Idle /\ upd'[t].pc = "idle" /\ \A u \in Threads \ {t} : upd'[u] = upd[u]
  BY ZenonT(20), <1>0, RowTypes DEF Step, Idle
<1>5. /\ DOMAIN hist' = DOMAIN hist /\ hist'[row] = Append(hist[row], upd[t].new)
      /\ \A r \in DOMAIN hist \ {row} : hist'[r] = hist[r]
      /\ x.tup.row = row /\ x.tup.undo = upd[t].ptr /\ x.tup.ver = upd[t].new
  BY ZenonT(20), <1>0, <1>1, <1>2, NewVersionEffect
<1>6. /\ DOMAIN H' = DOMAIN H /\ H'[s] = x /\ \A i \in DOMAIN H \ {s} : H'[i] = H[i]
  BY ZenonT(20), <1>1, <1>2, RowTypes
<1>. HIDE DEF s, row
<1>7. ASSUME NEW i \in DOMAIN H
      PROVE  H'[i].dead = H[i].dead /\ H'[i].tup.row = H[i].tup.row
  BY Zenon, <1>1, <1>2, <1>5, <1>6
<1>8. ASSUME NEW r PROVE Copies(r)' = Copies(r) /\ Movers(r)' = Movers(r)
  <2>1. Copies(r)' = Copies(r)
    <3>1. {i \in DOMAIN H' : ~ H'[i].dead /\ H'[i].tup.row = r}
            = {i \in DOMAIN H : ~ H[i].dead /\ H[i].tup.row = r}
      BY Zenon, <1>6, <1>7
    <3>. QED  BY Zenon, <3>1, CopiesAre
  <2>2. Movers(r)' = Movers(r)
    BY ZenonT(20), <1>0, <1>4 DEF Movers
  <2>. QED  BY Zenon, <2>1, <2>2
<1>9. UndoChain' = UndoChain
  BY Zenon, <1>3 DEF UndoChain, U
<1>10. UndoInv'
  <2>1. Len(U) \in Nat
    BY SMTT(20), Z3T(20), RowTypes
  <2>2. upd'[t].old.undo \in 0 .. Len(U) /\ upd'[t].ptr \in 0 .. Len(U)
    BY SMTT(20), Z3T(20), <1>4, <2>1 DEF Idle
  <2>3. \A i \in DOMAIN H' : H'[i].tup.undo \in 0 .. Len(U)
    BY Zenon, <1>1, <1>5, <1>6 DEF RInv, UndoInv
  <2>. QED  BY ZenonT(40), <1>3, <1>4, <2>2, <2>3 DEF RInv, UndoInv
<1>11. RowInv'
  <2>1. lost' \subseteq DOMAIN hist /\ \A i \in DOMAIN H' : H'[i].tup.row \in DOMAIN hist
    BY ZenonT(20), <1>3, <1>6, <1>7 DEF RInv, RowInv
  <2>. QED  BY ZenonT(20), <1>1, <1>3, <1>4, <1>5, <2>1, RowInvKept
<1>12. ASSUME NEW r \in DOMAIN hist' \ raced' PROVE OnePlace(r)'
  BY ZenonT(90), <1>3, <1>5, <1>8 DEF RInv, OnePlace
<1>13. HistoryReachable'
  <2>1. ASSUME NEW r \in DOMAIN hist \ raced, NEW i \in Copies(r) PROVE Versions(i)' = hist'[r]
    <3>0. i \in DOMAIN H /\ H[i].tup.row = r /\ Versions(i) = hist[r]
      BY CopiesAre DEF RInv, HistoryReachable
    <3>1. CASE r = row
      <4>1. s \in Copies(row) /\ OnePlace(row)
        BY ZenonT(60), <1>1, <3>1, CopiesAre DEF RInv
      <4>2. i = s
        BY Zenon, <3>1, <4>1 DEF OnePlace
      <4>3. CallAt(t)
        BY Zenon, <1>1, <3>1 DEF RInv, row
      <4>4. UndoChain[upd[t].ptr] = hist[row]
        BY Zenon, <1>0, <4>3 DEF CallAt, row
      <4>5. Versions(i)' = Append(UndoChain'[H'[i].tup.undo], H'[i].tup.ver)
        BY Zenon DEF Versions, H
      <4>. QED  BY ZenonT(40), <1>5, <1>6, <1>9, <3>1, <4>2, <4>4, <4>5
    <3>2. CASE r # row
      <4>1. i # s /\ H'[i] = H[i] /\ hist'[r] = hist[r]
        BY ZenonT(40), <1>1, <1>5, <1>6, <3>0, <3>2
      <4>2. Versions(i)' = Versions(i)
        BY Zenon, <1>9, <4>1 DEF Versions, H
      <4>. QED  BY ZenonT(20), <3>0, <4>1, <4>2
    <3>. QED  BY Zenon, <3>1, <3>2
  <2>. QED  BY ZenonT(20), <1>3, <1>5, <1>8, <2>1 DEF HistoryReachable
<1>14. ASSUME NEW u \in Threads, Active(u)', upd'[u].old.row \notin raced' PROVE CallAt(u)'
  <2>1. u # t
    BY ZenonT(20), <1>4, <1>14 DEF Active
  <2>2. \A i \in DOMAIN H : H[i].tup.row # row => Alike(H'[i], H[i])
    BY Zenon, <1>1, <1>6 DEF Alike
  <2>. QED  BY ZenonT(40), <1>1, <1>3, <1>4, <1>5, <1>9, <1>14, <2>1, <2>2, OthersKept
               DEF row
<1>. QED  BY ZenonT(40), <1>10, <1>11, <1>12, <1>13, <1>14 DEF RInv

\* The old slot is retired, and the update has its row in hand.
LEMMA RetireStep ==
  ASSUME HInv, RInv, NEW t \in Threads, UpdateRetire(t)
  PROVE  RInv'
<1>. DEFINE s == upd[t].slot
            row == upd[t].old.row
<1>0. upd[t].pc = "retire" /\ Step(t, [upd[t] EXCEPT !.pc = "insert"])
  BY Zenon DEF UpdateRetire
<1>1. /\ Active(t) /\ s \in DOMAIN H /\ row = H[s].tup.row /\ row \in DOMAIN hist
  <2>1. Active(t)
    BY Zenon, <1>0 DEF Active
  <2>2. s \in DOMAIN H /\ row = H[s].tup.row
    BY Zenon, <2>1, RowTypes
  <2>. QED  BY Zenon, <2>1, <2>2 DEF RInv, RowInv
<1>2. PICK x : x.dead = TRUE /\ x.tup = H[s].tup /\ H' = [H EXCEPT ![s] = x]
  BY Zenon, RetireEffect
<1>3. U' = U /\ hist' = hist /\ raced' = raced /\ lost' = lost
  BY Zenon, RetireEffect
<1>4. /\ upd'[t].pc = "insert" /\ upd'[t].old = upd[t].old /\ upd'[t].ptr = upd[t].ptr
      /\ \A u \in Threads \ {t} : upd'[u] = upd[u]
  <2>1. upd \in [Threads -> Calls] /\ upd[t] \in Calls
    BY RowTypes
  <2>. QED  BY Zenon, <1>0, <2>1 DEF Step, Calls
<1>5. DOMAIN H' = DOMAIN H /\ H'[s] = x /\ \A i \in DOMAIN H \ {s} : H'[i] = H[i]
  BY ZenonT(20), <1>1, <1>2, RowTypes
<1>. HIDE DEF s, row
<1>6. \A i \in DOMAIN H : H'[i].tup = H[i].tup
  BY Zenon, <1>2, <1>5
<1>7. ASSUME NEW r PROVE Copies(r)' = Copies(r) \ {s}
  <2>1. {i \in DOMAIN H' : ~ H'[i].dead /\ H'[i].tup.row = r}
          = {i \in DOMAIN H : ~ H[i].dead /\ H[i].tup.row = r} \ {s}
    BY Zenon, <1>2, <1>5
  <2>. QED  BY Zenon, <2>1, CopiesAre
<1>8. UndoChain' = UndoChain
  BY Zenon, <1>3 DEF UndoChain, U
<1>9. UndoInv'
  <2>1. \A i \in DOMAIN H' : H'[i].tup.undo \in 0 .. Len(U)
    BY ZenonT(20), <1>5, <1>6 DEF RInv, UndoInv
  <2>. QED  BY ZenonT(20), <1>3, <1>4, <2>1 DEF RInv, UndoInv
<1>10. RowInv'
  <2>1. lost' \subseteq DOMAIN hist /\ \A i \in DOMAIN H' : H'[i].tup.row \in DOMAIN hist
    BY ZenonT(20), <1>3, <1>5, <1>6 DEF RInv, RowInv
  <2>. QED  BY ZenonT(20), <1>1, <1>3, <1>4, <2>1, RowInvKept
<1>11. ASSUME NEW r \in DOMAIN hist' \ raced' PROVE OnePlace(r)'
  <2>0. OnePlace(r) /\ r \notin raced
    BY Zenon, <1>3 DEF RInv
  <2>1. CASE r = row
    <3>1. s \in Copies(r)
      <4>1. CallAt(t)
        BY Zenon, <1>1, <2>0, <2>1 DEF RInv, row
      <4>2. ~ H[s].dead
        BY Zenon, <1>0, <4>1 DEF CallAt, s
      <4>. QED  BY ZenonT(40), <1>1, <2>1, <4>2, CopiesAre
    <3>2. Copies(r)' = {} /\ r \notin lost
      BY Zenon, <1>7, <2>0, <3>1 DEF OnePlace
    <3>3. t \in Movers(r)'
      BY Zenon, <1>4, <2>1 DEF Movers, row
    <3>. QED  BY Zenon, <1>3, <3>2, <3>3 DEF OnePlace
  <2>2. CASE r # row
    <3>1. Copies(r)' = Copies(r)
      BY SMTT(20), Z3T(20), <1>1, <1>7, <2>2, CopiesAre
    <3>2. Movers(r)' = Movers(r)
      BY ZenonT(20), <1>4, <2>2 DEF Movers, row
    <3>. QED  BY ZenonT(40), <1>3, <2>0, <3>1, <3>2 DEF OnePlace
  <2>. QED  BY ZenonT(40), <2>1, <2>2
<1>12. HistoryReachable'
  <2>1. ASSUME NEW r \in DOMAIN hist \ raced, NEW i \in Copies(r)' PROVE Versions(i)' = hist[r]
    <3>1. i \in Copies(r) /\ i \in DOMAIN H /\ Versions(i) = hist[r]
      BY SMTT(20), Z3T(20), <1>7, CopiesAre DEF RInv, HistoryReachable
    <3>2. Versions(i)' = Versions(i)
      BY ZenonT(20), <1>6, <1>8, <3>1 DEF Versions, H
    <3>. QED  BY ZenonT(40), <3>1, <3>2
  <2>. QED  BY ZenonT(40), <1>3, <2>1 DEF HistoryReachable
<1>13. ASSUME NEW u \in Threads, Active(u)', upd'[u].old.row \notin raced' PROVE CallAt(u)'
  <2>1. CASE u = t
    <3>1. CallAt(t)
      BY ZenonT(20), <1>1, <1>3, <1>4, <1>13, <2>1 DEF RInv
    <3>. QED  BY ZenonT(40), <1>0, <1>3, <1>4, <1>8, <2>1, <3>1 DEF CallAt
  <2>2. CASE u # t
    <3>1. \A i \in DOMAIN H : H[i].tup.row # row => Alike(H'[i], H[i])
      BY Zenon, <1>1, <1>5 DEF Alike
    <3>. QED  BY ZenonT(40), <1>1, <1>3, <1>4, <1>8, <1>13, <2>2, <3>1, OthersKept DEF row
  <2>. QED  BY SMTT(20), Z3T(20), <2>1, <2>2
<1>. QED  BY ZenonT(20), <1>9, <1>10, <1>11, <1>12, <1>13 DEF RInv

\* The movers of a row that has not been raced for.
LEMMA OneMover ==
  ASSUME RInv, NEW t \in Threads, upd[t].pc = "insert", upd[t].old.row \notin raced
  PROVE  Movers(upd[t].old.row) = {t}
<1>1. ASSUME NEW u \in Movers(upd[t].old.row) PROVE u = t
  BY Zenon, Others DEF Movers, Active
<1>2. t \in Movers(upd[t].old.row)
  BY Zenon DEF Movers
<1>. QED  BY Zenon, <1>1, <1>2

\* A move that finds no room loses the row.
LEMMA NoRoomStep ==
  ASSUME HInv, RInv, NEW t \in Threads, UpdateNoRoom(t)
  PROVE  RInv'
<1>. DEFINE row == upd[t].old.row
<1>0. /\ upd[t].pc = "insert" /\ Step(t, Idle) /\ lost' = lost \union {row}
      /\ H' = H /\ U' = U /\ hist' = hist /\ raced' = raced
  BY Zenon DEF UpdateNoRoom, H, U
<1>1. Active(t) /\ row \in DOMAIN hist
  <2>1. Active(t)
    BY Zenon, <1>0 DEF Active
  <2>. QED  BY Zenon, <2>1, RowTypes DEF RInv, RowInv
<1>2. upd'[t] = Idle /\ upd'[t].pc = "idle" /\ \A u \in Threads \ {t} : upd'[u] = upd[u]
  BY Zenon, <1>0, RowTypes DEF Step, Idle
<1>. HIDE DEF row
<1>3. DOMAIN H' = DOMAIN H /\ \A i \in DOMAIN H : Alike(H'[i], H[i])
  BY Zenon, <1>0 DEF Alike
<1>4. /\ \A r : Copies(r)' = Copies(r)
      /\ UndoChain' = UndoChain
      /\ HistoryReachable'
  BY ZenonT(20), <1>0, <1>3, RowsStay
<1>5. UndoInv'
  <2>1. Len(U) \in Nat
    BY SMTT(20), Z3T(20), RowTypes
  <2>2. upd'[t].old.undo \in 0 .. Len(U) /\ upd'[t].ptr \in 0 .. Len(U)
    BY <1>2, <2>1 DEF Idle
  <2>. QED  BY ZenonT(40), <1>0, <1>2, <2>2 DEF RInv, UndoInv
<1>6. RowInv'
  <2>1. lost' \subseteq DOMAIN hist /\ \A i \in DOMAIN H' : H'[i].tup.row \in DOMAIN hist
    BY ZenonT(20), <1>0, <1>1 DEF RInv, RowInv
  <2>. QED  BY ZenonT(40), <1>0, <1>1, <1>2, <2>1, RowInvKept
<1>7. ASSUME NEW r \in DOMAIN hist' \ raced' PROVE OnePlace(r)'
  <2>0. OnePlace(r) /\ r \notin raced
    BY Zenon, <1>0 DEF RInv
  <2>1. CASE r = row
    <3>1. Movers(r) = {t}
      BY ZenonT(40), <1>0, <2>0, <2>1, OneMover DEF row
    <3>2. Movers(r)' = {}
      BY Zenon, <1>2, <3>1 DEF Movers
    <3>3. Copies(r) = {}
      BY Zenon, <2>0, <3>1 DEF OnePlace
    <3>. QED  BY ZenonT(20), <1>0, <1>4, <2>1, <3>2, <3>3 DEF OnePlace
  <2>2. CASE r # row
    <3>1. Movers(r)' = Movers(r)
      BY Zenon, <1>2, <2>2 DEF Movers, row
    <3>. QED  BY ZenonT(20), <1>0, <1>4, <2>0, <2>2, <3>1 DEF OnePlace
  <2>. QED  BY SMTT(20), Z3T(20), <2>1, <2>2
<1>8. ASSUME NEW u \in Threads, Active(u)', upd'[u].old.row \notin raced' PROVE CallAt(u)'
  <2>1. u # t
    BY ZenonT(40), <1>2, <1>8 DEF Active
  <2>. QED  BY ZenonT(40), <1>0, <1>1, <1>2, <1>3, <1>4, <1>8, <2>1, OthersKept
<1>. QED  BY ZenonT(40), <1>4, <1>5, <1>6, <1>7, <1>8 DEF RInv

\* The new version in a new slot.
LEMMA MoveStep ==
  ASSUME HInv, RInv, NEW t \in Threads, UpdateMove(t)
  PROVE  RInv'
<1>. DEFINE row == upd[t].old.row
            n == Len(H)
<1>0. upd[t].pc = "insert" /\ Step(t, Idle) /\ NewVersion(t)
  BY Zenon DEF UpdateMove
<1>1. Active(t) /\ row \in DOMAIN hist /\ upd[t].ptr \in 0 .. Len(U)
  <2>1. Active(t)
    BY Zenon, <1>0 DEF Active
  <2>. QED  BY Zenon, <2>1, RowTypes DEF RInv, RowInv, UndoInv
<1>2. PICK x : x.dead = FALSE /\ x.tup = NewTuple(t) /\ H' = Append(H, x)
  BY Zenon, MoveEffect
<1>3. U' = U /\ raced' = raced /\ lost' = lost
  BY Zenon, MoveEffect
<1>4. upd'[t] = Idle /\ upd'[t].pc = "idle" /\ \A u \in Threads \ {t} : upd'[u] = upd[u]
  BY Zenon, <1>0, RowTypes DEF Step, Idle
<1>5. /\ DOMAIN hist' = DOMAIN hist /\ hist'[row] = Append(hist[row], upd[t].new)
      /\ \A r \in DOMAIN hist \ {row} : hist'[r] = hist[r]
      /\ x.tup.row = row /\ x.tup.undo = upd[t].ptr /\ x.tup.ver = upd[t].new
  BY ZenonT(20), <1>0, <1>1, <1>2, NewVersionEffect
<1>6. /\ n \in Nat /\ DOMAIN H = 1 .. n /\ DOMAIN H' = DOMAIN H \union {n + 1}
      /\ n + 1 \notin DOMAIN H /\ H'[n + 1] = x /\ \A i \in DOMAIN H : H'[i] = H[i]
  <2>1. H \in Seq(SlotRecords)
    BY Zenon, RowTypes
  <2>. QED  BY SMTT(20), Z3T(20), <1>2, <2>1
<1>. HIDE DEF row, n
<1>7. ASSUME NEW r PROVE Copies(r)' = IF r = row THEN Copies(r) \union {n + 1} ELSE Copies(r)
  <2>1. {i \in DOMAIN H' : ~ H'[i].dead /\ H'[i].tup.row = r}
          = {i \in DOMAIN H : ~ H[i].dead /\ H[i].tup.row = r} \union
            (IF r = row THEN {n + 1} ELSE {})
    BY ZenonT(40), <1>2, <1>5, <1>6
  <2>. QED  BY ZenonT(40), <2>1, CopiesAre
<1>8. UndoChain' = UndoChain
  BY Zenon, <1>3 DEF UndoChain, U
<1>9. UndoInv'
  <2>1. Len(U) \in Nat
    BY RowTypes
  <2>2. upd'[t].old.undo \in 0 .. Len(U) /\ upd'[t].ptr \in 0 .. Len(U)
    BY <1>4, <2>1 DEF Idle
  <2>3. \A i \in DOMAIN H' : H'[i].tup.undo \in 0 .. Len(U)
    BY ZenonT(20), <1>1, <1>5, <1>6 DEF RInv, UndoInv
  <2>. QED  BY ZenonT(40), <1>3, <1>4, <2>2, <2>3 DEF RInv, UndoInv
<1>10. RowInv'
  <2>1. lost' \subseteq DOMAIN hist /\ \A i \in DOMAIN H' : H'[i].tup.row \in DOMAIN hist
    BY ZenonT(20), <1>1, <1>3, <1>5, <1>6 DEF RInv, RowInv
  <2>. QED  BY ZenonT(40), <1>1, <1>3, <1>4, <1>5, <2>1, RowInvKept
<1>11. ASSUME row \notin raced
       PROVE  Copies(row) = {} /\ Movers(row) = {t} /\ row \notin lost /\ CallAt(t)
  <2>1. Movers(row) = {t}
    BY Zenon, <1>0, <1>11, OneMover DEF row
  <2>2. OnePlace(row) /\ CallAt(t)
    BY ZenonT(20), <1>1, <1>11 DEF RInv, row
  <2>. QED  BY Zenon, <2>1, <2>2 DEF OnePlace
<1>12. ASSUME NEW r \in DOMAIN hist' \ raced' PROVE OnePlace(r)'
  <2>0. OnePlace(r) /\ r \notin raced
    BY Zenon, <1>3, <1>5 DEF RInv
  <2>1. CASE r = row
    <3>1. Movers(r)' = {}
      BY ZenonT(20), <1>4, <1>11, <2>0, <2>1 DEF Movers
    <3>2. Copies(r)' = {n + 1} /\ r \notin lost'
      BY ZenonT(20), <1>3, <1>7, <1>11, <2>0, <2>1
    <3>. QED  BY ZenonT(20), <3>1, <3>2 DEF OnePlace
  <2>2. CASE r # row
    <3>1. Movers(r)' = Movers(r)
      BY Zenon, <1>4, <2>2 DEF Movers, row
    <3>2. Copies(r)' = Copies(r)
      BY ZenonT(20), <1>7, <2>2
    <3>. QED  BY ZenonT(40), <1>3, <2>0, <3>1, <3>2 DEF OnePlace
  <2>. QED  BY <2>1, <2>2
<1>13. HistoryReachable'
  <2>1. ASSUME NEW r \in DOMAIN hist \ raced, NEW i \in Copies(r)' PROVE Versions(i)' = hist'[r]
    <3>0. Versions(i)' = Append(UndoChain'[H'[i].tup.undo], H'[i].tup.ver)
      BY Zenon DEF Versions, H
    <3>1. CASE r = row
      <4>1. i = n + 1
        BY ZenonT(20), <1>7, <1>11, <3>1
      <4>2. UndoChain[upd[t].ptr] = hist[row]
        BY ZenonT(20), <1>0, <1>11, <3>1 DEF CallAt, row
      <4>. QED  BY ZenonT(40), <1>5, <1>6, <1>8, <3>0, <3>1, <4>1, <4>2
    <3>2. CASE r # row
      <4>1. i \in Copies(r) /\ i \in DOMAIN H /\ Versions(i) = hist[r] /\ hist'[r] = hist[r]
        <5>1. i \in Copies(r)
          BY Zenon, <1>7, <3>2
        <5>2. i \in DOMAIN H
          BY Zenon, <5>1, CopiesAre
        <5>3. Versions(i) = hist[r]
          BY Zenon, <5>1 DEF RInv, HistoryReachable
        <5>4. hist'[r] = hist[r]
          BY Zenon, <1>5, <3>2
        <5>. QED  BY ZenonT(40), <5>1, <5>2, <5>3, <5>4
      <4>2. Versions(i)' = Versions(i)
        BY ZenonT(20), <1>6, <1>8, <4>1 DEF Versions, H
      <4>. QED  BY Zenon, <4>1, <4>2
    <3>. QED  BY Zenon, <3>1, <3>2
  <2>. QED  BY ZenonT(20), <1>3, <1>5, <2>1 DEF HistoryReachable
<1>14. ASSUME NEW u \in Threads, Active(u)', upd'[u].old.row \notin raced' PROVE CallAt(u)'
  <2>1. u # t
    BY Zenon, <1>4, <1>14 DEF Active
  <2>2. \A i \in DOMAIN H : H[i].tup.row # row => Alike(H'[i], H[i])
    BY Zenon, <1>6 DEF Alike
  <2>. QED  BY ZenonT(40), <1>1, <1>3, <1>4, <1>5, <1>8, <1>14, <2>1, <2>2, OthersKept
               DEF row
<1>. QED  BY ZenonT(40), <1>9, <1>10, <1>12, <1>13, <1>14 DEF RInv

\* A new row in a new slot.
LEMMA InsertRowStep ==
  ASSUME HInv, RInv, NEW len, InsertRow(len)
  PROVE  RInv'
<1>. DEFINE row == Len(hist) + 1
            n == Len(H)
<1>1. PICK x : /\ x.dead = FALSE /\ x.tup.row = row /\ x.tup.undo = 0 /\ x.tup.ver = vers + 1
               /\ H' = Append(H, x)
  BY Zenon, InsertRowEffect
<1>2. /\ U' = U /\ hist' = Append(hist, <<vers + 1>>) /\ upd' = upd
      /\ raced' = raced /\ lost' = lost
  BY Zenon, InsertRowEffect
<1>3. /\ row \notin DOMAIN hist /\ DOMAIN hist' = DOMAIN hist \union {row}
      /\ hist'[row] = <<vers + 1>> /\ \A r \in DOMAIN hist : hist'[r] = hist[r]
  BY SMTT(20), Z3T(20), <1>2, RowTypes
<1>4. /\ n \in Nat /\ DOMAIN H = 1 .. n /\ DOMAIN H' = DOMAIN H \union {n + 1}
      /\ n + 1 \notin DOMAIN H /\ H'[n + 1] = x /\ \A i \in DOMAIN H : H'[i] = H[i]
  <2>1. H \in Seq(SlotRecords)
    BY Zenon, RowTypes
  <2>. QED  BY SMTT(20), Z3T(20), <1>1, <2>1
<1>. HIDE DEF row, n
<1>5. ASSUME NEW r PROVE Copies(r)' = IF r = row THEN Copies(r) \union {n + 1} ELSE Copies(r)
  <2>1. {i \in DOMAIN H' : ~ H'[i].dead /\ H'[i].tup.row = r}
          = {i \in DOMAIN H : ~ H[i].dead /\ H[i].tup.row = r} \union
            (IF r = row THEN {n + 1} ELSE {})
    BY Zenon, <1>1, <1>4
  <2>. QED  BY Zenon, <2>1, CopiesAre
<1>6. UndoChain' = UndoChain
  BY Zenon, <1>2 DEF UndoChain, U
<1>7. UndoInv'
  <2>1. 0 \in 0 .. Len(U)
    BY RowTypes
  <2>2. \A i \in DOMAIN H' : H'[i].tup.undo \in 0 .. Len(U)
    BY ZenonT(20), <1>1, <1>4, <2>1 DEF RInv, UndoInv
  <2>. QED  BY Zenon, <1>2, <2>2 DEF RInv, UndoInv
<1>8. RowInv'
  <2>1. \A i \in DOMAIN H' : H'[i].tup.row \in DOMAIN hist'
    BY Zenon, <1>1, <1>3, <1>4 DEF RInv, RowInv
  <2>. QED  BY ZenonT(40), <1>2, <1>3, <2>1 DEF RInv, RowInv, Active
<1>9. Copies(row) = {} /\ Movers(row) = {} /\ row \notin lost
  <2>1. Copies(row) = {} /\ row \notin lost
    BY SMTT(20), Z3T(20), <1>3, CopiesAre DEF RInv, RowInv
  <2>2. ASSUME NEW u \in Threads, upd[u].pc = "insert" PROVE upd[u].old.row # row
    <3>1. Active(u)
      BY Zenon, <2>2 DEF Active
    <3>. QED  BY ZenonT(40), <1>3, <3>1, RowTypes DEF RInv, RowInv
  <2>. QED  BY ZenonT(40), <2>1, <2>2 DEF Movers
<1>10. ASSUME NEW r \in DOMAIN hist' \ raced' PROVE OnePlace(r)'
  <2>1. CASE r = row
    <3>1. Copies(r)' = {n + 1} /\ r \notin lost'
      BY ZenonT(40), <1>2, <1>5, <1>9, <2>1
    <3>2. Movers(r)' = {}
      BY Zenon, <1>2, <1>9, <2>1 DEF Movers
    <3>. QED  BY Zenon, <3>1, <3>2 DEF OnePlace
  <2>2. CASE r # row
    <3>1. Movers(r)' = Movers(r) /\ Copies(r)' = Copies(r)
      BY ZenonT(20), <1>2, <1>5, <2>2 DEF Movers
    <3>2. OnePlace(r)
      BY Zenon, <1>2, <1>3, <2>2 DEF RInv
    <3>. QED  BY ZenonT(40), <1>2, <3>1, <3>2 DEF OnePlace
  <2>. QED  BY ZenonT(40), <2>1, <2>2
<1>11. HistoryReachable'
  <2>1. ASSUME NEW r \in DOMAIN hist' \ raced', NEW i \in Copies(r)' PROVE Versions(i)' = hist'[r]
    <3>0. Versions(i)' = Append(UndoChain'[H'[i].tup.undo], H'[i].tup.ver)
      BY Zenon DEF Versions, H
    <3>1. CASE r = row
      <4>1. i = n + 1
        BY Zenon, <1>5, <1>9, <3>1
      <4>2. UndoChain[0] = <<>>
        <5>1. UndoChain = ChainsOf(U) /\ PointsBack(U, Len(U)) /\ Len(U) \in Nat
          BY RowTypes DEF UndoChain, U, RInv, UndoInv
        <5>2. Unfolds(UndoChain, U, Len(U)) /\ 0 \in 0 .. Len(U)
          BY <5>1, ChainUnfolds
        <5>. QED  BY ZenonT(40), <5>2 DEF Unfolds
      <4>3. Versions(i)' = Append(<<>>, vers + 1)
        BY ZenonT(40), <1>1, <1>4, <1>6, <3>0, <4>1, <4>2
      <4>4. Append(<<>>, vers + 1) = <<vers + 1>>
        BY RowTypes
      <4>. QED  BY ZenonT(20), <1>3, <3>1, <4>3, <4>4
    <3>2. CASE r # row
      <4>1. /\ i \in Copies(r) /\ i \in DOMAIN H /\ Versions(i) = hist[r] /\ hist'[r] = hist[r]
        <5>1. i \in Copies(r) /\ r \in DOMAIN hist \ raced
          BY ZenonT(20), <1>2, <1>3, <1>5, <3>2
        <5>2. i \in DOMAIN H
          BY ZenonT(20), <5>1, CopiesAre
        <5>3. Versions(i) = hist[r]
          BY Zenon, <5>1 DEF RInv, HistoryReachable
        <5>4. hist'[r] = hist[r]
          BY Zenon, <1>3, <5>1
        <5>. QED  BY ZenonT(40), <5>1, <5>2, <5>3, <5>4
      <4>2. Versions(i)' = Versions(i)
        BY Zenon, <1>4, <1>6, <4>1 DEF Versions, H
      <4>. QED  BY ZenonT(40), <4>1, <4>2
    <3>. QED  BY ZenonT(40), <3>1, <3>2
  <2>. QED  BY Zenon, <2>1 DEF HistoryReachable
<1>12. ASSUME NEW u \in Threads, Active(u)', upd'[u].old.row \notin raced' PROVE CallAt(u)'
  <2>1. Active(u) /\ upd[u].old.row \notin raced /\ upd'[u] = upd[u]
    BY Zenon, <1>2, <1>12 DEF Active
  <2>2. upd[u].slot \in DOMAIN H /\ upd[u].old.row \in DOMAIN hist
    BY Zenon, <2>1, RowTypes DEF RInv, RowInv
  <2>3. /\ Alike(H'[upd[u].slot], H[upd[u].slot])
        /\ hist'[upd[u].old.row] = hist[upd[u].old.row]
    BY ZenonT(20), <1>3, <1>4, <2>2 DEF Alike
  <2>. QED  BY ZenonT(20), <1>6, <2>1, <2>3, CallAtKept
<1>. QED  BY ZenonT(20), <1>7, <1>8, <1>10, <1>11, <1>12 DEF RInv

\* The initial state.
LEMMA RInvInit == Init => RInv
<1>. SUFFICES ASSUME Init PROVE RInv
  BY Zenon
<1>1. H = <<>> /\ U = <<>> /\ hist = <<>> /\ raced = {} /\ lost = {}
  BY Zenon DEF Init, InitPage, H, U
<1>2. DOMAIN H = {} /\ DOMAIN hist = {} /\ Len(U) = 0
  BY <1>1
<1>3. \A t \in Threads : /\ ~ Active(t) /\ upd[t].old.undo = 0 /\ upd[t].ptr = 0
  BY Zenon DEF Init, Idle, Active
<1>4. UndoInv
  BY SMTT(20), Z3T(20), <1>2, <1>3 DEF UndoInv, PointsBack
<1>5. RowInv
  BY Zenon, <1>1, <1>2, <1>3 DEF RowInv
<1>. QED  BY Zenon, <1>2, <1>3, <1>4, <1>5 DEF RInv, HistoryReachable

(* The rows, their histories and the updates at work on them (undo.c,      *)
(* kds_heap_update_tuple), step by step.                                   *)
THEOREM RowInvariant == Spec => []RInv
<1>1. HInv /\ RInv /\ [Next]_vars => RInv'
  <2>. SUFFICES ASSUME HInv, RInv, [Next]_vars PROVE RInv'
    BY Zenon
  <2>1. ASSUME NEW len \in Lens, InsertRow(len) PROVE RInv'
    BY ZenonT(20), <2>1, InsertRowStep
  <2>2. ASSUME NEW s \in DOMAIN H, DeleteRow(s) PROVE RInv'
    BY Zenon, <2>2, DeleteStep
  <2>3. ASSUME NEW t \in Threads, Update(t) PROVE RInv'
    <3>1. ASSUME NEW s \in DOMAIN H, NEW len \in Lens, UpdateStart(t, s, len) PROVE RInv'
      BY Zenon, <3>1, StartStep
    <3>2. CASE UpdateRead(t)
      BY ZenonT(20), <3>2, ReadStep
    <3>3. CASE UndoWrite(t)
      BY ZenonT(20), <3>3, UndoStep
    <3>4. CASE UndoFull(t)
      BY ZenonT(20), <3>4, EndStep DEF UndoFull, ghosts
    <3>5. CASE UpdateFit(t)
      BY <3>5, FitStep
    <3>6. CASE UpdateInPlace(t)
      <4>1. CASE hist' # hist
        BY Zenon, <3>6, <4>1, OverwriteStep
      <4>2. CASE page' = page /\ hist' = hist
        BY Zenon, <3>6, <4>2, EndStep DEF UpdateInPlace, ghosts
      <4>3. hist' # hist \/ (page' = page /\ hist' = hist)
        <5>1. ASSUME NewVersion(t) PROVE hist' # hist
          <6>1. Active(t)
            BY Zenon, <3>6 DEF UpdateInPlace, Active
          <6>2. upd[t].old.row \in DOMAIN hist /\ hist \in Seq(Seq(Nat))
            BY ZenonT(40), <6>1, RowTypes DEF RInv, RowInv
          <6>3. /\ hist'[upd[t].old.row] = Append(hist[upd[t].old.row], upd[t].new)
                /\ hist[upd[t].old.row] \in Seq(Nat)
            BY SMTT(20), Z3T(20), <5>1, <6>2, NewVersionEffect
          <6>4. Append(hist[upd[t].old.row], upd[t].new) # hist[upd[t].old.row]
            <7>1. \A q \in Seq(Nat) : \A e : Len(Append(q, e)) = Len(q) + 1 /\ Len(q) \in Nat
              OBVIOUS
            <7>2. \A m \in Nat : m + 1 # m
              OBVIOUS
            <7>3. \A q \in Seq(Nat) : \A e : Append(q, e) # q
              BY ZenonT(20), <7>1, <7>2
            <7>. QED  BY ZenonT(40), <6>3, <7>3
          <6>. QED  BY Zenon, <6>3, <6>4
        <5>. QED  BY Zenon, <3>6, <5>1 DEF UpdateInPlace
      <4>. QED  BY Zenon, <4>1, <4>2, <4>3
    <3>7. CASE UpdateRetire(t)
      BY <3>7, RetireStep
    <3>8. CASE UpdateMove(t)
      BY <3>8, MoveStep
    <3>9. CASE UpdateNoRoom(t)
      BY <3>9, NoRoomStep
    <3>. QED  BY ZenonT(40), <2>3, <3>1, <3>2, <3>3, <3>4, <3>5, <3>6, <3>7, <3>8, <3>9
                 DEF Update, H
  <2>4. CASE UNCHANGED vars
    <3>1. /\ page' = page /\ H' = H /\ U' = U /\ hist' = hist /\ upd' = upd
          /\ raced' = raced /\ lost' = lost
      BY Zenon, <2>4 DEF vars, ghosts, H, U
    <3>2. UndoInv' /\ RowInv'
      BY Zenon, <3>1 DEF RInv, UndoInv, RowInv, Active
    <3>3. HistoryReachable' /\ \A r : Copies(r)' = Copies(r) /\ Movers(r)' = Movers(r)
      BY Zenon, <3>1, RowsStay DEF Alike, Movers
    <3>4. \A r \in DOMAIN hist' \ raced' : OnePlace(r)'
      BY Zenon, <3>1, <3>3 DEF RInv, OnePlace
    <3>5. \A t \in Threads : Active(t)' /\ upd'[t].old.row \notin raced' => CallAt(t)'
      BY Zenon, <3>1 DEF RInv, CallAt, Active, UndoChain
    <3>. QED  BY ZenonT(40), <3>2, <3>3, <3>4, <3>5 DEF RInv
  <2>. QED  BY ZenonT(40), <2>1, <2>2, <2>3, <2>4 DEF Next, H
<1>. QED
  BY <1>1, RInvInit, HeapInvariant, PTL DEF Spec

(* kds_undo.h: "so the full history remains reachable".  The undo chain of *)
(* a row's live tuple holds every version of the row, in order, however    *)
(* many updates of other rows are in progress.                             *)
THEOREM HistoryStaysReachable == Spec => []HistoryReachable
<1>1. RInv => HistoryReachable
  BY Zenon DEF RInv
<1>. QED
  BY <1>1, RowInvariant, PTL

(* A row has one live tuple or is in the hands of one update, unless its   *)
(* move found no room (kds_heap_update_tuple retires before it inserts).   *)
THEOREM RowsAreKept == Spec => []RowsSurvive
<1>1. RInv => RowsSurvive
  <2>. SUFFICES ASSUME RInv, NEW r \in DOMAIN hist \ raced
                PROVE  IF r \in lost THEN Cardinality(Copies(r)) + Cardinality(Movers(r)) = 0
                       ELSE Cardinality(Copies(r)) + Cardinality(Movers(r)) = 1
    BY Zenon DEF RowsSurvive, Movers
  <2>1. OnePlace(r)
    BY Zenon DEF RInv
  <2>2. Cardinality({}) = 0 /\ \A x : Cardinality({x}) = 1
    BY Zenon, FS_EmptySet, FS_Singleton
  <2>3. CASE r \in lost
    BY SMTT(20), Z3T(20), <2>1, <2>2, <2>3 DEF OnePlace
  <2>4. CASE r \notin lost /\ Movers(r) # {}
    <3>1. PICK t : t \in Movers(r)
      BY Zenon, <2>4
    <3>2. t \in Threads /\ upd[t].pc = "insert" /\ upd[t].old.row = r
      BY Zenon, <3>1 DEF Movers
    <3>3. Movers(r) = {t} /\ Copies(r) = {}
      BY ZenonT(20), <2>1, <2>4, <3>2, OneMover DEF OnePlace
    <3>. QED  BY SMTT(20), Z3T(20), <2>2, <2>4, <3>3
  <2>5. CASE r \notin lost /\ Movers(r) = {}
    <3>1. PICK s : s \in Copies(r)
      BY Zenon, <2>1, <2>5 DEF OnePlace
    <3>2. Copies(r) = {s}
      BY Zenon, <2>1, <3>1 DEF OnePlace
    <3>. QED  BY SMTT(20), Z3T(20), <2>2, <2>5, <3>2
  <2>. QED  BY Zenon, <2>3, <2>4, <2>5
<1>. QED
  BY <1>1, RowInvariant, PTL
=============================================================================
