-------------------------- MODULE PageAllocProofs --------------------------
(***************************************************************************)
(* The page allocator, for every size of the ring, of a batch and of the   *)
(* id range, through crashes and restarts: a page has one owner, a staged  *)
(* page is blank, no boot after a clean shutdown takes the device for new, *)
(* and until a crash or a split saved pages that are referred to are kept. *)
(***************************************************************************)
EXTENDS PageAlloc, FiniteSetTheorems, TLAPS

\* What the assumption says of the constants and of the ids.
LEMMA Constants ==
    /\ RingSize \in Nat /\ RingSize >= 2 /\ Thres \in Nat
    /\ SuperId \in Nat /\ SuperId > 0 /\ MaxId \in Nat
    /\ PreAllocNum \in Nat
    /\ SuperId \in Ids /\ None \notin Ids /\ Ids \subseteq Nat
BY PageAllocAssumption DEF Ids, None

\* Remainders by B, one wrap away.
LEMMA Remainders ==
    ASSUME NEW B \in Nat \ {0}, NEW x \in 0..(B - 1)
    PROVE  x % B = x /\ (x + B) % B = x
<1>1. x % B = x
  OBVIOUS
<1>2. (x + B) % B = x
  OBVIOUS
<1>. QED  BY <1>1, <1>2

\* An index of the ring advances by one or wraps to 0.
LEMMA Wrap ==
    \A i \in Slots : /\ (i + 1) % RingSize \in Slots
                     /\ (i + 1) % RingSize = IF i = RingSize - 1 THEN 0 ELSE i + 1
<1>. SUFFICES ASSUME NEW i \in Slots
     PROVE  /\ (i + 1) % RingSize \in Slots
            /\ (i + 1) % RingSize = IF i = RingSize - 1 THEN 0 ELSE i + 1
  OBVIOUS
<1>. RingSize \in Nat \ {0} /\ i \in 0..(RingSize - 1)
  BY Constants DEF Slots
<1>1. CASE i = RingSize - 1
  <2>1. (0 + RingSize) % RingSize = 0
    BY Remainders, 0 \in 0..(RingSize - 1)
  <2>. QED  BY <1>1, <2>1 DEF Slots
<1>2. CASE i # RingSize - 1
  <2>1. i + 1 \in 0..(RingSize - 1)
    BY <1>2
  <2>2. (i + 1) % RingSize = i + 1
    BY <2>1, Remainders
  <2>. QED  BY <1>2, <2>1, <2>2 DEF Slots
<1>. QED  BY <1>1, <1>2

\* The distance of two indices, as kds_ring_count takes it.
LEMMA Distance ==
    \A c, r \in Slots : (r - c + RingSize) % RingSize =
                            IF c <= r THEN r - c ELSE r - c + RingSize
<1>. SUFFICES ASSUME NEW c \in Slots, NEW r \in Slots
     PROVE  (r - c + RingSize) % RingSize = IF c <= r THEN r - c ELSE r - c + RingSize
  OBVIOUS
<1>. RingSize \in Nat \ {0} /\ c \in 0..(RingSize - 1) /\ r \in 0..(RingSize - 1)
  BY Constants DEF Slots
<1>1. CASE c <= r
  <2>1. r - c \in 0..(RingSize - 1)
    BY <1>1
  <2>. QED  BY ZenonT(20), <1>1, <2>1, Remainders
<1>2. CASE ~ c <= r
  <2>1. r - c + RingSize \in 0..(RingSize - 1)
    BY <1>2
  <2>. QED  BY ZenonT(40), <1>2, <2>1, Remainders
<1>. QED  BY <1>1, <1>2


-----------------------------------------------------------------------------
\* The cells from cursor up to reserved, around the end.
InRing(i) ==
    IF cursor <= reserved THEN cursor <= i /\ i < reserved
                          ELSE cursor <= i \/ i < reserved

\* The ring's cells are filled as its indices say, with different pages.
RingInv ==
    /\ ring \in [Slots -> Ids \cup {None}]
    /\ cursor \in Slots /\ reserved \in Slots
    /\ \A i \in Slots : ring[i] # None <=> InRing(i)
    /\ \A i, j \in Slots : ring[i] # None /\ ring[i] = ring[j] => i = j
    /\ IsFiniteSet(Staged) /\ Cardinality(Staged) = RingCount

\* What the two indices say: how many are staged, empty, full.
LEMMA RingFacts ==
    ASSUME cursor \in Slots, reserved \in Slots
    PROVE  /\ RingCount = IF cursor <= reserved THEN reserved - cursor
                                                ELSE reserved - cursor + RingSize
           /\ RingCount \in 0..(RingSize - 1)
           /\ RingCount = 0 <=> cursor = reserved
           /\ RingIsFull <=> RingCount = RingSize - 1
           /\ cursor # reserved => InRing(cursor)
           /\ ~InRing(reserved)
<1>1. RingCount = IF cursor <= reserved THEN reserved - cursor
                                        ELSE reserved - cursor + RingSize
  BY Distance DEF RingCount
<1>2. (reserved + 1) % RingSize = IF reserved = RingSize - 1 THEN 0 ELSE reserved + 1
  BY Wrap
<1>3. RingSize \in Nat /\ cursor \in 0..(RingSize - 1) /\ reserved \in 0..(RingSize - 1)
  BY Constants DEF Slots
<1>. QED  BY <1>1, <1>2, <1>3 DEF RingIsFull, InRing

\* One element more, or less.
LEMMA CardAdd ==
    \A S, x : IsFiniteSet(S) /\ x \notin S =>
        IsFiniteSet(S \cup {x}) /\ Cardinality(S \cup {x}) = Cardinality(S) + 1
BY FS_AddElement

\* One element less.
LEMMA CardRemove ==
    \A S, x : IsFiniteSet(S) /\ x \in S =>
        IsFiniteSet(S \ {x}) /\ Cardinality(S \ {x}) = Cardinality(S) - 1
BY FS_RemoveElement

\* kds_ring_push into a ring that is not full.
LEMMA PushRing ==
    ASSUME RingInv, ~RingIsFull, NEW id \in Ids, id \notin Staged, Push(id)
    PROVE  /\ RingInv' /\ Staged' = Staged \cup {id}
           /\ cursor # reserved => ring'[cursor'] = ring[cursor]
           /\ cursor = reserved => ring'[cursor'] = id
<1>1. /\ ring' = [ring EXCEPT ![reserved] = id] /\ cursor' = cursor
      /\ reserved' = (reserved + 1) % RingSize
      /\ ring \in [Slots -> Ids \cup {None}] /\ cursor \in Slots /\ reserved \in Slots
      /\ reserved' \in Slots /\ id # None
  BY Wrap, Constants DEF Push, RingInv
<1>2. ring[reserved] = None
  BY RingFacts, <1>1 DEF RingInv
<1>3. Staged' = Staged \cup {id}
  <2>1. Staged' \subseteq Staged \cup {id}
    BY <1>1 DEF Staged
  <2>2. Staged \cup {id} \subseteq Staged'
    <3>1. id \in Staged'
      BY <1>1 DEF Staged
    <3>2. ASSUME NEW i \in Slots, ring[i] # None PROVE ring[i] \in Staged'
      BY <3>2, <1>1, <1>2 DEF Staged
    <3>. QED  BY <3>1, <3>2 DEF Staged
  <2>. QED  BY <2>1, <2>2
<1>4. RingCount' = RingCount + 1
  <2>1. RingCount # RingSize - 1
    BY RingFacts, <1>1
  <2>2. RingCount = IF cursor <= reserved THEN reserved - cursor
                                          ELSE reserved - cursor + RingSize
    BY RingFacts, <1>1
  <2>3. RingCount' = IF cursor <= reserved' THEN reserved' - cursor
                                            ELSE reserved' - cursor + RingSize
    BY Distance, <1>1 DEF RingCount
  <2>4. reserved' = IF reserved = RingSize - 1 THEN 0 ELSE reserved + 1
    BY Wrap, <1>1
  <2>5. RingSize \in Nat /\ cursor \in 0..(RingSize - 1) /\ reserved \in 0..(RingSize - 1)
    BY Constants, <1>1 DEF Slots
  <2>. QED  BY <2>1, <2>2, <2>3, <2>4, <2>5
<1>5. \A i \in Slots : InRing(i)' <=> InRing(i) \/ i = reserved
  <2>1. ~(reserved' = cursor)
    BY <1>1 DEF RingIsFull
  <2>2. reserved' = IF reserved = RingSize - 1 THEN 0 ELSE reserved + 1
    BY Wrap, <1>1
  <2>3. RingSize \in Nat /\ cursor \in 0..(RingSize - 1) /\ reserved \in 0..(RingSize - 1)
    BY Constants, <1>1 DEF Slots
  <2>. QED  BY <1>1, <2>1, <2>2, <2>3 DEF InRing, Slots
<1>6. \A i \in Slots : (ring[i] # None <=> InRing(i))'
  BY <1>1, <1>5 DEF RingInv
<1>7. \A i, j \in Slots : ring'[i] # None /\ ring'[i] = ring'[j] => i = j
  <2>1. \A i \in Slots : ring[i] # id
    BY <1>1 DEF Staged
  <2>. QED  BY <1>1, <2>1 DEF RingInv
<1>8. IsFiniteSet(Staged)' /\ Cardinality(Staged)' = RingCount'
  BY <1>3, <1>4, CardAdd DEF RingInv
<1>9. ring' \in [Slots -> Ids \cup {None}]
  BY <1>1
<1>. QED  BY <1>1, <1>3, <1>6, <1>7, <1>8, <1>9 DEF RingInv

\* kds_page_alloc.
LEMMA PopRing ==
    ASSUME RingInv, Pop
    PROVE  /\ RingInv' /\ Staged' = Staged \ {ring[cursor]}
           /\ ring[cursor] \in Staged /\ ring[cursor] \in Ids
<1>1. /\ ring' = [ring EXCEPT ![cursor] = None] /\ reserved' = reserved
      /\ cursor' = (cursor + 1) % RingSize
      /\ ring \in [Slots -> Ids \cup {None}] /\ cursor \in Slots /\ reserved \in Slots
      /\ cursor' \in Slots
  BY Wrap, Constants DEF Pop, RingInv
<1>2. ring[cursor] # None /\ cursor # reserved
  BY RingFacts, <1>1 DEF RingInv, Pop
<1>3. ring[cursor] \in Staged /\ ring[cursor] \in Ids
  BY <1>1, <1>2 DEF Staged
<1>4. Staged' = Staged \ {ring[cursor]}
  <2>1. \A i \in Slots : i # cursor => ring'[i] = ring[i] /\ ring[i] # ring[cursor]
    BY <1>1, <1>2 DEF RingInv
  <2>2. ring'[cursor] = None
    BY <1>1
  <2>3. \A x : x \in Staged' <=> \E i \in Slots : x = ring'[i] /\ x # None
    BY DEF Staged
  <2>4. \A x : x \in Staged <=> \E i \in Slots : x = ring[i] /\ x # None
    BY DEF Staged
  <2>. QED  BY SMTT(20), Z3T(20), <2>1, <2>2, <2>3, <2>4
<1>5. RingCount' = RingCount - 1
  <2>2. RingCount = IF cursor <= reserved THEN reserved - cursor
                                          ELSE reserved - cursor + RingSize
    BY RingFacts, <1>1
  <2>3. RingCount' = IF cursor' <= reserved THEN reserved - cursor'
                                            ELSE reserved - cursor' + RingSize
    BY Distance, <1>1 DEF RingCount
  <2>4. cursor' = IF cursor = RingSize - 1 THEN 0 ELSE cursor + 1
    BY Wrap, <1>1
  <2>5. RingSize \in Nat /\ cursor \in 0..(RingSize - 1) /\ reserved \in 0..(RingSize - 1)
    BY Constants, <1>1 DEF Slots
  <2>. QED  BY <1>2, <2>2, <2>3, <2>4, <2>5
<1>6. \A i \in Slots : InRing(i)' <=> InRing(i) /\ i # cursor
  <2>2. cursor' = IF cursor = RingSize - 1 THEN 0 ELSE cursor + 1
    BY Wrap, <1>1
  <2>3. RingSize \in Nat /\ cursor \in 0..(RingSize - 1) /\ reserved \in 0..(RingSize - 1)
    BY Constants, <1>1 DEF Slots
  <2>. QED  BY SMTT(20), Z3T(20), <1>1, <1>2, <2>2, <2>3 DEF InRing, Slots
<1>7. \A i \in Slots : (ring[i] # None <=> InRing(i))'
  BY <1>1, <1>6 DEF RingInv
<1>8. \A i, j \in Slots : ring'[i] # None /\ ring'[i] = ring'[j] => i = j
  BY <1>1 DEF RingInv
<1>9. IsFiniteSet(Staged)' /\ Cardinality(Staged)' = RingCount'
  BY <1>3, <1>4, <1>5, CardRemove DEF RingInv
<1>10. ring' \in [Slots -> Ids \cup {None}]
  BY <1>1
<1>. QED  BY SMTT(20), Z3T(20), <1>1, <1>3, <1>4, <1>7, <1>8, <1>9, <1>10 DEF RingInv

\* An empty ring, as at boot.
Emptied == ring = [i \in Slots |-> None] /\ cursor = 0 /\ reserved = 0

\* A ring without entries.
LEMMA EmptyRing == Emptied => RingInv /\ Staged = {}
<1>. SUFFICES ASSUME Emptied PROVE RingInv /\ Staged = {}
  OBVIOUS
<1>. ring = [i \in Slots |-> None] /\ cursor = 0 /\ reserved = 0
  BY DEF Emptied
<1>1. 0 \in Slots
  BY Constants DEF Slots
<1>2. Staged = {}
  BY DEF Staged
<1>3. IsFiniteSet(Staged) /\ Cardinality(Staged) = 0
  BY <1>2, FS_EmptySet
<1>4. RingCount = 0
  BY <1>1, RingFacts
<1>5. \A i \in Slots : ~InRing(i)
  BY DEF InRing, Slots
<1>. QED  BY <1>1, <1>2, <1>3, <1>4, <1>5 DEF RingInv

\* The same, of the state after a step.
LEMMA EmptiedRing == Emptied' => RingInv' /\ Staged' = {}
<1>1. (Emptied => RingInv /\ Staged = {})'
  BY EmptyRing, PTL
<1>. QED  BY <1>1

\* A step that leaves the ring alone.
LEMMA RingKept ==
    ASSUME RingInv, UNCHANGED ringVars
    PROVE  RingInv' /\ Staged' = Staged /\ RingCount' = RingCount
BY DEF RingInv, InRing, ringVars, Staged, RingCount

-----------------------------------------------------------------------------
\* What the superblock on disk can say.
SuperInv ==
    /\ sb \in [ok : BOOLEAN, max : Nat, point : Nat]
    /\ disk \in [Ids -> {"none", "alloc", "init"}]
    /\ sb.ok => SuperId <= sb.max /\ sb.max <= MaxId + 1
    /\ sb.point = 0 \/ SuperId <= sb.point

(* Where a boot and a batch are: their loops stay within the ids minted,   *)
(* and the scan comes to each page before it is cached.                    *)
PlaceInv ==
    /\ phase = "off" => pc = "idle" /\ cached = {}
    /\ phase = "boot" => used = {}
    /\ pc \in {"reclaim", "catalog", "wal"} => phase = "boot"
    /\ phase # "off" => SuperId <= max /\ max <= MaxId + 1
    /\ point = 0 \/ SuperId <= point
    /\ pc = "reclaim" => /\ SuperId <= nxt /\ lim <= max
                         /\ \A id \in cached : id < nxt
    /\ pc = "batch" => /\ SuperId <= base /\ SuperId <= nxt
                       /\ nxt <= lim /\ lim <= max

(* The pages of the ring and those handed out are different ones, and all  *)
(* are cached: a page the pool does not have is nobody's.                  *)
OwnInv ==
    /\ Staged \cup used \subseteq cached
    /\ Staged \cap used = {}
    /\ StagedIsBlank
    /\ \A id \in cached : disk[id] = "init" => id \in inited

AInv == TypeOK /\ RingInv /\ SuperInv /\ PlaceInv /\ OwnInv

\* A page write changes that page and nothing else the superblock is about.
LEMMA PageWritten ==
    ASSUME SuperInv, NEW id \in Ids, NEW flags \in {"alloc", "init"}, WritePage(id, flags)
    PROVE  /\ SuperInv' /\ disk'[id] = flags
           /\ \A x \in Ids : x # id => disk'[x] = disk[x]
BY ZenonT(20) DEF SuperInv, WritePage

\* A superblock write leaves the page it lies under blank.
LEMMA SuperWritten ==
    ASSUME SuperInv, NEW m \in Nat, NEW p \in Nat, WriteSuper(m, p),
           SuperId <= m, m <= MaxId + 1, p = 0 \/ SuperId <= p
    PROVE  /\ SuperInv' /\ disk'[SuperId] = "alloc"
           /\ \A x \in Ids : x # SuperId => disk'[x] = disk[x]
BY Constants DEF SuperInv, WriteSuper

\* After a superblock write, what is staged is still blank.
LEMMA SuperKeepsOwn ==
    ASSUME OwnInv, UNCHANGED <<cached, inited, used>>, Staged' = Staged, Staged \subseteq Ids,
           cached \subseteq Ids, disk'[SuperId] = "alloc",
           \A x \in Ids : x # SuperId => disk'[x] = disk[x]
    PROVE  OwnInv'
BY DEF OwnInv, StagedIsBlank

\* A new device.
LEMMA AllocInit ==
    ASSUME Init
    PROVE  AInv
<1>1. RingInv /\ Staged = {}
  BY EmptyRing DEF Init, Emptied
<1>2. SuperInv /\ PlaceInv
  BY DEF Init, SuperInv, PlaceInv
<1>3. TypeOK
  <2>1. fresh \in BOOLEAN
    BY ZenonT(20) DEF Init
  <2>2. inited \cup dirty \subseteq cached /\ cached \subseteq Ids
    BY DEF Init
  <2>3. /\ boots \in 0..MaxBoots /\ crashes \in 0..MaxCrashes /\ splits \in 0..MaxSplits
        /\ ask \in 0..RingSize
    BY Constants, PageAllocAssumption DEF Init
  <2>4. /\ max \in Nat /\ point \in Nat /\ base \in Nat /\ nxt \in Nat /\ lim \in Nat
        /\ phase \in {"off", "boot", "up"} /\ assigned \in Ids \cup {None}
        /\ pc \in {"idle", "reclaim", "fill", "batch", "catalog", "wal"}
        /\ used \subseteq Ids /\ refs \subseteq Ids /\ savedRefs \subseteq Ids
    BY DEF Init
  <2>. QED  BY SMTT(20), Z3T(20), <1>1, <1>2, <2>1, <2>2, <2>3, <2>4
               DEF TypeOK, RingInv, SuperInv
<1>4. OwnInv
  BY <1>1 DEF Init, OwnInv, StagedIsBlank
<1>. QED  BY <1>1, <1>2, <1>3, <1>4 DEF AInv

\* A boot starts with an empty pool and ring.
LEMMA BootStep ==
    ASSUME AInv, Boot
    PROVE  AInv'
<1>1. RingInv' /\ Staged' = Staged
  BY SMTT(20), Z3T(20), RingKept DEF AInv, Boot
<1>2. cached' = {} /\ Staged' = {} /\ used' = {} /\ inited' = inited
  BY <1>1 DEF AInv, PlaceInv, OwnInv, Boot, pool
<1>3. SuperInv'
  <2>1. CASE sb.ok
    BY <2>1 DEF Boot, AInv, SuperInv
  <2>2. CASE ~sb.ok
    BY SMTT(20), Z3T(20), <2>2, SuperWritten, Constants, PageAllocAssumption DEF Boot, AInv
  <2>. QED  BY <2>1, <2>2
<1>4. /\ max' \in Nat /\ SuperId <= max' /\ max' <= MaxId + 1
      /\ point' \in Nat /\ (point' = 0 \/ SuperId <= point')
  BY Constants, PageAllocAssumption DEF Boot, AInv, SuperInv
<1>5. /\ lim' \in Nat /\ nxt' \in Nat /\ ask' \in 0..RingSize
      /\ pc' \in {"fill", "reclaim"} /\ phase' = "boot"
      /\ pc' = "reclaim" => SuperId <= nxt' /\ lim' <= max'
  BY <1>4, Constants DEF Boot, Least
<1>6. PlaceInv'
  BY <1>2, <1>4, <1>5 DEF PlaceInv
<1>7. OwnInv'
  BY ZenonT(40), <1>2 DEF OwnInv, StagedIsBlank
<1>8. TypeOK'
  BY SMTT(20), Z3T(20), <1>1, <1>3, <1>4, <1>5, PageAllocAssumption
     DEF AInv, TypeOK, RingInv, SuperInv, Boot, pool, ringVars
<1>. QED  BY SMTT(20), Z3T(20), <1>1, <1>3, <1>6, <1>7, <1>8 DEF AInv

\* The scan stages a page that is ALLOC and not INIT, before anybody has it.
LEMMA ReclaimPageStep ==
    ASSUME AInv, ReclaimPage
    PROVE  AInv'
<1>1. /\ nxt \in Ids /\ nxt < lim /\ lim <= max /\ nxt' = nxt + 1 /\ nxt \notin cached
      /\ cached' = cached \cup {nxt} /\ pc = "reclaim" /\ phase = "boot"
  BY Constants DEF AInv, TypeOK, PlaceInv, ReclaimPage, Scanning, LoadPage, Ids
<1>2. nxt \notin Staged
  BY <1>1 DEF AInv, OwnInv
<1>3. RingInv' /\ (Staged' = Staged \/ (disk[nxt] = "alloc" /\ Staged' = Staged \cup {nxt}))
  <2>1. RingInv /\ ~RingIsFull
    BY DEF AInv, ReclaimPage, Scanning
  <2>2. CASE disk[nxt] = "alloc"
    <3>1. Push(nxt)
      BY <2>2 DEF ReclaimPage
    <3>. QED  BY SMTT(20), Z3T(20), <1>1, <1>2, <2>1, <2>2, <3>1, PushRing
  <2>3. CASE disk[nxt] # "alloc"
    <3>1. UNCHANGED ringVars
      BY <2>3 DEF ReclaimPage
    <3>. QED  BY <2>1, <3>1, RingKept
  <2>. QED  BY <2>2, <2>3
<1>4. inited' = IF disk[nxt] = "init" THEN inited \cup {nxt} ELSE inited
  BY <1>1 DEF ReclaimPage, LoadPage
<1>5. UNCHANGED <<super, sb, disk, dirty, phase, pc, ask, base, lim, fresh,
                   used, assigned, links, budget>>
  BY DEF ReclaimPage
<1>6. SuperInv'
  BY ZenonT(40), <1>5 DEF AInv, SuperInv
<1>7. PlaceInv'
  <2>1. \A id \in cached' : id < nxt'
    BY <1>1, Constants DEF AInv, TypeOK, PlaceInv
  <2>. QED  BY SMTT(20), Z3T(20), <1>1, <1>5, <2>1, Constants
               DEF AInv, TypeOK, PlaceInv, super
<1>8. OwnInv'
  BY ZenonT(120), <1>1, <1>3, <1>4, <1>5 DEF AInv, TypeOK, OwnInv, StagedIsBlank
<1>9. TypeOK'
  BY SMTT(20), <1>1, <1>3, <1>4, <1>5 DEF AInv, TypeOK, RingInv, super, links, budget
<1>. QED  BY ZenonT(40), <1>3, <1>6, <1>7, <1>8, <1>9 DEF AInv

\* A batch creates a page that the pool does not have, and stages it.
LEMMA BatchPageStep ==
    ASSUME AInv, BatchPage
    PROVE  AInv'
<1>1. /\ nxt \in Ids /\ nxt < lim /\ lim <= max /\ nxt \notin cached /\ lim \in Nat
      /\ cached' = cached \cup {nxt} /\ pc = "batch" /\ phase # "off"
  BY Constants DEF AInv, TypeOK, PlaceInv, BatchPage, AllocNew, Ids
<1>2. nxt \notin Staged
  BY <1>1 DEF AInv, OwnInv
<1>3. RingInv' /\ (Staged' = Staged \/ Staged' = Staged \cup {nxt})
  BY <1>1, <1>2, PushRing, RingKept DEF BatchPage, AInv
<1>4. /\ SuperInv' /\ disk'[nxt] = "alloc"
      /\ \A x \in Ids : x # nxt => disk'[x] = disk[x]
  BY ZenonT(40), <1>1, PageWritten DEF BatchPage, AllocNew, AInv
<1>5. /\ nxt' \in Nat /\ SuperId <= nxt' /\ nxt' <= lim
      /\ UNCHANGED <<super, inited, dirty, phase, pc, ask, base, lim, fresh, used,
                   assigned, links, budget>>
  BY <1>1, Constants DEF BatchPage, AInv, TypeOK, PlaceInv
<1>6. PlaceInv'
  BY <1>1, <1>5 DEF AInv, PlaceInv, super
<1>7. OwnInv'
  <2>1. /\ Staged \cup used \subseteq cached /\ Staged \cap used = {}
        /\ inited \subseteq cached /\ cached \subseteq Ids /\ used' = used /\ inited' = inited
    BY SMTT(20), Z3T(20), <1>5 DEF AInv, TypeOK, OwnInv
  <2>2. Staged' \cup used' \subseteq cached' /\ Staged' \cap used' = {}
    BY SMTT(20), Z3T(20), <1>1, <1>3, <2>1
  <2>3. StagedIsBlank'
    BY SMTT(20), Z3T(20), <1>1, <1>3, <1>4, <2>1 DEF AInv, OwnInv, StagedIsBlank
  <2>4. \A id \in cached' : disk'[id] = "init" => id \in inited'
    BY SMTT(20), Z3T(20), <1>1, <1>4, <2>1 DEF AInv, OwnInv
  <2>. QED  BY <2>2, <2>3, <2>4 DEF OwnInv
<1>8. TypeOK'
  BY ZenonT(20), <1>1, <1>3, <1>4, <1>5 DEF AInv, TypeOK, RingInv, SuperInv, super, links,
     budget
<1>. QED  BY ZenonT(40), <1>3, <1>4, <1>6, <1>7, <1>8 DEF AInv

\* The steps of a boot and of a batch that touch neither pool nor ring.
LEMMA LoopStep ==
    ASSUME AInv,
           \/ ReclaimSkip \/ ReclaimDone \/ BatchStart \/ BatchBreak \/ CatalogBootstrap
           \/ Prealloc \/ AssignPageId \/ SplitFails \/ FlushRefs
    PROVE  AInv'
<1>1. UNCHANGED <<sb, disk, pool, ringVars, phase, fresh, used, point>>
  BY DEF ReclaimSkip, ReclaimDone, BatchStart, BatchBreak, CatalogBootstrap,
         Prealloc, AssignPageId, SplitFails, FlushRefs, super
<1>2. RingInv' /\ Staged' = Staged
  BY <1>1, RingKept DEF AInv
<1>3. SuperInv' /\ OwnInv'
  BY SMTT(20), Z3T(20), <1>1, <1>2 DEF AInv, SuperInv, OwnInv, StagedIsBlank, pool
<1>4. RingCount \in Nat /\ RingCount <= RingSize - 1 /\ RingFreeSlots \in Nat
  BY RingFacts, Constants DEF AInv, RingInv, RingFreeSlots
<1>5. TypeOK /\ PlaceInv
  BY DEF AInv
<1>6. TypeOK' /\ PlaceInv'
  <2>1. CASE ReclaimSkip
    <3>1. /\ nxt' = nxt + 1 /\ nxt \in Nat /\ pc = "reclaim"
          /\ UNCHANGED <<super, pc, ask, base, lim, assigned, links, budget>>
      BY SMTT(20), Z3T(20), <1>5, <2>1 DEF ReclaimSkip, Scanning, TypeOK
    <3>2. TypeOK'
      BY SMTT(20), Z3T(20), <1>1, <1>5, <3>1
         DEF TypeOK, super, pool, ringVars, links, budget
    <3>3. PlaceInv'
      BY SMTT(20), Z3T(20), <1>1, <1>5, <3>1, Constants DEF TypeOK, PlaceInv, super, pool
    <3>. QED  BY SMTT(20), Z3T(20), <3>2, <3>3
  <2>2. CASE ReclaimDone
    <3>1. /\ nxt' = 0 /\ lim' = 0 /\ ask' \in 0..RingSize
          /\ pc' \in {"fill", "catalog", "wal"} /\ phase = "boot"
          /\ UNCHANGED <<super, base, assigned, links, budget>>
      BY SMTT(20), Z3T(20), <1>4, <1>5, <2>2, Constants DEF ReclaimDone, Booted, PlaceInv
    <3>2. TypeOK'
      BY <1>1, <1>5, <3>1 DEF TypeOK, super, pool, ringVars, links, budget
    <3>3. PlaceInv'
      BY ZenonT(40), <1>1, <1>5, <3>1 DEF PlaceInv, super, pool
    <3>. QED  BY <3>2, <3>3
  <2>3. CASE BatchStart
    <3>1. \E want \in Nat :
              /\ max + want <= MaxId + 1 /\ base' = max /\ max' = max + want
              /\ nxt' = max /\ lim' = max + want /\ ask' = 0 /\ pc' = "batch"
      BY <1>4, <1>5, <2>3 DEF BatchStart, Least, TypeOK
    <3>2. pc = "fill" /\ phase # "off" /\ UNCHANGED <<assigned, links, budget>>
      BY ZenonT(40), <1>5, <2>3 DEF BatchStart, PlaceInv
    <3>3. TypeOK'
      BY SMTT(20), Z3T(20), <1>1, <1>5, <3>1, <3>2, Constants
         DEF TypeOK, super, pool, ringVars, links, budget
    <3>4. PlaceInv'
      BY SMTT(20), Z3T(20), <1>1, <1>5, <3>1, <3>2, Constants
         DEF PlaceInv, TypeOK, super, pool
    <3>. QED  BY <3>3, <3>4
  <2>4. CASE BatchBreak
    <3>1. /\ nxt' = lim /\ pc = "batch" /\ nxt < lim
          /\ UNCHANGED <<super, pc, ask, base, lim, assigned, links, budget>>
      BY ZenonT(40), <2>4 DEF BatchBreak
    <3>2. TypeOK'
      BY ZenonT(40), <1>1, <1>5, <3>1 DEF TypeOK, super, pool, ringVars, links, budget
    <3>3. PlaceInv'
      BY SMTT(20), Z3T(20), <1>1, <1>5, <3>1, Constants DEF TypeOK, PlaceInv, super, pool
    <3>. QED  BY <3>2, <3>3
  <2>5. CASE CatalogBootstrap
    <3>1. TypeOK'
      BY ZenonT(40), <1>1, <1>5, <2>5
         DEF CatalogBootstrap, TypeOK, super, pool, ringVars, budget
    <3>2. PlaceInv'
      BY ZenonT(40), <1>1, <1>5, <2>5 DEF CatalogBootstrap, PlaceInv, super, pool
    <3>. QED  BY <3>1, <3>2
  <2>6. CASE Prealloc
    <3>1. ask' \in 0..RingSize /\ pc' = "fill" /\ phase = "up"
          /\ UNCHANGED <<super, base, nxt, lim, assigned, links, budget>>
      BY SMTT(20), Z3T(20), <1>4, <2>6, Constants DEF Prealloc
    <3>2. TypeOK'
      BY <1>1, <1>5, <3>1 DEF TypeOK, super, pool, ringVars, links, budget
    <3>3. PlaceInv'
      BY ZenonT(40), <1>1, <1>5, <3>1 DEF PlaceInv, super, pool
    <3>. QED  BY <3>2, <3>3
  <2>7. CASE AssignPageId
    <3>1. /\ max' = max + 1 /\ assigned' = max + 1 /\ max < MaxId /\ phase = "up"
          /\ splits' \in 0..MaxSplits
          /\ UNCHANGED <<loop, links, boots, crashes>>
      BY SMTT(20), Z3T(20), <1>5, <2>7, PageAllocAssumption DEF AssignPageId, TypeOK
    <3>2. max \in Nat /\ SuperId <= max /\ max + 1 \in Ids
      BY SMTT(20), Z3T(20), <1>5, <3>1, Constants DEF TypeOK, PlaceInv, Ids
    <3>3. TypeOK'
      BY SMTT(20), Z3T(20), <1>1, <1>5, <3>1, <3>2 DEF TypeOK, pool, ringVars, links, loop
    <3>4. PlaceInv'
      BY SMTT(20), Z3T(20), <1>1, <1>5, <3>1, <3>2, Constants
         DEF PlaceInv, TypeOK, pool, loop
    <3>. QED  BY <3>3, <3>4
  <2>8. CASE SplitFails
    <3>1. TypeOK'
      BY ZenonT(40), <1>1, <1>5, <2>8
         DEF SplitFails, TypeOK, super, pool, ringVars, links, loop, budget
    <3>2. PlaceInv'
      BY ZenonT(40), <1>1, <1>5, <2>8 DEF SplitFails, PlaceInv, super, pool, loop
    <3>. QED  BY <3>1, <3>2
  <2>9. CASE FlushRefs
    <3>1. TypeOK'
      BY ZenonT(40), <1>1, <1>5, <2>9
         DEF FlushRefs, TypeOK, super, pool, ringVars, links, loop, budget
    <3>2. PlaceInv'
      BY ZenonT(40), <1>1, <1>5, <2>9 DEF FlushRefs, PlaceInv, super, pool, loop
    <3>. QED  BY <3>1, <3>2
  <2>. QED  BY SMTT(20), Z3T(20), <2>1, <2>2, <2>3, <2>4, <2>5, <2>6, <2>7, <2>8, <2>9
<1>. QED  BY ZenonT(40), <1>2, <1>3, <1>6 DEF AInv

\* The steps that write the superblock and go on.
LEMMA SaveStep ==
    ASSUME AInv, BatchPersist \/ Checkpoint
    PROVE  AInv'
<1>1. UNCHANGED <<max, pool, ringVars, phase, ask, fresh, used, assigned, links, budget>>
  BY DEF BatchPersist, Checkpoint, super, loop
<1>2. RingInv' /\ Staged' = Staged
  BY ZenonT(40), <1>1, RingKept DEF AInv
<1>3. /\ \E p \in Nat : WriteSuper(max, p) /\ point' = p /\ (p = 0 \/ SuperId <= p)
      /\ max \in Nat /\ SuperId <= max /\ max <= MaxId + 1 /\ phase # "off"
  BY Constants DEF AInv, TypeOK, PlaceInv, BatchPersist, Checkpoint, super
<1>4. /\ SuperInv' /\ disk'[SuperId] = "alloc"
      /\ \A x \in Ids : x # SuperId => disk'[x] = disk[x]
  BY ZenonT(20), <1>3, SuperWritten DEF AInv
<1>5. OwnInv'
  BY ZenonT(20), <1>1, <1>2, <1>4, SuperKeepsOwn DEF AInv, OwnInv, TypeOK, pool
<1>6. /\ base' \in Nat /\ nxt' \in Nat /\ lim' \in Nat
      /\ \/ UNCHANGED loop
         \/ pc' \in {"catalog", "wal", "idle"} /\ (pc' # "idle" => phase = "boot")
  BY DEF AInv, TypeOK, BatchPersist, Checkpoint, Booted, loop
<1>7. PlaceInv'
  BY ZenonT(40), <1>1, <1>3, <1>6 DEF AInv, PlaceInv, pool, loop
<1>8. TypeOK'
  BY SMTT(20), Z3T(20), <1>1, <1>2, <1>3, <1>4, <1>6
     DEF AInv, TypeOK, RingInv, SuperInv, pool, loop, links, budget
<1>. QED  BY SMTT(20), Z3T(20), <1>2, <1>4, <1>5, <1>7, <1>8 DEF AInv

\* kds_page_alloc, for the log or for a table.
LEMMA TakeStep ==
    ASSUME AInv, WalInit \/ WalGrow \/ TakeTablePage
    PROVE  AInv'
<1>1. /\ Pop /\ inited' = inited \cup {ring[cursor]}
      /\ dirty' \in {dirty, dirty \cup {ring[cursor]}}
      /\ refs' \in {refs, refs \cup {ring[cursor]}}
      /\ UNCHANGED <<super, sb, disk, cached, ask, base, nxt, lim, fresh, assigned,
                     savedRefs, budget>>
      /\ used' = used \cup {ring[cursor]}
  BY ZenonT(40) DEF WalInit, WalGrow, TakeTablePage, TakeWalPage, Pop, links, loop
<1>2. /\ RingInv' /\ Staged' = Staged \ {ring[cursor]}
      /\ ring[cursor] \in Staged /\ ring[cursor] \in Ids
  BY ZenonT(40), <1>1, PopRing DEF AInv
<1>3. /\ phase' = "up" /\ phase # "off"
      /\ pc' = "idle" \/ (pc' = pc /\ phase = "up")
  BY DEF AInv, PlaceInv, WalInit, WalGrow, TakeTablePage, loop
<1>4. SuperInv'
  BY ZenonT(40), <1>1 DEF AInv, SuperInv
<1>5. OwnInv'
  BY ZenonT(40), <1>1, <1>2 DEF AInv, OwnInv, StagedIsBlank
<1>6. PlaceInv'
  BY <1>1, <1>3 DEF AInv, PlaceInv, super
<1>7. ring[cursor] \in cached
  BY ZenonT(20), <1>2 DEF AInv, OwnInv
<1>8. TypeOK'
  BY SMTT(20), Z3T(20), <1>1, <1>2, <1>3, <1>4, <1>7
     DEF AInv, TypeOK, RingInv, SuperInv, super, budget
<1>. QED  BY ZenonT(20), <1>2, <1>4, <1>5, <1>6, <1>8 DEF AInv

\* Rows are written and pages flushed.
LEMMA PageStep ==
    ASSUME AInv, NEW id \in Ids, WriteRow(id) \/ FlushPage(id)
    PROVE  AInv'
<1>1. UNCHANGED <<super, ringVars, phase, loop, fresh, used, assigned, links, budget>>
  BY SMTT(20), Z3T(20) DEF WriteRow, FlushPage
<1>2. RingInv' /\ Staged' = Staged /\ phase = "up"
  BY <1>1, RingKept DEF AInv, WriteRow, FlushPage
<1>3. CASE WriteRow(id)
  <2>1. /\ cached' = cached \cup {id} /\ dirty' = dirty \cup {id}
        /\ inited' = IF id \notin cached /\ disk[id] = "init" THEN inited \cup {id} ELSE inited
        /\ UNCHANGED <<sb, disk>>
    BY SMTT(20), Z3T(20), <1>3 DEF WriteRow, LoadPage
  <2>2. SuperInv'
    BY <2>1 DEF AInv, SuperInv
  <2>3. OwnInv'
    BY ZenonT(40), <1>1, <1>2, <2>1 DEF AInv, OwnInv, StagedIsBlank
  <2>4. PlaceInv'
    BY <1>1, <1>2, <2>1 DEF AInv, PlaceInv, super, loop
  <2>5. TypeOK'
    BY ZenonT(20), <1>1, <1>2, <2>1, <2>2
       DEF AInv, TypeOK, RingInv, super, loop, links, budget
  <2>. QED  BY ZenonT(40), <1>2, <2>2, <2>3, <2>4, <2>5 DEF AInv
<1>4. CASE FlushPage(id)
  <2>1. /\ UNCHANGED <<cached, inited>> /\ dirty' = dirty \ {id} /\ id \in cached
    BY ZenonT(20), <1>4 DEF FlushPage, AInv, TypeOK
  <2>2. /\ SuperInv' /\ disk'[id] = IF id \in inited THEN "init" ELSE "alloc"
        /\ \A x \in Ids : x # id => disk'[x] = disk[x]
    BY ZenonT(20), <1>4, PageWritten DEF FlushPage, AInv
  <2>3. OwnInv'
    BY <1>1, <1>2, <2>1, <2>2 DEF AInv, OwnInv, StagedIsBlank, TypeOK
  <2>4. PlaceInv'
    BY ZenonT(20), <1>1, <1>2, <2>1 DEF AInv, PlaceInv, super, loop
  <2>5. TypeOK'
    BY ZenonT(40), <1>1, <1>2, <2>1, <2>2
       DEF AInv, TypeOK, RingInv, SuperInv, super, loop, links,
       budget
  <2>. QED  BY ZenonT(20), <1>2, <2>2, <2>3, <2>4, <2>5 DEF AInv
<1>. QED  BY SMTT(20), Z3T(20), <1>3, <1>4

\* btree_alloc_new_page: the pool refuses an id that is staged or in use.
LEMMA SplitStep ==
    ASSUME AInv, SplitAlloc
    PROVE  AInv'
<1>1. /\ UNCHANGED <<super, ringVars, phase, loop, fresh, savedRefs, budget>>
      /\ assigned \in Ids /\ assigned \notin cached /\ assigned' = None
      /\ cached' = cached \cup {assigned} /\ inited' = inited \cup {assigned}
      /\ dirty' = dirty \cup {assigned} /\ used' = used \cup {assigned}
      /\ refs' = refs \cup {assigned} /\ phase = "up"
  BY DEF SplitAlloc, AllocNew, AInv, TypeOK
<1>2. RingInv' /\ Staged' = Staged
  BY ZenonT(40), <1>1, RingKept DEF AInv
<1>3. /\ SuperInv' /\ disk'[assigned] = "alloc"
      /\ \A x \in Ids : x # assigned => disk'[x] = disk[x]
  BY ZenonT(40), <1>1, PageWritten DEF SplitAlloc, AllocNew, AInv
<1>4. OwnInv'
  BY <1>1, <1>2, <1>3 DEF AInv, OwnInv, StagedIsBlank, TypeOK
<1>5. PlaceInv'
  BY ZenonT(40), <1>1 DEF AInv, PlaceInv, super, loop
<1>6. TypeOK'
  BY SMTT(20), Z3T(20), <1>1, <1>2, <1>3
     DEF AInv, TypeOK, RingInv, SuperInv, super, loop, budget
<1>. QED  BY ZenonT(40), <1>2, <1>3, <1>4, <1>5, <1>6 DEF AInv

\* A shutdown, or a crash at any point.
LEMMA OffStep ==
    ASSUME AInv, Shutdown \/ Crash
    PROVE  AInv'
<1>1. PowerOff
  BY DEF Shutdown, Crash
<1>2. RingInv' /\ Staged' = {}
  <2>1. Emptied'
    BY <1>1 DEF PowerOff, Emptied
  <2>. QED  BY SMTT(20), Z3T(20), <2>1, EmptiedRing
<1>3. SuperInv'
  <2>1. CASE Shutdown
    <3>1. /\ max \in Nat /\ point \in Nat /\ SuperId <= max /\ max <= MaxId + 1
          /\ point = 0 \/ SuperId <= point
      BY <2>1 DEF Shutdown, AInv, TypeOK, PlaceInv
    <3>. QED  BY ZenonT(40), <2>1, <3>1, SuperWritten DEF Shutdown, AInv
  <2>2. CASE Crash
    BY ZenonT(40), <2>2 DEF Crash, AInv, SuperInv
  <2>. QED  BY ZenonT(40), <2>1, <2>2
<1>4. OwnInv'
  BY ZenonT(40), <1>1, <1>2 DEF PowerOff, OwnInv, StagedIsBlank
<1>5. PlaceInv'
  BY ZenonT(40), <1>1 DEF PowerOff, PlaceInv
<1>6. crashes' \in 0..MaxCrashes
  BY SMTT(20), Z3T(20), PageAllocAssumption DEF Shutdown, Crash, AInv, TypeOK
<1>7. TypeOK'
  <2>1. fresh' \in BOOLEAN
    BY ZenonT(20), <1>1 DEF PowerOff
  <2>2. /\ (inited \cup dirty)' \subseteq cached' /\ cached' \subseteq Ids
        /\ used' \subseteq Ids /\ refs' \subseteq Ids /\ savedRefs' \subseteq Ids
    BY ZenonT(40), <1>1 DEF PowerOff, AInv, TypeOK
  <2>3. /\ boots' \in 0..MaxBoots /\ splits' \in 0..MaxSplits /\ ask' \in 0..RingSize
    BY SMTT(20), Z3T(20), <1>1, Constants DEF PowerOff, AInv, TypeOK
  <2>4. /\ max' \in Nat /\ point' \in Nat /\ base' \in Nat /\ nxt' \in Nat /\ lim' \in Nat
        /\ phase' \in {"off", "boot", "up"} /\ assigned' \in Ids \cup {None}
        /\ pc' \in {"idle", "reclaim", "fill", "batch", "catalog", "wal"}
    BY <1>1 DEF PowerOff
  <2>. QED  BY SMTT(20), Z3T(20), <1>2, <1>3, <1>6, <2>1, <2>2, <2>3, <2>4
               DEF TypeOK, RingInv, SuperInv
<1>. QED  BY <1>2, <1>3, <1>4, <1>5, <1>7 DEF AInv

\* Every step keeps the invariant.
LEMMA AllocStep ==
    ASSUME AInv, [Next]_vars
    PROVE  AInv'
<1>1. CASE UNCHANGED vars
  <2>1. RingInv' /\ Staged' = Staged
    BY ZenonT(20), <1>1, RingKept DEF vars, AInv
  <2>2. TypeOK' /\ SuperInv'
    BY ZenonT(40), <1>1
       DEF vars, AInv, TypeOK, SuperInv, super, pool, ringVars, loop, links, budget
  <2>3. PlaceInv' /\ OwnInv'
    BY <1>1, <2>1 DEF vars, AInv, PlaceInv, OwnInv, StagedIsBlank, super, pool, loop
  <2>. QED  BY <2>1, <2>2, <2>3 DEF AInv
<1>. QED
  BY ZenonT(40), <1>1, BootStep, ReclaimPageStep, BatchPageStep, LoopStep, SaveStep,
     TakeStep,
     PageStep, SplitStep, OffStep DEF Next, Allocator

(* The ring, the pool and the superblock keep in step through boots,       *)
(* batches and crashes.                                                    *)
THEOREM AllocInvariant == Spec => []AInv
BY AllocInit, AllocStep, PTL DEF Spec

\* The cells counted from cursor on are those up to reserved.
LEMMA OccupiedCells ==
    ASSUME cursor \in Slots, reserved \in Slots
    PROVE  \A i : i \in Occupied <=> i \in Slots /\ InRing(i)
<1>. DEFINE R == RingSize
<1>1. /\ R \in Nat \ {0} /\ cursor \in 0..(R - 1) /\ reserved \in 0..(R - 1)
      /\ RingCount = IF cursor <= reserved THEN reserved - cursor ELSE reserved - cursor + R
  BY SMTT(20), Z3T(20), Constants, RingFacts DEF Slots
<1>2. \A k \in 0..(RingCount - 1) :
          (cursor + k) % R = IF cursor + k < R THEN cursor + k ELSE cursor + k - R
  <2>. SUFFICES ASSUME NEW k \in 0..(RingCount - 1)
       PROVE  (cursor + k) % R = IF cursor + k < R THEN cursor + k ELSE cursor + k - R
    OBVIOUS
  <2>1. CASE cursor + k < R
    <3>1. cursor + k \in 0..(R - 1)
      BY SMTT(20), Z3T(20), <1>1, <2>1
    <3>. QED  BY ZenonT(20), <1>1, <2>1, <3>1, Remainders
  <2>2. CASE ~(cursor + k < R)
    <3>1. cursor + k - R \in 0..(R - 1) /\ (cursor + k - R) + R = cursor + k
      BY <1>1, <2>2
    <3>2. ((cursor + k - R) + R) % R = cursor + k - R
      BY ZenonT(20), <1>1, <3>1, Remainders
    <3>. QED  BY SMTT(20), Z3T(20), <2>2, <3>1, <3>2
  <2>. QED  BY <2>1, <2>2
<1>3. ASSUME NEW k \in 0..(RingCount - 1)
      PROVE  (cursor + k) % R \in Slots /\ InRing((cursor + k) % R)
  BY SMTT(20), Z3T(20), <1>1, <1>2, <1>3 DEF Slots, InRing
<1>4. ASSUME NEW i \in Slots, InRing(i)
      PROVE  \E k \in 0..(RingCount - 1) : i = (cursor + k) % R
  <2>1. i \in 0..(R - 1)
    BY DEF Slots
  <2>2. CASE cursor <= i
    <3>1. i - cursor \in 0..(RingCount - 1) /\ cursor + (i - cursor) = i /\ i < R
      BY <1>1, <1>4, <2>1, <2>2 DEF InRing
    <3>. QED  BY SMTT(20), Z3T(20), <1>2, <3>1
  <2>3. CASE ~(cursor <= i)
    <3>1. i - cursor + R \in 0..(RingCount - 1) /\ cursor + (i - cursor + R) = i + R
      BY SMTT(20), Z3T(20), <1>1, <1>4, <2>1, <2>3 DEF InRing
    <3>2. (i + R) % R = i
      BY <1>1, <2>1, Remainders
    <3>. QED  BY ZenonT(40), <3>1, <3>2
  <2>. QED  BY <2>2, <2>3
<1>. QED  BY ZenonT(40), <1>3, <1>4 DEF Occupied

(* kds_page_alloc and a B-tree split never hand out an id twice in a boot, *)
(* nor one that is staged, and the ring's indices count what it holds.     *)
THEOREM PagesHaveOneOwner == Spec => []SingleOwner
<1>1. ASSUME AInv PROVE SingleOwner
  <2>1. Staged = {ring[i] : i \in Occupied}
    <3>1. \A i : i \in Occupied <=> i \in Slots /\ InRing(i)
      BY <1>1, OccupiedCells DEF AInv, RingInv
    <3>. QED  BY ZenonT(40), <1>1, <3>1 DEF AInv, RingInv, Staged
  <2>. QED  BY ZenonT(40), <1>1, <2>1 DEF AInv, RingInv, OwnInv, SingleOwner
<1>. QED  BY <1>1, AllocInvariant, PTL

(* What the ring holds is a page without user data.                        *)
THEOREM StagedPagesAreBlank == Spec => []StagedIsBlank
<1>1. AInv => StagedIsBlank
  BY ZenonT(40) DEF AInv, OwnInv
<1>. QED  BY <1>1, AllocInvariant, PTL

-----------------------------------------------------------------------------
\* Before the first boot nothing is saved; an orderly shutdown leaves a superblock.
FreshInv ==
    /\ boots = 0 => phase = "off" /\ savedRefs = {}
    /\ phase = "off" /\ crashes = 0 /\ boots > 0 => sb.ok

\* Before the first boot.
LEMMA FreshInit == Init => FreshInv
BY DEF Init, FreshInv

\* A shutdown writes the superblock last; only a crash leaves it destroyed.
LEMMA FreshStep ==
    ASSUME AInv, FreshInv, [Next]_vars
    PROVE  FreshInv'
<1>1. boots \in Nat /\ crashes \in Nat
  BY SMTT(20), Z3T(20), PageAllocAssumption DEF AInv, TypeOK
<1>2. CASE Boot
  BY <1>1, <1>2 DEF Boot, FreshInv
<1>3. CASE Shutdown
  <2>1. sb'.ok /\ boots' = boots /\ phase = "up" /\ savedRefs' = savedRefs
    BY ZenonT(40), <1>3 DEF Shutdown, WriteSuper, PowerOff
  <2>. QED  BY ZenonT(40), <2>1 DEF FreshInv
<1>4. CASE Crash
  BY <1>1, <1>4 DEF Crash, PowerOff, FreshInv
<1>5. CASE UNCHANGED vars
  BY ZenonT(40), <1>5 DEF vars, FreshInv, links, budget
<1>6. CASE FlushRefs \/ CatalogBootstrap
  BY <1>6 DEF FlushRefs, CatalogBootstrap, FreshInv, AInv, PlaceInv, budget
<1>7. CASE \/ ReclaimPage \/ ReclaimDone \/ BatchStart \/ BatchPage \/ BatchBreak
           \/ BatchPersist \/ Prealloc \/ ReclaimSkip \/ Checkpoint \/ SplitAlloc
           \/ SplitFails \/ AssignPageId \/ \E id \in Ids : WriteRow(id) \/ FlushPage(id)
  <2>1. phase' = phase /\ boots' = boots /\ savedRefs' = savedRefs /\ phase # "off"
    BY ZenonT(20), <1>7 DEF ReclaimPage, ReclaimDone, BatchStart, BatchPage, BatchBreak,
       BatchPersist,
       Prealloc, ReclaimSkip, Scanning, Checkpoint, SplitAlloc, SplitFails, AssignPageId,
       WriteRow, FlushPage, links, budget, AInv, PlaceInv
  <2>. QED  BY ZenonT(20), <2>1 DEF FreshInv
<1>8. CASE WalInit \/ WalGrow \/ TakeTablePage
  <2>1. phase' = "up" /\ phase # "off" /\ boots' = boots /\ savedRefs' = savedRefs
    BY <1>8 DEF WalInit, WalGrow, TakeTablePage, TakeWalPage, links, budget, AInv, PlaceInv
  <2>. QED  BY ZenonT(40), <2>1 DEF FreshInv
<1>. QED
  BY ZenonT(40), <1>2, <1>3, <1>4, <1>5, <1>6, <1>7, <1>8 DEF Next, Allocator

\* After an orderly shutdown there is a superblock.
LEMMA SuperblockSurvives == Spec => []FreshInv
BY FreshInit, FreshStep, AllocInvariant, PTL DEF Spec

(* A boot takes the device for a new one only when it is, or after a       *)
(* crash: kds_cleanup writes the superblock after everything that could    *)
(* have destroyed it.                                                      *)
THEOREM CreatedOnce == Spec => FreshIsFirst
<1>1. AInv /\ FreshInv /\ Boot /\ ~sb.ok => boots = 0 \/ crashes > 0
  <2>1. ASSUME AInv PROVE boots \in Nat /\ crashes \in Nat
    BY SMTT(20), Z3T(20), <2>1, PageAllocAssumption DEF AInv, TypeOK
  <2>. QED  BY SMTT(20), Z3T(20), <2>1 DEF FreshInv, Boot
<1>. QED  BY <1>1, SuperblockSurvives, AllocInvariant, PTL DEF FreshIsFirst

-----------------------------------------------------------------------------
\* No two pages have been put on one id.
Calm == crashes = 0 /\ splits = 0

\* Ids below are pages of some batch or are about to be.
Minted == IF pc = "batch" THEN nxt ELSE max

(* Whatever is staged or referred to was minted before, by this boot or an *)
(* earlier one; and the page under the superblock is not referred to: as   *)
(* the first in the ring it goes to the log.                               *)
LinksInv ==
    /\ assigned = None
    /\ SuperId \notin refs \cup savedRefs
    /\ pc = "batch" => lim = max
    /\ phase = "off" /\ sb.ok => \A id \in savedRefs : id < sb.max
    /\ phase # "off" => \A id \in Staged \cup refs \cup savedRefs : id < Minted
    /\ phase = "boot" /\ SuperId \in Staged => ring[cursor] = SuperId
    /\ phase = "up" => SuperId \notin Staged /\ SuperId < Minted

\* A saved page that is referred to is neither blanked nor recycled.
Kept ==
    \A id \in savedRefs : disk[id] = "init" =>
        disk'[id] = "init" /\ (id \in Staged' => id \in Staged)

\* Whatever is staged, referred to or cached has an id in range.
LEMMA KnownIds ==
    ASSUME AInv
    PROVE  /\ \A x \in Staged \cup refs \cup savedRefs : x \in Ids /\ x \in Nat /\ SuperId <= x
           /\ \A x \in cached : x \in Nat
<1>1. \A x \in Ids : x \in Nat /\ SuperId <= x
  BY SMTT(20), Z3T(20), Constants DEF Ids
<1>2. Staged \subseteq Ids /\ refs \subseteq Ids /\ savedRefs \subseteq Ids /\ cached \subseteq Ids
  BY DEF AInv, TypeOK, OwnInv
<1>. QED  BY <1>1, <1>2

\* A boot takes max_page_id from the superblock: all that is saved lies below.
LEMMA BootLinks ==
    ASSUME AInv, FreshInv, Calm, LinksInv, Boot
    PROVE  LinksInv' /\ Kept
<1>1. Staged' = Staged /\ Staged = {} /\ phase = "off"
  BY RingKept DEF AInv, PlaceInv, OwnInv, Boot
<1>2. /\ UNCHANGED <<assigned, savedRefs>> /\ refs' = savedRefs /\ phase' = "boot"
      /\ pc' # "batch"
  BY ZenonT(20) DEF Boot
<1>3. CASE sb.ok
  BY ZenonT(40), <1>1, <1>2, <1>3 DEF Boot, LinksInv, Kept, Minted
<1>4. CASE ~sb.ok
  <2>1. boots = 0
    BY <1>1, <1>4, PageAllocAssumption DEF FreshInv, Calm, AInv, TypeOK
  <2>2. savedRefs = {}
    BY <2>1 DEF FreshInv
  <2>. QED  BY ZenonT(40), <1>1, <1>2, <2>2 DEF LinksInv, Kept
<1>. QED  BY ZenonT(40), <1>3, <1>4

\* A page is staged, in the order of the ids.
LEMMA PushLinks ==
    ASSUME AInv, LinksInv, phase = "boot", ~RingIsFull, NEW id \in Ids, Push(id),
           \A x \in Staged : x < id
    PROVE  SuperId \in Staged' => ring'[cursor'] = SuperId
<1>1. id \notin Staged
  BY SMTT(20), Z3T(20), Constants DEF Ids
<1>2. /\ Staged' = Staged \cup {id}
      /\ cursor # reserved => ring'[cursor'] = ring[cursor]
      /\ cursor = reserved => ring'[cursor'] = id
  BY <1>1, PushRing DEF AInv
<1>3. CASE cursor = reserved
  <2>1. Staged = {}
    <3>1. \A i \in Slots : ring[i] = None
      BY <1>3, Constants DEF AInv, RingInv, InRing, Slots
    <3>. QED  BY ZenonT(40), <3>1 DEF Staged
  <2>. QED  BY ZenonT(40), <1>2, <1>3, <2>1
<1>4. CASE cursor # reserved
  <2>1. ring[cursor] \in Staged /\ ring[cursor] \in Ids
    BY ZenonT(40), <1>4, RingFacts DEF AInv, RingInv, Staged
  <2>2. id # SuperId
    BY <2>1, Constants DEF Ids
  <2>. QED  BY ZenonT(40), <1>2, <1>4, <2>2 DEF LinksInv
<1>. QED  BY <1>3, <1>4

\* The scan stages ids below max_page_id.
LEMMA ReclaimLinks ==
    ASSUME AInv, LinksInv, ReclaimPage
    PROVE  LinksInv' /\ Kept
<1>1. /\ nxt \in Ids /\ nxt < lim /\ lim <= max /\ pc = "reclaim" /\ phase = "boot"
      /\ \A x \in Staged : x < nxt
  <2>1. pc = "reclaim" /\ phase = "boot" /\ nxt < lim /\ lim <= max /\ SuperId <= nxt
    BY ZenonT(40) DEF AInv, PlaceInv, ReclaimPage, Scanning
  <2>2. nxt \in Ids
    BY SMTT(20), Z3T(20), <2>1, Constants DEF AInv, TypeOK, PlaceInv, Ids
  <2>3. \A x \in Staged : x < nxt
    BY SMTT(20), Z3T(20), <2>1 DEF AInv, PlaceInv, OwnInv
  <2>. QED  BY ZenonT(40), <2>1, <2>2, <2>3
<1>2. UNCHANGED <<max, sb, disk, phase, pc, lim, assigned, refs, savedRefs>>
  BY SMTT(20), Z3T(20) DEF ReclaimPage, super, links
<1>3. RingInv /\ ~RingIsFull /\ nxt \notin Staged
  BY <1>1, Constants DEF AInv, ReclaimPage, Scanning, Ids
<1>4. CASE disk[nxt] = "alloc"
  <2>1. Push(nxt)
    BY ZenonT(40), <1>4 DEF ReclaimPage
  <2>2. Staged' = Staged \cup {nxt} /\ (SuperId \in Staged' => ring'[cursor'] = SuperId)
    BY ZenonT(40), <1>1, <1>3, <2>1, PushRing, PushLinks
  <2>3. nxt < max
    BY <1>1, Constants DEF AInv, TypeOK, Ids
  <2>. QED  BY ZenonT(40), <1>1, <1>2, <1>4, <2>2, <2>3 DEF LinksInv, Kept, Minted
<1>5. CASE disk[nxt] # "alloc"
  <2>1. UNCHANGED ringVars
    BY <1>5 DEF ReclaimPage
  <2>2. Staged' = Staged
    BY <1>3, <2>1, RingKept
  <2>. QED  BY ZenonT(40), <1>1, <1>2, <2>1, <2>2 DEF LinksInv, Kept, Minted, ringVars
<1>. QED  BY <1>4, <1>5

\* A batch stages the next id, above all that is referred to.
LEMMA BatchLinks ==
    ASSUME AInv, LinksInv, BatchPage
    PROVE  LinksInv' /\ Kept
<1>1. /\ nxt \in Ids /\ nxt < lim /\ lim = max /\ pc = "batch" /\ phase # "off"
      /\ nxt \notin cached /\ max \in Nat
      /\ \A x \in Staged \cup refs \cup savedRefs : x < nxt
  BY SMTT(20), Z3T(20), Constants
     DEF AInv, TypeOK, PlaceInv, LinksInv, Minted, BatchPage, AllocNew,
     Ids
<1>2. UNCHANGED <<max, phase, pc, lim, assigned, refs, savedRefs>>
  BY DEF BatchPage, super, links
<1>3. RingInv /\ nxt \notin Staged /\ nxt \notin savedRefs
  BY SMTT(20), Z3T(20), <1>1, Constants DEF AInv, Ids
<1>4. \A x \in Ids : x # nxt => disk'[x] = disk[x]
  BY <1>1, PageWritten DEF BatchPage, AllocNew, AInv
<1>5. \A x \in savedRefs : x \in Ids
  BY ZenonT(20) DEF AInv, TypeOK
<1>6. CASE RingIsFull
  <2>1. UNCHANGED ringVars /\ nxt' = lim
    BY <1>6 DEF BatchPage
  <2>2. Staged' = Staged
    BY ZenonT(40), <1>3, <2>1, RingKept
  <2>3. \A x \in Staged \cup refs \cup savedRefs : x < lim
    BY SMTT(20), Z3T(20), <1>1, KnownIds, Constants
  <2>4. SuperId < nxt => SuperId < lim
    BY <1>1, Constants DEF Ids
  <2>. QED
    BY ZenonT(40), <1>1, <1>2, <1>3, <1>4, <1>5, <2>1, <2>2, <2>3, <2>4
       DEF LinksInv, Kept, Minted, ringVars
<1>7. CASE ~RingIsFull
  <2>1. Push(nxt) /\ nxt' = nxt + 1
    BY ZenonT(40), <1>7 DEF BatchPage
  <2>2. /\ Staged' = Staged \cup {nxt}
        /\ phase = "boot" /\ SuperId \in Staged' => ring'[cursor'] = SuperId
    BY ZenonT(40), <1>1, <1>3, <1>7, <2>1, PushRing, PushLinks
  <2>3. \A x \in Staged' \cup refs \cup savedRefs : x < nxt + 1
    <3>1. nxt \in Nat
      BY ZenonT(40), <1>1, Constants
    <3>. QED  BY <1>1, <2>2, <3>1, KnownIds
  <2>4. SuperId < nxt => SuperId < nxt + 1 /\ SuperId # nxt
    BY <1>1, Constants DEF Ids
  <2>. QED
    BY ZenonT(40), <1>1, <1>2, <1>3, <1>4, <1>5, <2>1, <2>2, <2>3, <2>4
       DEF LinksInv, Kept, Minted
<1>. QED  BY ZenonT(40), <1>6, <1>7

\* Steps that write no page and take none.
LEMMA LoopLinks ==
    ASSUME AInv, LinksInv,
           \/ ReclaimSkip \/ ReclaimDone \/ BatchStart \/ BatchBreak \/ CatalogBootstrap
           \/ Prealloc \/ SplitFails \/ FlushRefs
    PROVE  LinksInv' /\ Kept
<1>1. UNCHANGED <<sb, disk, ringVars, phase, assigned>> /\ phase # "off"
  BY ZenonT(20) DEF ReclaimSkip, ReclaimDone, BatchStart, BatchBreak, CatalogBootstrap,
     Prealloc,
         SplitFails, FlushRefs, Scanning, AInv, PlaceInv, LinksInv
<1>2. Staged' = Staged /\ UNCHANGED <<ring, cursor>>
  BY ZenonT(20), <1>1, RingKept DEF AInv, ringVars
<1>3. refs' \subseteq refs /\ savedRefs' \subseteq refs \cup savedRefs
  BY ZenonT(20) DEF ReclaimSkip, ReclaimDone, BatchStart, BatchBreak, CatalogBootstrap,
     Prealloc,
         SplitFails, FlushRefs, links
<1>4. Minted <= Minted' /\ (pc' = "batch" => lim' = max') /\ Minted \in Nat /\ Minted' \in Nat
  <2>1. max \in Nat /\ nxt \in Nat /\ lim \in Nat
    BY DEF AInv, TypeOK
  <2>2. CASE ReclaimSkip \/ ReclaimDone \/ Prealloc \/ CatalogBootstrap
    <3>1. pc # "batch" /\ pc' # "batch" /\ max' = max
      BY ZenonT(20), <2>2 DEF ReclaimSkip, ReclaimDone, Prealloc, CatalogBootstrap,
         Scanning, Booted, super
    <3>. QED  BY <2>1, <3>1 DEF Minted
  <2>3. CASE BatchStart
    <3>1. pc # "batch" /\ pc' = "batch" /\ nxt' = max /\ lim' = max'
      BY ZenonT(20), <2>3 DEF BatchStart
    <3>. QED  BY <2>1, <3>1 DEF Minted
  <2>4. CASE BatchBreak
    <3>1. pc = "batch" /\ nxt < lim /\ nxt' = lim /\ UNCHANGED <<pc, lim, max>>
      BY ZenonT(20), <2>4 DEF BatchBreak, super
    <3>2. lim = max
      BY SMTT(20), Z3T(20), <3>1 DEF LinksInv
    <3>. QED  BY <2>1, <3>1, <3>2 DEF Minted
  <2>5. CASE SplitFails \/ FlushRefs
    <3>1. UNCHANGED <<pc, nxt, lim, max>>
      BY ZenonT(20), <2>5 DEF SplitFails, FlushRefs, super, loop
    <3>2. pc = "batch" => lim = max
      BY ZenonT(40) DEF LinksInv
    <3>. QED  BY <2>1, <3>1, <3>2 DEF Minted
  <2>. QED  BY ZenonT(40), <2>2, <2>3, <2>4, <2>5
<1>5. \A x \in Staged \cup refs \cup savedRefs : x < Minted'
  BY SMTT(20), Z3T(20), <1>1, <1>4, KnownIds DEF LinksInv
<1>6. SuperId < Minted => SuperId < Minted'
  BY <1>4, Constants
<1>7. LinksInv'
  BY ZenonT(20), <1>1, <1>2, <1>3, <1>4, <1>5, <1>6 DEF LinksInv
<1>8. Kept
  BY <1>1, <1>2 DEF Kept
<1>. QED  BY ZenonT(20), <1>7, <1>8

\* Superblock writes.
LEMMA SaveLinks ==
    ASSUME AInv, LinksInv, BatchPersist \/ Checkpoint
    PROVE  LinksInv' /\ Kept
<1>1. UNCHANGED <<max, ringVars, phase, assigned, refs, savedRefs>> /\ phase # "off"
  BY DEF BatchPersist, Checkpoint, super, links, AInv, PlaceInv
<1>2. Staged' = Staged /\ UNCHANGED <<ring, cursor>>
  BY ZenonT(40), <1>1, RingKept DEF AInv, ringVars
<1>3. \A x \in Ids : x # SuperId => disk'[x] = disk[x]
  BY DEF BatchPersist, Checkpoint, WriteSuper, AInv, SuperInv
<1>4. Minted' = Minted /\ (pc' = "batch" => lim' = max')
  <2>1. CASE BatchPersist
    BY ZenonT(20), <1>1, <2>1 DEF BatchPersist, Booted, Minted, LinksInv
  <2>2. CASE Checkpoint
    BY ZenonT(20), <1>1, <2>2 DEF Checkpoint, Minted, LinksInv, loop
  <2>. QED  BY ZenonT(20), <2>1, <2>2
<1>5. LinksInv'
  BY ZenonT(20), <1>1, <1>2, <1>4 DEF LinksInv
<1>6. Kept
  BY <1>2, <1>3, KnownIds DEF Kept, LinksInv
<1>. QED  BY ZenonT(40), <1>5, <1>6

\* The first page taken is the one under the superblock; the log takes it.
LEMMA TakeLinks ==
    ASSUME AInv, LinksInv, WalInit \/ WalGrow \/ TakeTablePage
    PROVE  LinksInv' /\ Kept
<1>1. /\ Pop /\ UNCHANGED <<max, sb, disk, assigned, savedRefs, nxt, lim>>
      /\ phase' = "up" /\ phase # "off"
  BY DEF WalInit, WalGrow, TakeTablePage, TakeWalPage, super, links, loop, AInv, PlaceInv
<1>2. Staged' = Staged \ {ring[cursor]} /\ ring[cursor] \in Staged
  BY ZenonT(40), <1>1, PopRing DEF AInv
<1>3. /\ Minted' = Minted /\ (pc' = "batch" => pc = "batch")
      /\ \/ phase = "boot" /\ refs' = refs
         \/ phase = "up" /\ refs' \in {refs, refs \cup {ring[cursor]}}
  BY SMTT(20), Z3T(20), <1>1
     DEF WalInit, WalGrow, TakeTablePage, TakeWalPage, Minted, links, loop, AInv,
              PlaceInv
<1>4. SuperId < Minted
  <2>1. ring[cursor] \in Nat /\ SuperId <= ring[cursor] /\ ring[cursor] < Minted
    BY ZenonT(20), <1>1, <1>2, KnownIds DEF LinksInv
  <2>2. Minted \in Nat
    BY ZenonT(20) DEF AInv, TypeOK, Minted
  <2>. QED  BY <2>1, <2>2, Constants
<1>5. SuperId \notin Staged' /\ SuperId \notin refs'
  BY ZenonT(20), <1>1, <1>2, <1>3 DEF LinksInv
<1>6. \A x \in Staged' \cup refs' \cup savedRefs : x < Minted
  BY ZenonT(20), <1>1, <1>2, <1>3 DEF LinksInv
<1>7. LinksInv'
  BY ZenonT(40), <1>1, <1>3, <1>4, <1>5, <1>6 DEF LinksInv
<1>8. Kept
  BY <1>1, <1>2 DEF Kept
<1>. QED  BY ZenonT(40), <1>7, <1>8

\* A row written into a page, and the flush of a page.
LEMMA PageLinks ==
    ASSUME AInv, LinksInv, NEW id \in Ids, WriteRow(id) \/ FlushPage(id)
    PROVE  LinksInv' /\ Kept
<1>1. UNCHANGED <<super, ringVars, phase, loop, assigned, links>> /\ phase # "off"
  BY DEF WriteRow, FlushPage
<1>2. Staged' = Staged /\ UNCHANGED <<ring, cursor, refs, savedRefs, max, pc, nxt, lim>>
  BY ZenonT(20), <1>1, RingKept DEF AInv, ringVars, super, loop, links
<1>3. LinksInv'
  BY ZenonT(40), <1>1, <1>2 DEF LinksInv, Minted
<1>4. \A x \in Ids : disk[x] = "init" => disk'[x] = "init"
  <2>1. CASE WriteRow(id)
    BY ZenonT(20), <2>1 DEF WriteRow
  <2>2. CASE FlushPage(id)
    <3>1. disk[id] = "init" => id \in inited
      BY SMTT(20), Z3T(20), <2>2 DEF FlushPage, AInv, OwnInv, TypeOK
    <3>. QED  BY ZenonT(40), <2>2, <3>1, PageWritten DEF FlushPage, AInv
  <2>. QED  BY <2>1, <2>2
<1>5. Kept
  BY <1>2, <1>4, KnownIds DEF Kept
<1>. QED  BY ZenonT(40), <1>3, <1>5

\* The shutdown saves max_page_id above all that is saved.
LEMMA ShutdownLinks ==
    ASSUME AInv, LinksInv, Shutdown
    PROVE  LinksInv' /\ Kept
<1>1. /\ phase = "up" /\ pc = "idle" /\ phase' = "off" /\ pc' = "idle" /\ assigned' = None
      /\ refs' = {} /\ savedRefs' = savedRefs /\ sb'.max = max /\ Emptied'
  BY SMTT(20), Z3T(20) DEF Shutdown, PowerOff, WriteSuper, Emptied
<1>2. Staged' = {}
  BY <1>1, EmptiedRing
<1>3. \A x \in Ids : x # SuperId => disk'[x] = disk[x]
  BY ZenonT(20) DEF Shutdown, WriteSuper, AInv, SuperInv
<1>4. LinksInv'
  BY ZenonT(40), <1>1, <1>2 DEF LinksInv, Minted
<1>5. Kept
  BY <1>2, <1>3, KnownIds DEF Kept, LinksInv
<1>. QED  BY ZenonT(40), <1>4, <1>5

\* A first crash is counted.
LEMMA OneIsNotZero == 0 + 1 # 0
OBVIOUS

\* Every step keeps what is saved, and LinksInv until a crash or a split.
LEMMA LinksStep ==
    ASSUME AInv, FreshInv, Calm, LinksInv, [Next]_vars
    PROVE  (Calm' => LinksInv') /\ Kept
<1>1. CASE UNCHANGED vars
  <2>1. Staged' = Staged
    BY <1>1, RingKept DEF vars, AInv
  <2>. QED
    BY ZenonT(40), <1>1, <2>1 DEF vars, LinksInv, Kept, Minted, super, ringVars, loop, links
<1>2. CASE AssignPageId
  <2>1. Staged' = Staged /\ disk' = disk
    BY ZenonT(40), <1>2, RingKept DEF AssignPageId, AInv
  <2>2. ~Calm'
    BY <1>2 DEF AssignPageId, Calm
  <2>. QED  BY ZenonT(40), <2>1, <2>2 DEF Kept
<1>3. CASE Crash
  <2>1. Emptied' /\ disk' = disk
    BY <1>3 DEF Crash, PowerOff, Emptied
  <2>2. ~Calm'
    <3>1. crashes' = crashes + 1 /\ crashes = 0
      BY Zenon, <1>3 DEF Crash, Calm
    <3>2. crashes' # 0
      BY Zenon, <3>1, OneIsNotZero
    <3>. QED  BY Zenon, <3>2 DEF Calm
  <2>. QED  BY ZenonT(40), <2>1, <2>2, EmptiedRing DEF Kept
<1>4. CASE SplitAlloc
  BY SMTT(20), Z3T(20), <1>4 DEF SplitAlloc, LinksInv
<1>. QED
  BY ZenonT(20), <1>1, <1>2, <1>3, <1>4, BootLinks, ReclaimLinks, BatchLinks, LoopLinks,
     SaveLinks,
     TakeLinks, PageLinks, ShutdownLinks DEF Next, Allocator

\* Crashes and splits are not undone.
LEMMA CalmEnds ==
    ASSUME Calm', AInv, [Next]_vars
    PROVE  Calm
<1>1. crashes' \in {crashes, crashes + 1} /\ splits' \in {splits, splits + 1}
  BY ZenonT(20) DEF Next, Allocator, vars, budget, Boot, ReclaimPage, ReclaimDone,
     BatchStart, BatchPage,
     BatchBreak, BatchPersist, CatalogBootstrap, WalInit, Prealloc, ReclaimSkip, WalGrow,
     TakeWalPage, TakeTablePage, WriteRow, FlushPage, AssignPageId, SplitAlloc, SplitFails,
     FlushRefs, Checkpoint, Shutdown, Crash, PowerOff
<1>2. crashes \in Nat /\ splits \in Nat
  BY PageAllocAssumption DEF AInv, TypeOK
<1>. QED  BY SMTT(20), Z3T(20), <1>1, <1>2 DEF Calm

(* Until a crash or a B-tree split, a page that is saved and referred to   *)
(* on disk is neither blanked by a batch or a superblock write nor taken   *)
(* for unused by the scan of a later boot.                                 *)
THEOREM SavedPagesAreKept == Spec => SavedIsKept
<1>1. Init => (Calm => LinksInv)
  <2>1. Init => Staged = {}
    BY EmptyRing DEF Init, Emptied
  <2>. QED  BY ZenonT(40), <2>1 DEF Init, LinksInv
<1>2. Calm' /\ AInv /\ [Next]_vars => Calm
  BY CalmEnds
<1>3. AInv /\ FreshInv /\ (Calm => LinksInv) /\ [Next]_vars => (Calm => LinksInv)'
  BY <1>2, LinksStep
<1>4. Spec => [](Calm => LinksInv)
  BY <1>1, <1>3, AllocInvariant, SuperblockSurvives, PTL DEF Spec
<1>5. ASSUME AInv, FreshInv, Calm => LinksInv, [Next]_vars
      PROVE  \A id \in savedRefs : disk[id] = "init" /\ crashes = 0 /\ splits = 0 =>
                 disk'[id] = "init" /\ (id \in Staged' => id \in Staged)
  BY <1>5, LinksStep DEF Calm, Kept
<1>. QED
  BY <1>4, <1>5, AllocInvariant, SuperblockSurvives, PTL DEF Spec, SavedIsKept

============================================================================
