--------------------------- MODULE PageMgrProofs ---------------------------
(***************************************************************************)
(* The buffer pool is correct for every number of threads, pages and       *)
(* frames: IInv is inductive, and the safety invariants of PageMgr follow  *)
(* from it. PinInv, inductive relative to it, gives kp->refcnt; and every  *)
(* step is a step of PageStore or shows nothing to the callers.            *)
(***************************************************************************)
EXTENDS PageMgrInv, FiniteSetTheorems, TLAPS

USE DEF Mapped, Holding, Private, Goto, frameVars

\* What the proofs use of the constants.
LEMMA Constants ==
    /\ NoFrame \notin Frames
    /\ NoPage \notin Pages
    /\ NoLock \notin Actors
    /\ Ckpt \in Actors
    /\ \A t \in Threads : t \in Actors /\ t # Ckpt
BY PageMgrAssumption DEF Frames, NoFrame, Actors

\* The pass goes on to another frame, or ends.
LEMMA AdvanceMoves ==
    ASSUME next \in Frames, Advance
    PROVE  \E l \in {"idle", "scan"} :
               /\ pc' = [pc EXCEPT ![Ckpt] = l]
               /\ next' \in 0..NFrames
               /\ l = "scan" => next' \in Frames
<1>1. CASE next = NFrames
  BY <1>1, PageMgrAssumption DEF Advance
<1>2. CASE next # NFrames
  <2>1. next' = next + 1 /\ pc' = [pc EXCEPT ![Ckpt] = "scan"]
    BY <1>2 DEF Advance
  <2>2. next + 1 \in Frames /\ next + 1 \in 0..NFrames
    BY <1>2, PageMgrAssumption DEF Frames
  <2>. QED
    BY <2>1, <2>2
<1>. QED
  BY <1>1, <1>2

\* A step that cleans no frame and ends no write keeps CleanIsOnDisk.
LEMMA CleanKept ==
    ASSUME CleanIsOnDisk,
           \A q \in Pages : (Mapped(q) /\ ~dirty[map[q]] /\ disk[q].data # data[map[q]])' =>
               /\ Mapped(q) /\ ~dirty[map[q]] /\ disk[q].data # data[map[q]]
               /\ map'[q] = map[q],
           \A b \in Actors : pc[b] = "writing" => pc'[b] = "writing" /\ fr'[b] = fr[b]
    PROVE  CleanIsOnDisk'
BY DEF CleanIsOnDisk, CleanFrame

-----------------------------------------------------------------------------
(* What the steps do that touch no frame's contents and no list: actor a   *)
(* goes to l with frame f for page w in its hand, and pins, unpins, locks, *)
(* unlocks or passes by.                                                   *)
Handles(a, l, o, w, f) ==
    /\ pc[a] \in {"idle", "scan", "relookup", "using", "reject", "reading", "flush"}
    /\ l \in {"idle", "scan", "using", "reject", "reading", "flush", "io"}
    /\ pc' = [pc EXCEPT ![a] = l] /\ op' = [op EXCEPT ![a] = o]
    /\ want' = [want EXCEPT ![a] = w] /\ fr' = [fr EXCEPT ![a] = f]
    /\ UNCHANGED <<state, fpage, data, dirty, free, map, disk, issued>>
    /\ refcnt' \in [Frames -> Int]
    /\ lock' \in [Frames -> Actors \cup {NoLock}]
    /\ next' \in 0..NFrames

\* What it is entitled to there.
Entitled(a, l, o, w, f) ==
    /\ o \in {"load", "alloc"}
    /\ w \in Pages \cup {NoPage} /\ f \in Frames \cup {NoFrame}
    /\ (IF a = Ckpt THEN l # "idle" ELSE pc[Ckpt] # "idle") => next' \in Frames
    /\ l = "scan" => a = Ckpt
    /\ l \in {"reject", "reading"} => a # Ckpt
    /\ l \notin {"idle", "scan"} => w \in Pages /\ f \in Frames /\ map[w] = f
    /\ l \notin {"idle", "scan", "reject"} /\ a # Ckpt => issued[w] = "live"
    /\ l \in {"reading", "io"} => lock'[f] = a
    /\ \A b \in Actors \ {a} : Locking(b) => lock'[fr[b]] = b

\* Such a step keeps the invariant.
LEMMA HandStep ==
    ASSUME IInv, NEW a \in Actors, NEW l, NEW o, NEW w, NEW f,
           Handles(a, l, o, w, f), Entitled(a, l, o, w, f)
    PROVE  IInv'
<1>. /\ TypeOK /\ HandInv /\ PrivateInv /\ MapInv /\ NoLeak /\ IdInv /\ LiveInv
     /\ LockInv /\ CopyInv /\ CleanIsOnDisk /\ LoserFindsWinner
  BY Zenon DEF IInv
<1>1. TypeOK'
  BY Zenon, Constants DEF TypeOK, HandInv, PCs, States, Handles, Entitled
<1>2. (HandInv /\ LoserFindsWinner)'
  BY ZenonT(60), Constants DEF TypeOK, HandInv, LoserFindsWinner, Handles, Entitled
<1>3. (PrivateInv /\ MapInv /\ NoLeak)'
  BY Constants DEF TypeOK, HandInv, PrivateInv, MapInv, NoLeak, Handles, Entitled
<1>4. (IdInv /\ LiveInv)'
  BY Constants DEF TypeOK, HandInv, IdInv, LiveInv, Handles, Entitled
<1>5. (LockInv /\ CopyInv)'
  BY Constants DEF TypeOK, HandInv, PrivateInv, IdInv, LiveInv, LockInv, Locking, CopyInv,
     Handles, Entitled
<1>6. CleanIsOnDisk'
  BY Constants, CleanKept DEF TypeOK, HandInv, PrivateInv, MapInv, CopyInv, Handles,
     Entitled
<1>. QED
  BY Zenon, <1>1, <1>2, <1>3, <1>4, <1>5, <1>6 DEF IInv

\* A miss: kds_buf_lookup_or_load and kds_buf_alloc_new begin with an id.
Begins(t, p, o) ==
    /\ pc[t] = "idle" /\ ~Mapped(p)
    /\ o \in {"load", "alloc"}
    /\ issued[p] = (IF o = "alloc" THEN "no" ELSE "live")
    /\ issued' = [issued EXCEPT ![p] = IF o = "alloc" THEN "pending" ELSE "live"]
    /\ op' = [op EXCEPT ![t] = o] /\ want' = [want EXCEPT ![t] = p] /\ Goto(t, "take")
    /\ UNCHANGED <<frameVars, free, map, disk, fr, next>>

(* A miss touches no frame; kds_buf_alloc_new begins with an id that no    *)
(* other call has.                                                         *)
LEMMA BeginStep ==
    ASSUME IInv, NEW t \in Threads, NEW p \in Pages, NEW o, Begins(t, p, o)
    PROVE  IInv'
<1>. /\ TypeOK /\ HandInv /\ PrivateInv /\ MapInv /\ NoLeak /\ IdInv /\ LiveInv
     /\ LockInv /\ CopyInv /\ CleanIsOnDisk /\ LoserFindsWinner
  BY Zenon DEF IInv
<1>1. TypeOK'
  BY Zenon, Constants DEF TypeOK, HandInv, PCs, States, Begins
<1>2. (HandInv /\ LoserFindsWinner)'
  BY ZenonT(90), Constants DEF TypeOK, HandInv, LoserFindsWinner, Begins
<1>3. (PrivateInv /\ MapInv /\ NoLeak)'
  BY Constants DEF TypeOK, HandInv, PrivateInv, MapInv, NoLeak, Begins
<1>4. (IdInv /\ LiveInv)'
  BY Constants DEF TypeOK, HandInv, IdInv, LiveInv, Begins
<1>5. (LockInv /\ CopyInv)'
  BY Constants DEF TypeOK, HandInv, PrivateInv, IdInv, LiveInv, LockInv, Locking, CopyInv,
     Begins
<1>6. CleanIsOnDisk'
  BY Constants, CleanKept DEF TypeOK, HandInv, PrivateInv, MapInv, CopyInv, Begins
<1>. QED
  BY Zenon, <1>1, <1>2, <1>3, <1>4, <1>5, <1>6 DEF IInv

\* kds_buf_take_free_frame hands a frame to one caller.
LEMMA TakeStep ==
    ASSUME IInv, NEW t \in Threads, NEW f \in Frames, Take(t, f)
    PROVE  IInv'
<1>. /\ TypeOK /\ HandInv /\ PrivateInv /\ MapInv /\ NoLeak /\ IdInv /\ LiveInv
     /\ LockInv /\ CopyInv /\ CleanIsOnDisk /\ LoserFindsWinner
  BY Zenon DEF IInv
<1>1. TypeOK'
  BY Zenon, Constants DEF TypeOK, HandInv, PCs, States, Take
<1>2. (HandInv /\ LoserFindsWinner)'
  <2>1. HandInv'
    BY SMTT(20), Z3T(20), Constants DEF TypeOK, HandInv, LoserFindsWinner, PrivateInv,
       MapInv, NoLeak, Take
  <2>2. LoserFindsWinner'
    BY SMTT(20), Z3T(20), Constants DEF TypeOK, HandInv, LoserFindsWinner, Take
  <2>. QED  BY Zenon, <2>1, <2>2
<1>3. (PrivateInv /\ MapInv /\ NoLeak)'
  <2>1. PrivateInv'
    BY SMTT(20), Z3T(20), Constants DEF TypeOK, HandInv, PrivateInv, MapInv, NoLeak,
       Take
  <2>2. MapInv'
    BY SMTT(20), Z3T(20), Constants DEF TypeOK, HandInv, MapInv, Take
  <2>3. NoLeak'
    BY SMTT(20), Z3T(20), Constants DEF TypeOK, HandInv, NoLeak, Take
  <2>. QED  BY ZenonT(20), <2>1, <2>2, <2>3
<1>4. (IdInv /\ LiveInv)'
  <2>1. IdInv'
    BY SMTT(20), Z3T(20), Constants DEF TypeOK, HandInv, IdInv, Take
  <2>2. LiveInv'
    BY SMTT(20), Z3T(20), Constants DEF TypeOK, HandInv, LiveInv, Take
  <2>. QED  BY Zenon, <2>1, <2>2
<1>5. (LockInv /\ CopyInv)'
  <2>1. LockInv'
    BY SMTT(20), Z3T(20), Constants DEF TypeOK, HandInv, LockInv, Locking, Take
  <2>2. CopyInv'
    BY SMTT(20), Z3T(20), Constants DEF TypeOK, HandInv, Locking, CopyInv, Take
  <2>. QED  BY Zenon, <2>1, <2>2
<1>6. CleanIsOnDisk'
  BY Constants, CleanKept DEF TypeOK, HandInv, PrivateInv, MapInv, CopyInv, Take
<1>. QED
  BY Zenon, <1>1, <1>2, <1>3, <1>4, <1>5, <1>6 DEF IInv

\* -ENOSPC from an empty free list costs the id, not a frame.
LEMMA TakeFailsStep ==
    ASSUME IInv, NEW t \in Threads, TakeFails(t)
    PROVE  IInv'
<1>. /\ TypeOK /\ HandInv /\ PrivateInv /\ MapInv /\ NoLeak /\ IdInv /\ LiveInv
     /\ LockInv /\ CopyInv /\ CleanIsOnDisk /\ LoserFindsWinner
  BY Zenon DEF IInv
<1>1. TypeOK'
  BY Zenon, Constants DEF TypeOK, HandInv, PCs, States, TakeFails, Burn
<1>2. (HandInv /\ LoserFindsWinner)'
  BY ZenonT(40), Constants DEF TypeOK, HandInv, LoserFindsWinner, TakeFails, Burn
<1>3. (PrivateInv /\ MapInv /\ NoLeak)'
  BY Constants DEF TypeOK, HandInv, PrivateInv, MapInv, NoLeak, TakeFails, Burn
<1>4. (IdInv /\ LiveInv)'
  <2>1. IdInv'
    BY SMTT(20), Z3T(20), Constants DEF TypeOK, HandInv, IdInv, TakeFails, Burn
  <2>2. LiveInv'
    BY SMTT(20), Z3T(20), Constants DEF TypeOK, HandInv, IdInv, LiveInv, TakeFails, Burn
  <2>. QED  BY Zenon, <2>1, <2>2
<1>5. (LockInv /\ CopyInv)'
  <2>1. LockInv'
    BY SMTT(20), Z3T(20), Constants DEF TypeOK, HandInv, LockInv, Locking, TakeFails,
       Burn
  <2>2. CopyInv'
    BY SMTT(20), Z3T(20), Constants DEF TypeOK, HandInv, Locking, CopyInv, TakeFails,
       Burn
  <2>. QED  BY Zenon, <2>1, <2>2
<1>6. CleanIsOnDisk'
  BY Constants, CleanKept DEF TypeOK, HandInv, PrivateInv, MapInv, CopyInv, TakeFails,
     Burn
<1>. QED
  BY Zenon, <1>1, <1>2, <1>3, <1>4, <1>5, <1>6 DEF IInv

\* kds_frame_read_from_disk or the zero fill, up to the next label.
Fills(t, l, d, b) ==
    /\ pc[t] = "fill"
    /\ l = (IF op[t] = "alloc" THEN "write" ELSE "register")
    /\ d = (IF op[t] = "alloc" THEN Zero ELSE disk[want[t]].data)
    /\ b \in BOOLEAN
    /\ data' = [data EXCEPT ![fr[t]] = d] /\ dirty' = [dirty EXCEPT ![fr[t]] = b]
    /\ refcnt' = [refcnt EXCEPT ![fr[t]] = 0] /\ Goto(t, l)
    /\ UNCHANGED <<state, fpage, lock, free, map, disk, issued, op, want, fr, next>>

(* kds_frame_read_from_disk and kds_buf_alloc_new fill a buffer that nobody *)
(* else can see.                                                           *)
LEMMA FillStep ==
    ASSUME IInv, NEW t \in Threads, NEW l, NEW d \in Vals, NEW b, Fills(t, l, d, b)
    PROVE  IInv'
<1>. /\ TypeOK /\ HandInv /\ PrivateInv /\ MapInv /\ NoLeak /\ IdInv /\ LiveInv
     /\ LockInv /\ CopyInv /\ CleanIsOnDisk /\ LoserFindsWinner
  BY ZenonT(20) DEF IInv
<1>1. TypeOK'
  BY Constants DEF TypeOK, HandInv, PCs, States, Fills
<1>2. (HandInv /\ LoserFindsWinner)'
  BY ZenonT(90), Constants DEF TypeOK, HandInv, LoserFindsWinner, Fills
<1>3. (PrivateInv /\ MapInv /\ NoLeak)'
  BY Constants DEF TypeOK, HandInv, PrivateInv, MapInv, NoLeak, Fills
<1>4. (IdInv /\ LiveInv)'
  BY Constants DEF TypeOK, HandInv, IdInv, LiveInv, Fills
<1>5. (LockInv /\ CopyInv)'
  <2>1. LockInv'
    BY SMTT(20), Z3T(20), Constants DEF TypeOK, HandInv, LockInv, Locking, Fills
  <2>2. CopyInv'
    BY SMTT(20), Z3T(20), Constants DEF TypeOK, HandInv, PrivateInv, IdInv, LiveInv,
       LockInv, Locking, CopyInv, Fills
  <2>. QED  BY Zenon, <2>1, <2>2
<1>6. CleanIsOnDisk'
  BY SMTT(20), Z3T(20), Constants, CleanKept
     DEF TypeOK, HandInv, PrivateInv, MapInv, CopyInv, Fills
<1>. QED
  BY Zenon, <1>1, <1>2, <1>3, <1>4, <1>5, <1>6 DEF IInv

\* The error exits after a failed read, allocation or registration.
Exits(t, l) ==
    /\ pc[t] \in {"fill", "register"} /\ l \in {"idle", "relookup"}
    /\ Release(t) /\ Burn(t) /\ Goto(t, l)
    /\ l = "relookup" => op[t] = "load" /\ Mapped(want[t])
    /\ UNCHANGED <<data, dirty, refcnt, lock, map, disk, op, want, next>>

\* They give the frame back.
LEMMA ExitStep ==
    ASSUME IInv, NEW t \in Threads, NEW l, Exits(t, l)
    PROVE  IInv'
<1>. /\ TypeOK /\ HandInv /\ PrivateInv /\ MapInv /\ NoLeak /\ IdInv /\ LiveInv
     /\ LockInv /\ CopyInv /\ CleanIsOnDisk /\ LoserFindsWinner
  BY Zenon DEF IInv
<1>1. TypeOK'
  BY ZenonT(40), Constants DEF TypeOK, HandInv, PCs, States, Exits, Release, Burn
<1>2. (HandInv /\ LoserFindsWinner)'
  BY Constants DEF TypeOK, HandInv, LoserFindsWinner, PrivateInv, Exits, Release, Burn
<1>3. (PrivateInv /\ MapInv /\ NoLeak)'
  <2>1. PrivateInv'
    BY SMTT(20), Z3T(20), Constants DEF TypeOK, HandInv, PrivateInv, Exits, Release,
       Burn
  <2>2. MapInv'
    BY SMTT(20), Z3T(20), Constants DEF TypeOK, HandInv, PrivateInv, MapInv, NoLeak,
       Exits, Release, Burn
  <2>3. NoLeak'
    BY SMTT(20), Z3T(20), Constants DEF TypeOK, HandInv, NoLeak, Exits, Release, Burn
  <2>. QED  BY Zenon, <2>1, <2>2, <2>3
<1>4. (IdInv /\ LiveInv)'
  <2>1. IdInv'
    BY SMTT(20), Z3T(20), Constants DEF TypeOK, HandInv, IdInv, Exits, Release, Burn
  <2>2. LiveInv'
    BY SMTT(20), Z3T(20), Constants DEF TypeOK, HandInv, IdInv, LiveInv, Exits,
       Release, Burn
  <2>. QED  BY ZenonT(20), <2>1, <2>2
<1>5. (LockInv /\ CopyInv)'
  BY Constants DEF TypeOK, HandInv, PrivateInv, IdInv, LiveInv, LockInv, Locking, CopyInv,
     Exits, Release, Burn
<1>6. CleanIsOnDisk'
  BY ZenonT(120), Constants, CleanKept
     DEF TypeOK, HandInv, PrivateInv, MapInv, CopyInv, Exits, Release,
     Burn
<1>. QED
  BY Zenon, <1>1, <1>2, <1>3, <1>4, <1>5, <1>6 DEF IInv

\* kds_buf_alloc_new writes a page that no loader can have read.
LEMMA WriteNewStep ==
    ASSUME IInv, NEW t \in Threads, WriteNew(t)
    PROVE  IInv'
<1>. /\ TypeOK /\ HandInv /\ PrivateInv /\ MapInv /\ NoLeak /\ IdInv /\ LiveInv
     /\ LockInv /\ CopyInv /\ CleanIsOnDisk /\ LoserFindsWinner
  BY Zenon DEF IInv
<1>1. TypeOK'
  BY Zenon, Constants DEF TypeOK, HandInv, PCs, States, WriteNew
<1>2. (HandInv /\ LoserFindsWinner)'
  BY ZenonT(60), Constants DEF TypeOK, HandInv, LoserFindsWinner, WriteNew
<1>3. (PrivateInv /\ MapInv /\ NoLeak)'
  <2>1. PrivateInv'
    BY SMTT(20), Z3T(20), Constants DEF TypeOK, HandInv, PrivateInv, WriteNew
  <2>2. MapInv'
    BY ZenonT(40), Constants DEF TypeOK, HandInv, PrivateInv, MapInv, NoLeak, WriteNew
  <2>3. NoLeak'
    BY ZenonT(40), Constants DEF TypeOK, HandInv, PrivateInv, MapInv, NoLeak, WriteNew
  <2>. QED  BY Zenon, <2>1, <2>2, <2>3
<1>4. (IdInv /\ LiveInv)'
  <2>1. IdInv'
    BY SMTT(20), Z3T(20), Constants DEF TypeOK, HandInv, IdInv, WriteNew
  <2>2. LiveInv'
    BY SMTT(20), Z3T(20), Constants DEF TypeOK, HandInv, LiveInv, WriteNew
  <2>. QED  BY Zenon, <2>1, <2>2
<1>5. (LockInv /\ CopyInv)'
  <2>1. LockInv'
    BY SMTT(20), Z3T(20), Constants DEF TypeOK, HandInv, LockInv, Locking, WriteNew
  <2>2. CopyInv'
    BY SMTT(20), Z3T(20), Constants DEF TypeOK, HandInv, PrivateInv, IdInv, LiveInv,
       LockInv, Locking, CopyInv, WriteNew
  <2>. QED  BY Zenon, <2>1, <2>2
<1>6. CleanIsOnDisk'
  BY SMTT(20), Z3T(20), Constants, CleanKept
     DEF TypeOK, HandInv, PrivateInv, MapInv, IdInv, CopyInv,
     WriteNew
<1>. QED
  BY Zenon, <1>1, <1>2, <1>3, <1>4, <1>5, <1>6 DEF IInv

\* kds_buf_register_frame inserts a copy that agrees with the disk.
LEMMA RegisterStep ==
    ASSUME IInv, NEW t \in Threads, Register(t)
    PROVE  IInv'
<1>. /\ TypeOK /\ HandInv /\ PrivateInv /\ MapInv /\ NoLeak /\ IdInv /\ LiveInv
     /\ LockInv /\ CopyInv /\ CleanIsOnDisk /\ LoserFindsWinner
  BY Zenon DEF IInv
<1>1. TypeOK'
  BY ZenonT(20), Constants DEF TypeOK, HandInv, PCs, States, Register
<1>2. (HandInv /\ LoserFindsWinner)'
  <2>1. HandInv'
    BY SMTT(20), Z3T(20), Constants DEF TypeOK, HandInv, Register
  <2>2. LoserFindsWinner'
    BY ZenonT(40), Constants DEF TypeOK, HandInv, LoserFindsWinner, Register
  <2>. QED  BY ZenonT(20), <2>1, <2>2
<1>3. (PrivateInv /\ MapInv /\ NoLeak)'
  <2>1. PrivateInv'
    BY SMTT(20), Z3T(20), Constants DEF TypeOK, HandInv, PrivateInv, Register
  <2>2. MapInv'
    BY SMTT(20), Z3T(20), Constants DEF TypeOK, HandInv, PrivateInv, MapInv, NoLeak,
       Register
  <2>3. NoLeak'
    BY SMTT(20), Z3T(20), Constants DEF TypeOK, HandInv, NoLeak, Register
  <2>. QED  BY Zenon, <2>1, <2>2, <2>3
<1>4. (IdInv /\ LiveInv)'
  <2>1. IdInv'
    BY SMTT(20), Z3T(20), Constants DEF TypeOK, HandInv, IdInv, Register
  <2>2. LiveInv'
    BY SMTT(20), Z3T(20), Constants DEF TypeOK, HandInv, IdInv, LiveInv, Register
  <2>. QED  BY Zenon, <2>1, <2>2
<1>5. (LockInv /\ CopyInv)'
  <2>1. LockInv'
    BY SMTT(20), Z3T(20), Constants DEF TypeOK, HandInv, LockInv, Locking, Register
  <2>2. CopyInv'
    BY SMTT(20), Z3T(20), Constants DEF TypeOK, HandInv, Locking, CopyInv, Register
  <2>. QED  BY Zenon, <2>1, <2>2
<1>6. CleanIsOnDisk'
  BY SMTT(20), Z3T(20), Constants, CleanKept
     DEF TypeOK, HandInv, PrivateInv, MapInv, CopyInv, Register
<1>. QED
  BY Zenon, <1>1, <1>2, <1>3, <1>4, <1>5, <1>6 DEF IInv

\* kds_buf_register_frame then marks the frame VALID and pins it.
LEMMA PublishStep ==
    ASSUME IInv, NEW t \in Threads, Publish(t)
    PROVE  IInv'
<1>. /\ TypeOK /\ HandInv /\ PrivateInv /\ MapInv /\ NoLeak /\ IdInv /\ LiveInv
     /\ LockInv /\ CopyInv /\ CleanIsOnDisk /\ LoserFindsWinner
  BY Zenon DEF IInv
<1>1. TypeOK'
  BY Constants DEF TypeOK, HandInv, PCs, States, Publish
<1>2. (HandInv /\ LoserFindsWinner)'
  BY ZenonT(60), Constants DEF TypeOK, HandInv, LoserFindsWinner, Publish
<1>3. (PrivateInv /\ MapInv /\ NoLeak)'
  BY Constants DEF TypeOK, HandInv, PrivateInv, MapInv, NoLeak, Publish
<1>4. (IdInv /\ LiveInv)'
  <2>1. IdInv'
    BY SMTT(20), Z3T(20), Constants DEF TypeOK, HandInv, IdInv, Publish
  <2>2. LiveInv'
    BY SMTT(20), Z3T(20), Constants DEF TypeOK, HandInv, LiveInv, Publish
  <2>. QED  BY Zenon, <2>1, <2>2
<1>5. (LockInv /\ CopyInv)'
  <2>1. LockInv'
    BY SMTT(20), Z3T(20), Constants DEF TypeOK, HandInv, LockInv, Locking, Publish
  <2>2. CopyInv'
    BY SMTT(20), Z3T(20), Constants DEF TypeOK, HandInv, Locking, CopyInv, Publish
  <2>. QED  BY Zenon, <2>1, <2>2
<1>6. CleanIsOnDisk'
  BY Constants, CleanKept DEF TypeOK, HandInv, PrivateInv, MapInv, CopyInv, Publish
<1>. QED
  BY Zenon, <1>1, <1>2, <1>3, <1>4, <1>5, <1>6 DEF IInv

(* A call that stays between its pin and its unpin, and touches neither    *)
(* list nor map, keeps what the other calls rely on.                       *)
LEMMA HandsKept ==
    ASSUME PrivateInv, MapInv, NoLeak, IdInv, LiveInv,
           UNCHANGED <<state, fpage, free, map, issued, op, want, fr>>,
           \A b \in Actors : \/ pc'[b] = pc[b]
                             \/ /\ pc[b] \in {"using", "writing", "io", "clean"}
                                /\ pc'[b] \in {"using", "writing", "io", "clean"}
    PROVE  PrivateInv' /\ MapInv' /\ NoLeak' /\ IdInv' /\ LiveInv'
<1>1. \A b \in Actors : Private(b)' <=> Private(b)
  BY ZenonT(40) DEF Private
<1>2. PrivateInv'
  BY ZenonT(40), <1>1 DEF PrivateInv
<1>3. MapInv'
  BY ZenonT(40) DEF MapInv, Mapped
<1>4. NoLeak'
  BY ZenonT(40), <1>1 DEF NoLeak
<1>5. /\ \A b \in Actors : pc'[b] = "write" => pc[b] = "write"
      /\ \A b \in Actors : pc'[b] = "relookup" => pc[b] = "relookup"
  BY ZenonT(40)
<1>6. \A b \in Actors : pc'[b] \in {"take", "fill", "write", "register", "publish", "relookup"}
                        => pc[b] = pc'[b]
  BY ZenonT(40)
<1>7. IdInv'
  <2>1. \A b \in Actors :
          /\ pc'[b] \in {"take", "fill", "write", "register", "publish", "relookup"} =>
                issued[want[b]] = IF op[b] = "alloc" THEN "pending" ELSE "live"
          /\ pc'[b] \in {"take", "fill", "write", "register"} /\ op[b] = "alloc" =>
                ~Mapped(want[b])
    BY ZenonT(40), <1>6 DEF IdInv
  <2>2. \A b \in Actors : pc'[b] \in {"take", "fill", "write", "register", "publish"}
                          => pc[b] \in {"take", "fill", "write", "register", "publish"}
    BY ZenonT(40), <1>6
  <2>3. \A b, c \in Actors :
          /\ pc'[b] \in {"take", "fill", "write", "register", "publish"}
          /\ pc'[c] \in {"take", "fill", "write", "register", "publish"}
          /\ op[b] = "alloc" /\ op[c] = "alloc" /\ want[b] = want[c]
          => b = c
    BY ZenonT(40), <2>2 DEF IdInv
  <2>4. \A b \in Actors : /\ pc'[b] = "write" => op[b] = "alloc"
                          /\ pc'[b] = "relookup" => op[b] = "load"
    BY ZenonT(40), <1>5 DEF IdInv
  <2>. QED  BY ZenonT(40), <2>1, <2>3, <2>4 DEF IdInv, Mapped
<1>8. LiveInv'
  <2>1. \A b \in Threads : pc'[b] \in {"using", "reading", "writing", "flush", "io", "clean"}
                       => pc[b] \in {"using", "reading", "writing", "flush", "io", "clean"}
    BY ZenonT(40), Constants
  <2>2. \A b \in Threads : pc'[b] \in {"using", "reading", "writing", "flush", "io", "clean"}
                       => issued[want[b]] = "live"
    BY ZenonT(40), <2>1 DEF LiveInv
  <2>. QED  BY ZenonT(40), <2>2 DEF LiveInv, Mapped
<1>. QED  BY Zenon, <1>2, <1>3, <1>4, <1>7, <1>8

\* kds_frame_get_write_ptr and the stores under the content lock.
LEMMA GetWritePtrStep ==
    ASSUME IInv, NEW t \in Threads, NEW v \in Vals, GetWritePtr(t, v)
    PROVE  IInv'
<1>. /\ TypeOK /\ HandInv /\ PrivateInv /\ MapInv /\ NoLeak /\ IdInv /\ LiveInv
     /\ LockInv /\ CopyInv /\ CleanIsOnDisk /\ LoserFindsWinner
  BY Zenon DEF IInv
<1>1. TypeOK'
  BY Zenon, Constants DEF TypeOK, HandInv, PCs, States, GetWritePtr, Lock
<1>2. (HandInv /\ LoserFindsWinner)'
  BY ZenonT(90), Constants DEF TypeOK, HandInv, LoserFindsWinner, GetWritePtr, Lock
<1>3. /\ UNCHANGED <<state, fpage, free, map, issued, op, want, fr>>
      /\ \A b \in Actors : \/ pc'[b] = pc[b]
                           \/ /\ pc[b] \in {"using", "writing", "io", "clean"}
                              /\ pc'[b] \in {"using", "writing", "io", "clean"}
  BY ZenonT(40), Constants DEF TypeOK, GetWritePtr
<1>4. (PrivateInv /\ MapInv /\ NoLeak /\ IdInv /\ LiveInv)'
  BY Zenon, <1>3, HandsKept
<1>5. (LockInv /\ CopyInv)'
  <2>1. LockInv'
    BY SMTT(20), Z3T(20), Constants DEF TypeOK, HandInv, LockInv, Locking, GetWritePtr,
       Lock
  <2>2. CopyInv'
    BY SMTT(20), Z3T(20), Constants DEF TypeOK, HandInv, PrivateInv, IdInv, LiveInv,
       LockInv, Locking, CopyInv, MapInv, GetWritePtr, Lock
  <2>. QED  BY Zenon, <2>1, <2>2
<1>6. CleanIsOnDisk'
  <2>1. \A q \in Pages : fr[t] # map[q] =>
           (CleanFrame(q) => CleanFrame(q)')
    BY Constants DEF TypeOK, HandInv, CleanFrame, GetWritePtr, Lock
  <2>2. \A q \in Pages : fr[t] = map[q] => CleanFrame(q)'
    BY ZenonT(20), Constants DEF TypeOK, HandInv, CleanFrame, GetWritePtr, Lock
  <2>. QED
    BY ZenonT(20), <2>1, <2>2 DEF CleanIsOnDisk
<1>. QED
  BY Zenon, <1>1, <1>2, <1>4, <1>5, <1>6 DEF IInv

\* kds_frame_put_write_ptr marks the frame before it unlocks it.
LEMMA PutWritePtrStep ==
    ASSUME IInv, NEW t \in Threads, PutWritePtr(t)
    PROVE  IInv'
<1>. /\ TypeOK /\ HandInv /\ PrivateInv /\ MapInv /\ NoLeak /\ IdInv /\ LiveInv
     /\ LockInv /\ CopyInv /\ CleanIsOnDisk /\ LoserFindsWinner
  BY Zenon DEF IInv
<1>1. TypeOK'
  BY Zenon, Constants DEF TypeOK, HandInv, PCs, States, PutWritePtr, Unlock
<1>2. (HandInv /\ LoserFindsWinner)'
  BY ZenonT(40), Constants DEF TypeOK, HandInv, LoserFindsWinner, PutWritePtr, Unlock
<1>3. /\ UNCHANGED <<state, fpage, free, map, issued, op, want, fr>>
      /\ \A b \in Actors : \/ pc'[b] = pc[b]
                           \/ /\ pc[b] \in {"using", "writing", "io", "clean"}
                              /\ pc'[b] \in {"using", "writing", "io", "clean"}
  BY ZenonT(40), Constants DEF TypeOK, PutWritePtr
<1>4. (PrivateInv /\ MapInv /\ NoLeak /\ IdInv /\ LiveInv)'
  BY Zenon, <1>3, HandsKept
<1>5. (LockInv /\ CopyInv)'
  BY Constants DEF TypeOK, HandInv, PrivateInv, IdInv, LiveInv, LockInv, Locking, CopyInv,
     PutWritePtr, Unlock
<1>6. CleanIsOnDisk'
  <2>1. \A q \in Pages : fr[t] # map[q] =>
           (CleanFrame(q) => CleanFrame(q)')
    <3>1. /\ map' = map /\ disk' = disk /\ data' = data /\ fr' = fr
          /\ \A b \in Actors : b # t => pc'[b] = pc[b]
      BY Zenon DEF TypeOK, PutWritePtr
    <3>2. \A g \in Frames : g # fr[t] => dirty'[g] = dirty[g]
      BY Zenon DEF TypeOK, PutWritePtr
    <3>3. \A q \in Pages : Mapped(q) => map[q] \in Frames
      BY Zenon DEF TypeOK, Mapped
    <3>4. ASSUME NEW q \in Pages, fr[t] # map[q], CleanFrame(q),
                 (Mapped(q) /\ ~dirty[map[q]])'
          PROVE  \/ (disk[q].data = data[map[q]])'
                 \/ \E a \in Actors : (pc[a] = "writing" /\ fr[a] = map[q])'
      <4>1. Mapped(q) /\ ~dirty[map[q]]
        BY Zenon, <3>1, <3>2, <3>3, <3>4 DEF Mapped
      <4>2. CASE disk[q].data = data[map[q]]
        BY Zenon, <3>1, <4>2
      <4>3. ASSUME NEW a \in Actors, pc[a] = "writing", fr[a] = map[q]
            PROVE  (pc[a] = "writing" /\ fr[a] = map[q])'
        BY ZenonT(20), <3>1, <3>4, <4>3
      <4>. QED  BY Zenon, <3>4, <4>1, <4>2, <4>3 DEF CleanFrame
    <3>. QED  BY Zenon, <3>4 DEF CleanFrame
  <2>2. \A q \in Pages : fr[t] = map[q] => CleanFrame(q)'
    BY Constants DEF TypeOK, HandInv, CleanFrame, PutWritePtr, Unlock
  <2>. QED
    BY ZenonT(20), <2>1, <2>2 DEF CleanIsOnDisk
<1>. QED
  BY Zenon, <1>1, <1>2, <1>4, <1>5, <1>6 DEF IInv

\* kds_frame_flush writes the frame under its lock.
LEMMA FlushWriteStep ==
    ASSUME IInv, NEW a \in Actors, FlushWrite(a)
    PROVE  IInv'
<1>. /\ TypeOK /\ HandInv /\ PrivateInv /\ MapInv /\ NoLeak /\ IdInv /\ LiveInv
     /\ LockInv /\ CopyInv /\ CleanIsOnDisk /\ LoserFindsWinner
  BY ZenonT(20) DEF IInv
<1>a. /\ fr[a] \in Frames /\ want[a] \in Pages
      /\ map[want[a]] = fr[a] /\ fpage[fr[a]] = want[a]
  BY Constants DEF TypeOK, HandInv, MapInv, FlushWrite
<1>0. disk' = [disk EXCEPT ![want[a]] = [data |-> data[fr[a]], dirty |-> dirty[fr[a]]]]
  BY ZenonT(20), <1>a DEF FlushWrite
<1>1. TypeOK'
  BY Constants, <1>a, <1>0 DEF TypeOK, HandInv, PCs, States, FlushWrite
<1>2. (HandInv /\ LoserFindsWinner)'
  BY ZenonT(60), Constants DEF TypeOK, HandInv, LoserFindsWinner, FlushWrite
<1>3. /\ UNCHANGED <<state, fpage, free, map, issued, op, want, fr>>
      /\ \A b \in Actors : \/ pc'[b] = pc[b]
                           \/ /\ pc[b] \in {"using", "writing", "io", "clean"}
                              /\ pc'[b] \in {"using", "writing", "io", "clean"}
  BY ZenonT(40) DEF TypeOK, FlushWrite, frameVars
<1>4. (PrivateInv /\ MapInv /\ NoLeak /\ IdInv /\ LiveInv)'
  BY Zenon, <1>3, HandsKept
<1>5. (LockInv /\ CopyInv)'
  BY SMTT(20), Z3T(20), Constants, <1>a, <1>0
     DEF TypeOK, HandInv, PrivateInv, IdInv, LiveInv, LockInv,
     Locking, CopyInv, FlushWrite
<1>6. CleanIsOnDisk'
  BY SMTT(20), Z3T(20), Constants, <1>a, <1>0, CleanKept
     DEF TypeOK, HandInv, PrivateInv, MapInv, CopyInv,
     FlushWrite
<1>. QED
  BY Zenon, <1>1, <1>2, <1>4, <1>5, <1>6 DEF IInv

\* kds_frame_flush clears DIRTY before it drops the lock.
LEMMA FlushCleanStep ==
    ASSUME IInv, NEW a \in Actors, FlushClean(a)
    PROVE  IInv'
<1>. /\ TypeOK /\ HandInv /\ PrivateInv /\ MapInv /\ NoLeak /\ IdInv /\ LiveInv
     /\ LockInv /\ CopyInv /\ CleanIsOnDisk /\ LoserFindsWinner
  BY Zenon DEF IInv
<1>1. TypeOK'
  BY Zenon, Constants DEF TypeOK, HandInv, PCs, States, FlushClean, Unlock
<1>2. (HandInv /\ LoserFindsWinner)'
  BY ZenonT(60), Constants DEF TypeOK, HandInv, LoserFindsWinner, FlushClean, Unlock
<1>3. /\ UNCHANGED <<state, fpage, free, map, issued, op, want, fr>>
      /\ \A b \in Actors : \/ pc'[b] = pc[b]
                           \/ /\ pc[b] \in {"using", "writing", "io", "clean"}
                              /\ pc'[b] \in {"using", "writing", "io", "clean"}
  BY ZenonT(40) DEF TypeOK, FlushClean
<1>4. (PrivateInv /\ MapInv /\ NoLeak /\ IdInv /\ LiveInv)'
  BY Zenon, <1>3, HandsKept
<1>5. (LockInv /\ CopyInv)'
  <2>1. LockInv'
    BY SMTT(20), Z3T(20), Constants DEF TypeOK, HandInv, LockInv, Locking, FlushClean,
       Unlock
  <2>2. CopyInv'
    BY SMTT(20), Z3T(20), Constants DEF TypeOK, HandInv, Locking, CopyInv, FlushClean,
       Unlock
  <2>. QED  BY ZenonT(20), <2>1, <2>2
<1>6. CleanIsOnDisk'
  BY Constants, CleanKept DEF TypeOK, HandInv, PrivateInv, MapInv, CopyInv, FlushClean,
     Unlock
<1>. QED
  BY Zenon, <1>1, <1>2, <1>4, <1>5, <1>6 DEF IInv

-----------------------------------------------------------------------------
\* The functions the actors' state is kept in.
LEMMA ActorTypes ==
    ASSUME TypeOK
    PROVE  /\ pc \in [Actors -> PCs] /\ op \in [Actors -> {"load", "alloc"}]
           /\ want \in [Actors -> Pages \cup {NoPage}]
           /\ fr \in [Actors -> Frames \cup {NoFrame}]
           /\ \A a \in Actors : /\ op = [op EXCEPT ![a] = op[a]]
                                /\ want = [want EXCEPT ![a] = want[a]]
                                /\ fr = [fr EXCEPT ![a] = fr[a]]
BY ZenonT(20) DEF TypeOK

\* Another actor's lock survives a pin, a lock of a free one, and an unlock.
LEMMA LocksKept ==
    ASSUME TypeOK, HandInv, LockInv, NEW a \in Actors, NEW x,
           lock' = [lock EXCEPT ![fr[a]] = x], Holding(a),
           lock[fr[a]] \in {NoLock, a}
    PROVE  \A b \in Actors \ {a} : Locking(b) => lock'[fr[b]] = b
BY SMTT(20), Z3T(20), Constants DEF TypeOK, HandInv, LockInv, Locking

\* A pin or an unpin keeps the type of the counts.
LEMMA CountsKept ==
    ASSUME TypeOK, NEW f \in Frames,
           \/ refcnt' = [refcnt EXCEPT ![f] = @ + 1]
           \/ refcnt' = [refcnt EXCEPT ![f] = @ - 1]
    PROVE  refcnt' \in [Frames -> Int]
BY DEF TypeOK

\* The pins of kds_buf_lookup_or_load and kds_buf_alloc_new.
LEMMA HitStep ==
    ASSUME IInv, NEW t \in Threads, NEW p \in Pages,
           LookupHit(t, p) \/ AllocHit(t, p) \/ (Relookup(t) /\ p = want[t])
    PROVE  IInv'
<1>. TypeOK /\ HandInv /\ IdInv /\ LockInv /\ LoserFindsWinner
  BY Zenon DEF IInv
<1>1. t \in Actors /\ t # Ckpt /\ op[t] \in {"load", "alloc"} /\ Mapped(p)
  BY Zenon, Constants DEF TypeOK, LookupHit, AllocHit, Relookup, LoserFindsWinner
<1>2. map[p] \in Frames
  BY <1>1 DEF TypeOK
<1>3. PICK l \in {"using", "reject"}, o \in {"load", "alloc"} :
        /\ pc' = [pc EXCEPT ![t] = l] /\ op' = [op EXCEPT ![t] = o]
        /\ want' = [want EXCEPT ![t] = p] /\ fr' = [fr EXCEPT ![t] = map[p]]
        /\ refcnt' = [refcnt EXCEPT ![map[p]] = @ + 1]
        /\ pc[t] \in {"idle", "relookup"}
        /\ l = "using" => issued[p] = "live"
        /\ UNCHANGED <<state, fpage, data, dirty, lock, free, map, disk, issued, next>>
  <2>1. CASE LookupHit(t, p)
    BY Zenon, <2>1 DEF LookupHit, Hit
  <2>2. CASE AllocHit(t, p)
    BY Zenon, <2>2 DEF AllocHit
  <2>3. CASE Relookup(t) /\ p = want[t]
    <3>1. issued[p] = "live"
      BY Zenon, <1>1, <2>3 DEF Relookup, IdInv
    <3>2. op' = [op EXCEPT ![t] = op[t]] /\ want' = [want EXCEPT ![t] = want[t]]
      BY Zenon, <1>1, <2>3, ActorTypes DEF Relookup
    <3>. QED
      BY Zenon, <1>1, <2>3, <3>1, <3>2 DEF Relookup, Hit
  <2>. QED
    BY Zenon, <2>1, <2>2, <2>3
<1>4. refcnt' \in [Frames -> Int] /\ lock' \in [Frames -> Actors \cup {NoLock}]
      /\ next' \in 0..NFrames
  BY Zenon, <1>2, <1>3, CountsKept DEF TypeOK
<1>5. Handles(t, l, o, p, map[p])
  BY Zenon, <1>3, <1>4 DEF Handles
<1>6. Entitled(t, l, o, p, map[p])
  BY Zenon, <1>1, <1>2, <1>3 DEF Entitled, HandInv, LockInv
<1>. QED
  BY Zenon, <1>1, <1>5, <1>6, HandStep

\* kds_buf_unpin drops a pin that was counted.
LEMMA UnpinStep ==
    ASSUME IInv, NEW t \in Threads, Unpin(t)
    PROVE  IInv'
<1>. TypeOK /\ HandInv /\ LockInv
  BY Zenon DEF IInv
<1>1. t \in Actors /\ t # Ckpt /\ op[t] \in {"load", "alloc"} /\ fr[t] \in Frames
      /\ want[t] \in Pages
  BY Zenon, Constants DEF TypeOK, Unpin, HandInv
<1>2. refcnt' \in [Frames -> Int] /\ lock' \in [Frames -> Actors \cup {NoLock}]
      /\ next' \in 0..NFrames
  BY Zenon, <1>1, CountsKept DEF TypeOK, Unpin
<1>3. Handles(t, "idle", op[t], want[t], NoFrame)
  BY Zenon, <1>1, <1>2, ActorTypes DEF Handles, Unpin
<1>4. Entitled(t, "idle", op[t], want[t], NoFrame)
  BY Zenon, <1>1 DEF Entitled, HandInv, LockInv, Unpin
<1>. QED
  BY Zenon, <1>1, <1>3, <1>4, HandStep

(* kds_frame_get_read_ptr, kds_frame_put_read_ptr and the calls and locks  *)
(* of kds_frame_flush that leave the frame alone.                          *)
LEMMA HeldStep ==
    ASSUME IInv, NEW a \in Actors,
           \/ a \in Threads /\ (GetReadPtr(a) \/ PutReadPtr(a) \/ FlushStart(a))
           \/ FlushLock(a) \/ FlushSkip(a)
    PROVE  IInv'
<1>. TypeOK /\ HandInv /\ LiveInv /\ LockInv
  BY Zenon DEF IInv
<1>1. Holding(a)
  BY Zenon DEF GetReadPtr, PutReadPtr, FlushStart, FlushLock, FlushSkip
<1>2. op[a] \in {"load", "alloc"} /\ want[a] \in Pages /\ fr[a] \in Frames
      /\ map[want[a]] = fr[a]
  BY Zenon, <1>1 DEF TypeOK, HandInv
<1>3. PICK l \in {"using", "reading", "flush", "io"} :
        /\ pc[a] \in {"using", "reading", "flush"} /\ pc' = [pc EXCEPT ![a] = l]
        /\ UNCHANGED <<state, fpage, data, dirty, refcnt, free, map, disk, issued,
                       op, want, fr, next>>
        /\ \/ lock' = lock /\ l \in {"using", "flush"}
           \/ Lock(a) /\ l \in {"reading", "io"}
           \/ pc[a] = "reading" /\ Unlock(a) /\ l = "using"
        /\ l = "reading" => a \in Threads
  BY Zenon DEF GetReadPtr, PutReadPtr, FlushStart, FlushLock, FlushSkip
<1>4. /\ lock' \in [Frames -> Actors \cup {NoLock}]
      /\ l \in {"reading", "io"} => lock'[fr[a]] = a
  BY <1>2, <1>3, Constants DEF Lock, Unlock, TypeOK
<1>5. \A b \in Actors \ {a} : Locking(b) => lock'[fr[b]] = b
  <2>1. CASE lock' = lock
    BY Zenon, <2>1 DEF LockInv
  <2>2. CASE Lock(a)
    BY Zenon, <1>1, <2>2, LocksKept DEF Lock
  <2>3. CASE pc[a] = "reading" /\ Unlock(a)
    BY Zenon, <1>1, <2>3, LocksKept DEF Unlock, LockInv, Locking
  <2>. QED
    BY Zenon, <1>3, <2>1, <2>2, <2>3
<1>6. Handles(a, l, op[a], want[a], fr[a])
  BY Zenon, <1>3, <1>4, ActorTypes DEF Handles, TypeOK
<1>7. a # Ckpt => a \in Threads
  BY Zenon DEF Actors
<1>8. Entitled(a, l, op[a], want[a], fr[a])
  BY Zenon, <1>2, <1>3, <1>4, <1>5, <1>7, Constants DEF Entitled, HandInv, LiveInv
<1>. QED
  BY Zenon, <1>6, <1>8, HandStep

\* kds_buf_flush_dirty_frames: the pass pins no frame but a mapped one.
LEMMA PassStep ==
    ASSUME IInv, Pass
    PROVE  IInv'
<1>. TypeOK /\ HandInv /\ LockInv /\ NoLeak /\ PrivateInv
  BY Zenon DEF IInv
<1>1. op[Ckpt] \in {"load", "alloc"} /\ want[Ckpt] \in Pages \cup {NoPage}
      /\ fr[Ckpt] \in Frames \cup {NoFrame} /\ Ckpt \in Actors
  BY Zenon, Constants DEF TypeOK
<1>2. CASE PassStart
  <2>1. next' \in 0..NFrames /\ next' \in Frames
    BY <1>2, PageMgrAssumption DEF PassStart, Frames
  <2>2. Handles(Ckpt, "scan", op[Ckpt], want[Ckpt], fr[Ckpt])
    BY Zenon, <1>1, <1>2, <2>1, ActorTypes DEF Handles, PassStart, TypeOK
  <2>3. Entitled(Ckpt, "scan", op[Ckpt], want[Ckpt], fr[Ckpt])
    BY Zenon, <1>1, <1>2, <2>1 DEF Entitled, PassStart, LockInv
  <2>. QED
    BY Zenon, <1>1, <2>2, <2>3, HandStep
<1>3. CASE PassPin
  <2>1. next \in Frames /\ next \notin free /\ fpage[next] \in Pages /\ map[fpage[next]] = next
    BY ZenonT(40), <1>3, Constants DEF PassPin, Due, HandInv, NoLeak, PrivateInv
  <2>2. refcnt' \in [Frames -> Int]
    BY Zenon, <1>3, <2>1, CountsKept DEF PassPin
  <2>3. Handles(Ckpt, "flush", op[Ckpt], fpage[next], next)
    BY Zenon, <1>1, <1>3, <2>2, ActorTypes DEF Handles, PassPin, TypeOK
  <2>4. Entitled(Ckpt, "flush", op[Ckpt], fpage[next], next)
    BY Zenon, <1>1, <1>3, <2>1 DEF Entitled, PassPin, LockInv
  <2>. QED
    BY Zenon, <1>1, <2>3, <2>4, HandStep
<1>4. CASE PassSkip \/ PassUnpin
  <2>1. next \in Frames /\ Advance /\ pc[Ckpt] \in {"scan", "using"}
    BY Zenon, <1>4 DEF HandInv, PassSkip, PassUnpin
  <2>2. PICK l \in {"idle", "scan"} :
          /\ pc' = [pc EXCEPT ![Ckpt] = l]
          /\ next' \in 0..NFrames
          /\ l = "scan" => next' \in Frames
    BY Zenon, <2>1, AdvanceMoves
  <2>3. pc[Ckpt] = "using" => fr[Ckpt] \in Frames
    BY Zenon, <1>1 DEF HandInv
  <2>4. PICK f \in {fr[Ckpt], NoFrame} : fr' = [fr EXCEPT ![Ckpt] = f]
    BY Zenon, <1>1, <1>4, ActorTypes DEF PassSkip, PassUnpin
  <2>5. refcnt' \in [Frames -> Int]
    BY Zenon, <1>4, <2>3, CountsKept DEF PassSkip, PassUnpin, TypeOK
  <2>6. Handles(Ckpt, l, op[Ckpt], want[Ckpt], f)
    <3>1. /\ UNCHANGED <<state, fpage, data, dirty, lock, free, map, disk, issued, op, want>>
      BY Zenon, <1>4 DEF PassSkip, PassUnpin
    <3>. QED
      BY Zenon, <1>1, <2>1, <2>2, <2>4, <2>5, <3>1, ActorTypes DEF Handles, TypeOK
  <2>7. Entitled(Ckpt, l, op[Ckpt], want[Ckpt], f)
    <3>1. lock' = lock
      BY Zenon, <1>4 DEF PassSkip, PassUnpin
    <3>. QED
      BY Zenon, <1>1, <2>2, <2>4, <3>1 DEF Entitled, LockInv
  <2>. QED
    BY Zenon, <1>1, <2>6, <2>7, HandStep
<1>. QED
  BY Zenon, <1>2, <1>3, <1>4 DEF Pass

\* A call begins on a miss, fills its frame, or leaves by an error exit.
LEMMA LoadStep ==
    ASSUME IInv, NEW t \in Threads,
           \/ \E p \in Pages : LookupMiss(t, p) \/ AllocMiss(t, p)
           \/ ReadFromDisk(t) \/ ZeroFill(t)
           \/ FillFails(t) \/ RegisterExists(t) \/ RegisterFails(t)
    PROVE  IInv'
<1>. TypeOK /\ HandInv
  BY Zenon DEF IInv
<1>1. ASSUME NEW p \in Pages, LookupMiss(t, p) PROVE IInv'
  <2>1. issued' = [issued EXCEPT ![p] = "live"]
    BY Zenon, <1>1 DEF LookupMiss, TypeOK
  <2>2. Begins(t, p, "load")
    BY Zenon, <1>1, <2>1 DEF LookupMiss, Begins
  <2>. QED
    BY Zenon, <2>2, BeginStep
<1>2. ASSUME NEW p \in Pages, AllocMiss(t, p) PROVE IInv'
  <2>1. Begins(t, p, "alloc")
    BY Zenon, <1>2 DEF AllocMiss, Begins
  <2>. QED
    BY Zenon, <2>1, BeginStep
<1>3. CASE ReadFromDisk(t)
  <2>1. disk[want[t]].data \in Vals /\ disk[want[t]].dirty \in BOOLEAN
    BY Zenon, <1>3, Constants DEF ReadFromDisk, TypeOK, HandInv
  <2>2. Fills(t, "register", disk[want[t]].data, disk[want[t]].dirty)
    BY Zenon, <1>3, <2>1 DEF ReadFromDisk, Fills
  <2>. QED
    BY Zenon, <2>1, <2>2, FillStep
<1>4. CASE ZeroFill(t)
  <2>1. Zero \in Vals
    BY Zenon, PageMgrAssumption
  <2>2. Fills(t, "write", Zero, TRUE)
    BY Zenon, <1>4 DEF ZeroFill, Fills
  <2>. QED
    BY Zenon, <2>1, <2>2, FillStep
<1>5. CASE FillFails(t) \/ RegisterFails(t)
  <2>1. Exits(t, "idle")
    BY Zenon, <1>5 DEF FillFails, RegisterFails, Exits
  <2>. QED
    BY Zenon, <2>1, ExitStep
<1>6. CASE RegisterExists(t)
  <2>1. Exits(t, IF op[t] = "load" THEN "relookup" ELSE "idle")
    BY Zenon, <1>6 DEF RegisterExists, Exits
  <2>. QED
    BY Zenon, <2>1, ExitStep
<1>. QED
  BY Zenon, <1>1, <1>2, <1>3, <1>4, <1>5, <1>6

-----------------------------------------------------------------------------
\* kds_buf_pool_init establishes the invariant.
LEMMA InitIInv == Init => IInv
<1>. SUFFICES ASSUME Init PROVE IInv
  OBVIOUS
<1>1. TypeOK
  <2>1. PICK content \in [Pages -> Vals] :
          disk = [p \in Pages |-> [data |-> content[p], dirty |-> issued[p] = "live"]]
    BY Zenon DEF Init
  <2>2. disk \in [Pages -> [data : Vals, dirty : BOOLEAN]]
    BY Zenon, <2>1
  <2>3. /\ Zero \in Vals /\ next \in 0..NFrames
        /\ refcnt \in [Frames -> Int]
    BY PageMgrAssumption DEF Init
  <2>. QED
    BY Zenon, <2>2, <2>3 DEF Init, TypeOK, States, PCs
<1>2. HandInv /\ PrivateInv /\ MapInv /\ NoLeak /\ IdInv /\ LiveInv
  BY ZenonT(20), Constants DEF Init, HandInv, PrivateInv, MapInv, NoLeak, IdInv, LiveInv
<1>3. LockInv /\ CopyInv /\ CleanIsOnDisk /\ LoserFindsWinner
  BY Constants DEF Init, LockInv, Locking, CopyInv, CleanIsOnDisk, CleanFrame,
                   LoserFindsWinner
<1>. QED
  BY <1>1, <1>2, <1>3 DEF IInv

\* Every step of every actor preserves it.
LEMMA NextIInv == IInv /\ [Next]_vars => IInv'
<1>. SUFFICES ASSUME IInv, [Next]_vars PROVE IInv'
  OBVIOUS
<1>1. ASSUME NEW t \in Threads, Load(t) \/ Alloc(t)
      PROVE  IInv'
  <2>1. CASE Relookup(t)
    <3>1. want[t] \in Pages
      BY ZenonT(20), <2>1, Constants DEF Relookup, IInv, HandInv
    <3>. QED
      BY Zenon, <2>1, <3>1, HitStep
  <2>2. CASE ~Relookup(t)
    BY Zenon, <1>1, <2>2, HitStep, LoadStep, WriteNewStep DEF Load, Alloc
  <2>. QED
    BY Zenon, <2>1, <2>2
<1>2. ASSUME NEW t \in Threads, GetFrame(t)
      PROVE  IInv'
  BY Zenon, <1>2, TakeStep, TakeFailsStep, LoadStep, RegisterStep, PublishStep DEF GetFrame
<1>3. ASSUME NEW t \in Threads, Use(t)
      PROVE  IInv'
  BY Zenon, <1>3, Constants, HeldStep, GetWritePtrStep, PutWritePtrStep, UnpinStep DEF Use
<1>4. ASSUME NEW a \in Actors, Flush(a)
      PROVE  IInv'
  BY Zenon, <1>4, HeldStep, FlushWriteStep, FlushCleanStep DEF Flush
<1>5. ASSUME Pass
      PROVE  IInv'
  BY Zenon, <1>5, PassStep
<1>6. CASE UNCHANGED vars
  <2>. UNCHANGED <<state, fpage, data, dirty, refcnt, lock, free, map, disk, issued,
                   pc, op, want, fr, next>>
    BY Zenon, <1>6 DEF vars, actorVars
  <2>. /\ TypeOK /\ HandInv /\ PrivateInv /\ MapInv /\ NoLeak /\ IdInv /\ LiveInv
       /\ LockInv /\ CopyInv /\ CleanIsOnDisk /\ LoserFindsWinner
    BY ZenonT(20) DEF IInv
  <2>1. (TypeOK /\ HandInv /\ PrivateInv /\ MapInv /\ NoLeak)'
    BY DEF TypeOK, HandInv, PrivateInv, MapInv, NoLeak
  <2>2. IdInv' /\ LiveInv'
    <3>1. IdInv'
      BY Zenon DEF IdInv
    <3>2. LiveInv'
      BY Zenon DEF LiveInv
    <3>. QED
      BY <3>1, <3>2
  <2>3. (LockInv /\ CopyInv)'
    BY Zenon DEF LockInv, Locking, CopyInv
  <2>4. (CleanIsOnDisk /\ LoserFindsWinner)'
    BY DEF CleanIsOnDisk, CleanFrame, LoserFindsWinner
  <2>. QED
    BY Zenon, <2>1, <2>2, <2>3, <2>4 DEF IInv
<1>. QED
  BY ZenonT(40), <1>1, <1>2, <1>3, <1>4, <1>5, <1>6 DEF Next

(* The inductive invariant holds of the pool whatever the number of threads, *)
(* pages and frames.                                                       *)
THEOREM Invariance == Spec => []IInv
BY InitIInv, NextIInv, PTL DEF Spec

(* Every variable keeps its type.                                          *)
THEOREM TypeCorrect == Spec => []TypeOK
<1>1. IInv => TypeOK
  BY Zenon DEF IInv
<1>. QED
  BY Invariance, <1>1, PTL

(* Two callers of kds_buf_lookup_or_load that ask for one page hold the    *)
(* same frame, the one in the map.                                         *)
THEOREM HandlesCurrent == Spec => []HandleIsCurrent
<1>1. IInv => HandleIsCurrent
  BY Zenon, Constants DEF IInv, HandInv, HandleIsCurrent
<1>. QED
  BY Invariance, <1>1, PTL

(* No exit of the load and allocation paths loses a frame or gives one to  *)
(* two owners.                                                             *)
THEOREM FramesConserved == Spec => []FrameConservation
<1>1. IInv => FrameConservation
  <2>. SUFFICES ASSUME TypeOK, HandInv, PrivateInv, MapInv, NoLeak, NEW f \in Frames
                PROVE  LET fillers == {a \in Actors : Private(a) /\ fr[a] = f}
                           keys == {p \in Pages : map[p] = f}
                       IN  /\ f \in free => fillers = {} /\ keys = {}
                           /\ f \notin free =>
                                 \/ (\E a \in Actors : fillers = {a}) /\ keys = {}
                                 \/ fillers = {} /\ keys = {fpage[f]}
    BY Zenon DEF IInv, FrameConservation
  <2>1. CASE f \in free
    BY SMTT(20), Z3T(20), <2>1, Constants DEF TypeOK, PrivateInv, MapInv
  <2>2. CASE \E a \in Actors : Private(a) /\ fr[a] = f
    BY SMTT(20), Z3T(20), <2>2, Constants DEF TypeOK, PrivateInv, MapInv
  <2>3. CASE f \notin free /\ ~\E a \in Actors : Private(a) /\ fr[a] = f
    BY SMTT(20), Z3T(20), <2>3, Constants DEF TypeOK, NoLeak, MapInv
  <2>. QED
    BY Zenon, <2>1, <2>2, <2>3
<1>. QED
  BY Invariance, <1>1, PTL

(* A frame without DIRTY holds nothing that the disk does not hold, but for *)
(* stores of a writer that still has the content lock.                     *)
THEOREM CleanSaved == Spec => []CleanIsOnDisk
<1>1. IInv => CleanIsOnDisk
  BY DEF IInv
<1>. QED
  BY Invariance, <1>1, PTL

(* The -ENOENT exit of kds_buf_lookup_or_load is never taken.              *)
THEOREM LoserSucceeds == Spec => []LoserFindsWinner
<1>1. IInv => LoserFindsWinner
  BY ZenonT(20) DEF IInv
<1>. QED
  BY Invariance, <1>1, PTL

-----------------------------------------------------------------------------
\* A mapped frame that is not VALID is about to be made so.
PublishInv ==
    \A p \in Pages : Mapped(p) /\ state[map[p]] # "VALID" =>
        \E t \in Threads : pc[t] = "publish" /\ fr[t] = map[p]

\* A step that publishes frames or leaves them alone.
LEMMA PublishKept ==
    ASSUME PublishInv, map' = map,
           \A p \in Pages : Mapped(p) => \/ state'[map[p]] = state[map[p]]
                                         \/ state'[map[p]] = "VALID",
           \A t \in Threads : pc[t] = "publish" =>
               \/ pc'[t] = "publish" /\ fr'[t] = fr[t]
               \/ state'[fr[t]] = "VALID"
    PROVE  PublishInv'
BY DEF PublishInv

\* Every step keeps PublishInv.
LEMMA PublishInvStep ==
    ASSUME IInv, PublishInv, [Next]_vars
    PROVE  PublishInv'
<1>. TypeOK /\ HandInv /\ PrivateInv /\ MapInv
  BY Zenon DEF IInv
<1>1. ASSUME NEW t \in Threads, Register(t) PROVE PublishInv'
  <2>1. t \in Actors /\ want[t] \in Pages /\ pc'[t] = "publish" /\ fr'[t] = fr[t]
    BY Zenon, <1>1, Constants DEF Register, TypeOK, HandInv
  <2>2. \A u \in Threads : pc[u] = "publish" => pc'[u] = "publish" /\ fr'[u] = fr[u]
    BY Zenon, <1>1, Constants DEF Register, TypeOK
  <2>3. map'[want[t]] = fr[t] /\ \A q \in Pages \ {want[t]} : map'[q] = map[q]
    BY Zenon, <1>1, <2>1 DEF Register, TypeOK
  <2>4. state' = state
    BY Zenon, <1>1 DEF Register
  <2>. QED
    BY SMTT(20), Z3T(20), <2>1, <2>2, <2>3, <2>4 DEF PublishInv
<1>2. ASSUME NEW t \in Threads, Publish(t) PROVE PublishInv'
  <2>1. t \in Actors /\ fr[t] \in Frames
    BY Zenon, <1>2, Constants DEF Publish, HandInv
  <2>2. /\ map' = map /\ fr' = fr /\ state'[fr[t]] = "VALID"
        /\ \A u \in Threads \ {t} : pc'[u] = pc[u]
        /\ \A f \in Frames : state'[f] = state[f] \/ state'[f] = "VALID"
    BY Zenon, <1>2, <2>1, Constants DEF Publish, TypeOK
  <2>3. \A p \in Pages : Mapped(p) => map[p] \in Frames
    BY Zenon DEF TypeOK
  <2>. QED
    BY Zenon, <2>2, <2>3, PublishKept
<1>3. ASSUME NEW t \in Threads,
             \/ \E f \in Frames : Take(t, f)
             \/ FillFails(t) \/ RegisterExists(t) \/ RegisterFails(t)
      PROVE  PublishInv'
  <2>1. t \in Actors /\ pc[t] # "publish" /\ map' = map
    BY ZenonT(40), <1>3, Constants DEF Take, FillFails, RegisterExists, RegisterFails
  <2>2. \A u \in Threads \ {t} : pc'[u] = pc[u] /\ fr'[u] = fr[u]
    BY <1>3, Constants DEF Take, FillFails, RegisterExists, RegisterFails, Release, TypeOK
  <2>3. \E f : f \in Frames /\ (\A p \in Pages : map[p] # f)
              /\ \A g \in Frames \ {f} : state'[g] = state[g]
    <3>1. CASE \E f \in Frames : Take(t, f)
      <4>1. PICK f \in Frames : Take(t, f)
        BY Zenon, <3>1
      <4>2. \A p \in Pages : map[p] # f
        BY Zenon, <4>1, Constants DEF Take, MapInv
      <4>. QED
        BY <4>1, <4>2 DEF Take, TypeOK
    <3>2. CASE FillFails(t) \/ RegisterExists(t) \/ RegisterFails(t)
      <4>1. Private(t) /\ Release(t)
        BY Zenon, <3>2 DEF FillFails, RegisterExists, RegisterFails
      <4>2. fr[t] \in Frames /\ \A p \in Pages : map[p] # fr[t]
        BY Zenon, <2>1, <4>1 DEF HandInv, PrivateInv
      <4>. QED
        BY Zenon, <4>1, <4>2 DEF Release, TypeOK
    <3>. QED
      BY ZenonT(40), <1>3, <3>1, <3>2
  <2>4. \A p \in Pages : Mapped(p) => state'[map[p]] = state[map[p]]
    BY Zenon, <2>3 DEF TypeOK
  <2>. QED
    BY Zenon, <2>1, <2>2, <2>4, PublishKept
<1>4. ASSUME state' = state, map' = map,
             \A t \in Threads : pc[t] = "publish" => pc'[t] = "publish" /\ fr'[t] = fr[t]
      PROVE  PublishInv'
  BY ZenonT(20), <1>4, PublishKept
<1>5. ASSUME NEW t \in Threads, Load(t) \/ Alloc(t) \/ TakeFails(t) \/ Use(t)
      PROVE  PublishInv'
  <2>1. t \in Actors /\ pc[t] # "publish" /\ state' = state /\ map' = map
    BY ZenonT(20), <1>5, Constants DEF Load, LookupHit, LookupMiss, ReadFromDisk, Relookup,
       Alloc,
       AllocMiss, AllocHit, ZeroFill, WriteNew, TakeFails, Use, GetReadPtr, PutReadPtr,
       GetWritePtr, PutWritePtr, FlushStart, Unpin
  <2>2. \A u \in Threads \ {t} : pc'[u] = pc[u] /\ fr'[u] = fr[u]
    BY ZenonT(60), <1>5, Constants DEF TypeOK, Load, LookupHit, LookupMiss, ReadFromDisk,
       Relookup, Alloc,
       AllocMiss, AllocHit, ZeroFill, WriteNew, TakeFails, Use, GetReadPtr, PutReadPtr,
       GetWritePtr, PutWritePtr, FlushStart, Unpin, Hit
  <2>. QED
    BY SMTT(20), Z3T(20), <1>4, <2>1, <2>2
<1>6. ASSUME NEW a \in Actors, Flush(a) PROVE PublishInv'
  <2>1. pc[a] # "publish" /\ state' = state /\ map' = map /\ fr' = fr
        /\ \A u \in Actors \ {a} : pc'[u] = pc[u]
    BY ZenonT(40), <1>6 DEF Flush, FlushLock, FlushSkip, FlushWrite, FlushClean, TypeOK
  <2>. QED
    BY <1>4, <2>1, Constants
<1>7. CASE Pass
  <2>1. state' = state /\ map' = map
    BY Zenon, <1>7 DEF Pass, PassStart, PassSkip, PassPin, PassUnpin
  <2>2. \A u \in Threads : pc'[u] = pc[u] /\ fr'[u] = fr[u]
    BY ZenonT(20), <1>7, Constants DEF Pass, PassStart, PassSkip, PassPin, PassUnpin,
       Advance, TypeOK
  <2>. QED
    BY SMTT(20), Z3T(20), <1>4, <2>1, <2>2
<1>8. CASE UNCHANGED vars
  BY <1>4, <1>8 DEF vars, actorVars
<1>. QED
  BY ZenonT(20), <1>1, <1>2, <1>3, <1>5, <1>6, <1>7, <1>8 DEF Next, GetFrame

(* The pass steps over no page that the disk lacks, although it looks at   *)
(* frames without a lock, unless the page is open for writing or just      *)
(* about to become VALID.                                                  *)
THEOREM PassMissesNothing == Spec => PassSkipsOnlySaved
<1>1. Init => PublishInv
  BY Constants DEF Init, PublishInv
<1>2. IInv /\ PublishInv /\ [Next]_vars => PublishInv'
  BY PublishInvStep
<1>3. IInv /\ PublishInv =>
        [PassSkip =>
          \A p \in Pages : map[p] = next =>
              \/ disk[p].data = data[next]
              \/ \E t \in Threads : pc[t] \in {"writing", "publish"} /\ fr[t] = next]_vars
  <2>. SUFFICES ASSUME IInv, PublishInv, PassSkip, NEW p \in Pages, map[p] = next
               PROVE  \/ disk[p].data = data[next]
                      \/ \E t \in Threads : pc[t] \in {"writing", "publish"} /\ fr[t] = next
    OBVIOUS
  <2>. TypeOK /\ HandInv /\ CleanIsOnDisk
    BY DEF IInv
  <2>1. Mapped(p) /\ next \in Frames
    BY Zenon, Constants DEF PassSkip, HandInv
  <2>2. CASE state[next] # "VALID"
    BY <2>1, <2>2 DEF PublishInv
  <2>3. CASE ~ dirty[next]
    <3>1. \/ disk[p].data = data[next]
          \/ \E a \in Actors : pc[a] = "writing" /\ fr[a] = next
      BY ZenonT(20), <2>1, <2>3 DEF CleanIsOnDisk, CleanFrame
    <3>2. \A a \in Actors : pc[a] = "writing" => a \in Threads
      BY DEF HandInv, Actors
    <3>. QED
      BY Zenon, <3>1, <3>2
  <2>. QED
    BY ZenonT(20), <2>2, <2>3 DEF PassSkip, Due
<1>. QED
  BY <1>1, <1>2, <1>3, Invariance, PTL DEF Spec, PassSkipsOnlySaved

-----------------------------------------------------------------------------
\* A step that shows neither in the contents nor in what is open.
LEMMA Stutter ==
    ASSUME \A p \in Pages : Contents(p)' = Contents(p),
           \A u \in Threads : Opened(u)' = Opened(u)
    PROVE  UNCHANGED Store!vars
BY Zenon DEF Store!vars

\* Looking up and loading do not change what a page contains.
LEMMA LoadStutters ==
    ASSUME IInv, NEW t \in Threads, Load(t)
    PROVE  UNCHANGED Store!vars
<1>. TypeOK /\ HandInv /\ PrivateInv
  BY Zenon DEF IInv
<1>1. ASSUME NEW p \in Pages, LookupHit(t, p) \/ LookupMiss(t, p) PROVE UNCHANGED Store!vars
  BY ZenonT(40), <1>1, Constants, Stutter DEF TypeOK, HandInv, Contents, Opened, LookupHit,
     LookupMiss, Hit
<1>2. CASE ReadFromDisk(t)
  <2>1. /\ fr[t] \in Frames /\ t \in Actors /\ pc[t] = "fill" /\ pc'[t] = "register"
        /\ \A q \in Pages : map[q] # fr[t]
    BY ZenonT(40), <1>2, Constants DEF TypeOK, HandInv, PrivateInv, Private, ReadFromDisk
  <2>2. /\ \A u \in Threads : u # t => pc'[u] = pc[u]
        /\ \A g \in Frames : g # fr[t] => data'[g] = data[g]
        /\ UNCHANGED <<map, disk, issued, want>>
    BY ZenonT(40), <1>2, Constants DEF TypeOK, ReadFromDisk
  <2>3. \A q \in Pages : Mapped(q) => map[q] \in Frames
    BY Zenon DEF TypeOK, Mapped
  <2>4. \A u \in Threads : Opened(u)' = Opened(u)
    <3>1. Opened(t)' = Opened(t)
      BY Zenon, <2>1 DEF Opened
    <3>. QED  BY Zenon, <2>2, <3>1 DEF Opened
  <2>5. \A q \in Pages : Contents(q)' = Contents(q)
    BY ZenonT(40), <2>1, <2>2, <2>3 DEF Contents, Mapped
  <2>. QED  BY Zenon, <2>4, <2>5, Stutter
<1>3. CASE Relookup(t)
  BY ZenonT(90), <1>3, Constants, Stutter
     DEF TypeOK, HandInv, Contents, Opened, Relookup, Hit
<1>. QED
  BY Zenon, <1>1, <1>2, <1>3 DEF Load

\* A page that is being allocated is not yet seen.
LEMMA AllocStutters ==
    ASSUME IInv, NEW t \in Threads, Alloc(t)
    PROVE  UNCHANGED Store!vars
<1>. TypeOK /\ HandInv /\ PrivateInv /\ IdInv
  BY Zenon DEF IInv
<1>1. ASSUME NEW p \in Pages, AllocMiss(t, p) \/ AllocHit(t, p) PROVE UNCHANGED Store!vars
  <2>1. /\ pc[t] = "idle" /\ pc'[t] \in {"take", "reject"}
        /\ \A u \in Threads : u # t => pc'[u] = pc[u] /\ want'[u] = want[u]
        /\ UNCHANGED <<map, data, disk>>
        /\ \A q \in Pages : issued'[q] = "live" <=> issued[q] = "live"
    BY ZenonT(20), <1>1, Constants DEF TypeOK, AllocMiss, AllocHit
  <2>2. \A u \in Threads : Opened(u)' = Opened(u)
    BY Zenon, <2>1 DEF Opened
  <2>3. \A q \in Pages : Contents(q)' = Contents(q)
    BY ZenonT(40), <2>1 DEF Contents
  <2>. QED
    BY Zenon, <2>2, <2>3, Stutter
<1>2. CASE ZeroFill(t)
  <2>1. /\ fr[t] \in Frames /\ t \in Actors /\ pc[t] = "fill" /\ pc'[t] = "write"
        /\ \A q \in Pages : map[q] # fr[t]
    BY ZenonT(40), <1>2, Constants DEF TypeOK, HandInv, PrivateInv, Private, ZeroFill
  <2>2. /\ \A u \in Threads : u # t => pc'[u] = pc[u]
        /\ \A g \in Frames : g # fr[t] => data'[g] = data[g]
        /\ UNCHANGED <<map, disk, issued, want>>
    BY ZenonT(40), <1>2, Constants DEF TypeOK, ZeroFill
  <2>3. \A q \in Pages : Mapped(q) => map[q] \in Frames
    BY Zenon DEF TypeOK, Mapped
  <2>4. \A u \in Threads : Opened(u)' = Opened(u)
    <3>1. Opened(t)' = Opened(t)
      BY Zenon, <2>1 DEF Opened
    <3>. QED  BY Zenon, <2>2, <3>1 DEF Opened
  <2>5. \A q \in Pages : Contents(q)' = Contents(q)
    BY ZenonT(40), <2>1, <2>2, <2>3 DEF Contents, Mapped
  <2>. QED  BY Zenon, <2>4, <2>5, Stutter
<1>3. CASE WriteNew(t)
  BY ZenonT(90), <1>3, Constants, Stutter
     DEF TypeOK, HandInv, IdInv, Contents, Opened, WriteNew
<1>. QED
  BY Zenon, <1>1, <1>2, <1>3 DEF Alloc

\* Registration creates an allocated page; errors and lost races do not show.
LEMMA GetFrameRefines ==
    ASSUME IInv, NEW t \in Threads, GetFrame(t)
    PROVE  Store!Next \/ UNCHANGED Store!vars
<1>. TypeOK /\ HandInv /\ PrivateInv /\ IdInv /\ CopyInv
  BY Zenon DEF IInv
<1>1. ASSUME NEW f \in Frames, Take(t, f) PROVE UNCHANGED Store!vars
  BY Zenon, <1>1, Constants, Stutter DEF TypeOK, Contents, Opened, Take
<1>2. CASE TakeFails(t) \/ FillFails(t) \/ RegisterExists(t) \/ RegisterFails(t)
  <2>1. /\ pc[t] \in {"take", "fill", "register"} /\ pc'[t] \in {"idle", "relookup"}
        /\ \A u \in Threads : u # t => pc'[u] = pc[u]
        /\ Burn(t) /\ UNCHANGED <<map, data, disk, want>>
    BY Zenon, <1>2, Constants DEF TypeOK, TakeFails, FillFails, RegisterExists,
       RegisterFails
  <2>2. \A u \in Threads : Opened(u)' = Opened(u)
    BY Zenon, <2>1 DEF Opened
  <2>3. \A p \in Pages : Contents(p)' = Contents(p)
    BY ZenonT(90), <2>1, Constants DEF TypeOK, HandInv, IdInv, Contents, Burn
  <2>. QED
    BY Zenon, <2>2, <2>3, Stutter
<1>3. CASE Register(t)
  <2>1. /\ want[t] \in Pages /\ fr[t] # NoFrame /\ ~Mapped(want[t])
        /\ map'[want[t]] = fr[t] /\ \A q \in Pages \ {want[t]} : map'[q] = map[q]
        /\ pc[t] = "register" /\ pc'[t] = "publish"
        /\ \A u \in Threads \ {t} : pc'[u] = pc[u]
        /\ UNCHANGED <<data, disk, issued, want>>
    BY ZenonT(40), <1>3, Constants DEF TypeOK, HandInv, Register
  <2>2. issued[want[t]] = "live" => data[fr[t]] = disk[want[t]].data
    BY ZenonT(40), <1>3, <2>1, Constants DEF CopyInv, Register
  <2>3. \A q \in Pages : Contents(q)' = Contents(q)
    BY ZenonT(40), <2>1, <2>2 DEF Contents
  <2>4. \A u \in Threads : Opened(u)' = Opened(u)
    BY ZenonT(40), <2>1 DEF Opened
  <2>. QED
    BY Zenon, <2>3, <2>4, Stutter
<1>4. CASE Publish(t) /\ op[t] = "load"
  BY ZenonT(120), <1>4, Constants, Stutter
     DEF TypeOK, HandInv, IdInv, Contents, Opened, Publish
<1>5. CASE Publish(t) /\ op[t] = "alloc"
  <2>1. want[t] \in Pages /\ Contents(want[t]) = Absent /\ Contents(want[t])' = Zero
    <3>1. /\ t \in Actors /\ pc[t] = "publish" /\ op[t] = "alloc"
          /\ UNCHANGED <<map, data, disk, want>>
          /\ issued' = [issued EXCEPT ![want[t]] = "live"]
      BY Zenon, <1>5, Constants DEF Publish
    <3>2. want[t] \in Pages /\ fr[t] \in Frames /\ map[want[t]] = fr[t]
      BY Zenon, <3>1 DEF HandInv
    <3>3. issued[want[t]] = "pending" /\ data[fr[t]] = Zero
      BY Zenon, <3>1 DEF IdInv, CopyInv
    <3>4. issued'[want[t]] = "live"
      BY Zenon, <3>1, <3>2 DEF TypeOK
    <3>5. map'[want[t]] # NoFrame /\ data'[map'[want[t]]] = Zero
      BY Zenon, <3>1, <3>2, <3>3, Constants
    <3>6. Contents(want[t]) = Absent
      BY Zenon, <3>3 DEF Contents
    <3>7. Contents(want[t])' = Zero
      BY Zenon, <3>1, <3>4, <3>5 DEF Contents, Mapped
    <3>. QED  BY Zenon, <3>2, <3>6, <3>7
  <2>2. \A p \in Pages : p # want[t] => Contents(p)' = Contents(p)
    BY Zenon, <1>5, Constants DEF TypeOK, Contents, Publish
  <2>3. \A u \in Threads : Opened(u)' = Opened(u)
    BY Zenon, <1>5, Constants DEF TypeOK, HandInv, Opened, Publish
  <2>4. Store!Create(want[t])
    BY Zenon, <2>1, <2>2, <2>3, <1>5 DEF Store!Create, Publish
  <2>. QED
    BY Zenon, <2>1, <2>4 DEF Store!Next
<1>. QED
  BY Zenon, <1>1, <1>2, <1>3, <1>4, <1>5, Constants DEF GetFrame, TypeOK

\* The pointer calls open and close a page for one thread at a time.
LEMMA UseRefines ==
    ASSUME IInv, NEW t \in Threads, Use(t)
    PROVE  Store!Next \/ UNCHANGED Store!vars
<1>. TypeOK /\ HandInv /\ MapInv /\ LiveInv /\ LockInv
  BY Zenon DEF IInv
<1>1. CASE FlushStart(t) \/ Unpin(t)
  BY ZenonT(60), <1>1, Constants, Stutter
     DEF TypeOK, HandInv, Contents, Opened, FlushStart, Unpin
<1>2. CASE PutReadPtr(t) \/ PutWritePtr(t)
  <2>1. \A p \in Pages : Contents(p)' = Contents(p)
    BY SMTT(20), Z3T(20), <1>2, Constants
       DEF TypeOK, HandInv, Contents, PutReadPtr, PutWritePtr
  <2>2. Opened(t) # << >> /\ Opened(t)' = << >>
    BY ZenonT(40), <1>2, Constants DEF TypeOK, Opened, PutReadPtr, PutWritePtr
  <2>3. \A u \in Threads : u # t => Opened(u)' = Opened(u)
    BY Zenon, <1>2, Constants DEF TypeOK, Opened, PutReadPtr, PutWritePtr
  <2>4. Store!Close(t)
    BY ZenonT(40), <2>1, <2>2, <2>3 DEF Store!Close
  <2>. QED
    BY <2>4 DEF Store!Next
<1>3. ASSUME pc[t] = "using", lock[fr[t]] = NoLock
      PROVE  /\ want[t] \in Pages /\ Opened(t) = << >> /\ Contents(want[t]) # Absent
             /\ \A u \in Threads : Opened(u) \notin {<<"read", want[t]>>, <<"write", want[t]>>}
  <2>1. /\ want[t] \in Pages /\ fr[t] \in Frames /\ map[want[t]] = fr[t]
        /\ issued[want[t]] = "live" /\ t \in Actors
    BY ZenonT(40), <1>3, Constants DEF HandInv, Holding, LiveInv
  <2>2. Opened(t) = << >>
    BY Zenon, <1>3 DEF Opened
  <2>3. Contents(want[t]) # Absent
    <3>1. Mapped(want[t])
      BY Zenon, <2>1, Constants DEF Mapped
    <3>2. data[fr[t]] # Absent
      <4>1. data \in [Frames -> Vals] /\ Absent \notin Vals
        BY Zenon, PageMgrAssumption DEF TypeOK
      <4>2. data[fr[t]] \in Vals
        BY Zenon, <2>1, <4>1
      <4>. QED  BY Zenon, <4>1, <4>2
    <3>. QED  BY Zenon, <2>1, <3>1, <3>2 DEF Contents
  <2>4. ASSUME NEW u \in Threads, Opened(u) \in {<<"read", want[t]>>, <<"write", want[t]>>}
        PROVE  FALSE
    <3>1. pc[u] \in {"reading", "writing"} /\ Opened(u)[2] = want[u]
      BY <2>4 DEF Opened
    <3>2. Opened(u)[2] = want[t]
      BY <2>4
    <3>3. /\ Locking(u) /\ Holding(u) /\ u \in Actors
      BY Zenon, <3>1, Constants DEF Locking, Holding
    <3>4. lock[fr[u]] = u
      BY Zenon, <3>3 DEF LockInv
    <3>5. map[want[u]] = fr[u]
      BY Zenon, <3>3 DEF HandInv
    <3>6. fr[u] = fr[t]
      BY Zenon, <2>1, <3>1, <3>2, <3>5
    <3>. QED  BY Zenon, <1>3, <3>3, <3>4, <3>6, Constants
  <2>. QED  BY Zenon, <2>1, <2>2, <2>3, <2>4
<1>4. CASE GetReadPtr(t)
  <2>1. \A p \in Pages : Contents(p)' = Contents(p)
    BY Zenon, <1>4, Constants DEF TypeOK, HandInv, Contents, GetReadPtr
  <2>2. Opened(t)' = <<"read", want[t]>> /\ \A u \in Threads : u # t => Opened(u)' = Opened(u)
    BY Zenon, <1>4, Constants DEF TypeOK, Opened, GetReadPtr
  <2>3. Store!Read(t, want[t])
    BY Zenon, <1>3, <1>4, <2>1, <2>2 DEF Store!Read, Store!Open, GetReadPtr, Lock
  <2>. QED
    BY Zenon, <1>3, <1>4, <2>3 DEF Store!Next, GetReadPtr, Lock
<1>5. ASSUME NEW v \in Vals, GetWritePtr(t, v)
      PROVE  Store!Next
  <2>1. \A p \in Pages : Contents(p)' = IF p = want[t] THEN v ELSE Contents(p)
    BY <1>5, Constants DEF TypeOK, HandInv, MapInv, LiveInv, Contents, GetWritePtr
  <2>2. Opened(t)' = <<"write", want[t]>> /\ \A u \in Threads : u # t => Opened(u)' = Opened(u)
    BY Zenon, <1>5, Constants DEF TypeOK, Opened, GetWritePtr
  <2>3. Store!Write(t, want[t], v)
    BY Zenon, <1>3, <1>5, <2>1, <2>2 DEF Store!Write, Store!Open, GetWritePtr, Lock
  <2>. QED
    BY ZenonT(40), <1>3, <1>5, <2>3 DEF Store!Next, GetWritePtr, Lock
<1>. QED
  BY Zenon, <1>1, <1>2, <1>4, <1>5 DEF Use

\* Flushing a frame does not change what a page contains.
LEMMA FlushStutters ==
    ASSUME IInv, NEW a \in Actors, Flush(a)
    PROVE  UNCHANGED Store!vars
<1>. TypeOK /\ HandInv /\ MapInv
  BY Zenon DEF IInv
<1>1. CASE FlushLock(a) \/ FlushSkip(a) \/ FlushClean(a)
  BY ZenonT(60), <1>1, Constants, Stutter
     DEF TypeOK, HandInv, Contents, Opened, FlushLock, FlushSkip,
     FlushClean
<1>2. CASE FlushWrite(a)
  <2>1. Mapped(want[a]) /\ fpage[fr[a]] = want[a]
    BY SMTT(20), Z3T(20), <1>2, Constants DEF HandInv, MapInv, FlushWrite
  <2>2. \A p \in Pages : Contents(p)' = Contents(p)
    BY ZenonT(40), <1>2, <2>1 DEF TypeOK, HandInv, Contents, FlushWrite
  <2>3. \A u \in Threads : Opened(u)' = Opened(u)
    BY Zenon, <1>2, Constants DEF TypeOK, Opened, FlushWrite
  <2>. QED
    BY <2>2, <2>3, Stutter
<1>. QED
  BY Zenon, <1>1, <1>2 DEF Flush

\* The pass itself does not show.
LEMMA PassStutters ==
    ASSUME IInv, Pass
    PROVE  UNCHANGED Store!vars
<1>. TypeOK
  BY DEF IInv
<1>. QED
  BY ZenonT(20), Constants, Stutter DEF TypeOK, Contents, Opened, Pass, PassStart,
     PassSkip, PassPin,
     PassUnpin, Advance

(* The buffer pool, with its races, error exits and flushes, implements the *)
(* abstract page store.                                                    *)
THEOREM Refinement == Spec => ImplementsPageStore
<1>1. Init => Store!Init
  <2>. SUFFICES ASSUME Init PROVE Store!Init
    BY Zenon
  <2>1. TypeOK
    BY Zenon, InitIInv DEF IInv
  <2>2. \A p \in Pages : Contents(p) \in Vals \cup {Absent}
    BY Zenon, <2>1 DEF TypeOK, Contents
  <2>3. \A t \in Threads : Opened(t) = << >>
    BY Zenon, Constants DEF Init, Opened
  <2>. QED
    BY Zenon, <2>2, <2>3 DEF Store!Init
<1>2. IInv /\ [Next]_vars => [Store!Next]_(Store!vars)
  <2>. SUFFICES ASSUME IInv, [Next]_vars PROVE Store!Next \/ UNCHANGED Store!vars
    BY Zenon
  <2>1. CASE UNCHANGED vars
    BY Zenon, <2>1, Stutter DEF vars, actorVars, Contents, Opened
  <2>. QED
    BY ZenonT(20), <2>1, LoadStutters, AllocStutters, GetFrameRefines, UseRefines,
       FlushStutters,
       PassStutters DEF Next
<1>. QED
  BY Invariance, <1>1, <1>2, PTL DEF Spec, ImplementsPageStore, Store!Spec

-----------------------------------------------------------------------------
\* The pins of a frame can be counted.
LEMMA HoldersFinite == \A f : IsFiniteSet(Holders(f)) /\ Cardinality(Holders(f)) \in Nat
<1>1. IsFiniteSet(Actors)
  BY Zenon, PageMgrAssumption, FS_AddElement DEF Actors
<1>. QED
  BY Zenon, <1>1, FS_Subset, FS_CardinalityType DEF Holders

\* Nobody has a pin on a frame that is being filled.
LEMMA NoneHold ==
    ASSUME TypeOK, HandInv, PrivateInv, NEW a \in Actors, Private(a)
    PROVE  Cardinality(Holders(fr[a])) = 0
<1>1. Holders(fr[a]) = {}
  <2>1. \A p \in Pages : map[p] # fr[a]
    BY Zenon DEF PrivateInv
  <2>2. \A b \in Actors : Holding(b) => want[b] \in Pages /\ map[want[b]] = fr[b]
    BY Zenon DEF HandInv
  <2>. QED  BY Zenon, <2>1, <2>2 DEF Holders
<1>. QED
  BY ZenonT(40), <1>1, FS_EmptySet

\* One more element.
LEMMA CardAdd ==
    \A S, T, x : IsFiniteSet(S) /\ x \notin S /\ T = S \cup {x} =>
                     Cardinality(T) = Cardinality(S) + 1
BY Zenon, FS_AddElement

\* kds_buf_pin with one more holder.
LEMMA PinAdded ==
    ASSUME TypeOK, PinsAccounted, NEW g \in Frames,
           \A h \in Frames : h # g => Holders(h)' = Holders(h),
           Cardinality(Holders(g)') = Cardinality(Holders(g)) + 1,
           refcnt' = [refcnt EXCEPT ![g] = @ + 1], map' = map
    PROVE  PinsAccounted'
<1>. SUFFICES ASSUME NEW q \in Pages, Mapped(q)
              PROVE  (refcnt[map[q]] = Cardinality(Holders(map[q])))'
  BY Zenon DEF PinsAccounted
<1>1. PICK h \in Frames : h = map[q]
  BY Zenon, Constants DEF TypeOK
<1>2. refcnt[h] = Cardinality(Holders(h)) /\ refcnt[h] \in Int
  BY Zenon, <1>1 DEF TypeOK, PinsAccounted
<1>3. refcnt'[h] = Cardinality(Holders(h)')
  BY Zenon, <1>2 DEF TypeOK
<1>. QED
  BY Zenon, <1>1, <1>3

\* One element less.
LEMMA CardRemove ==
    \A S, T, x : IsFiniteSet(S) /\ x \in S /\ T = S \ {x} =>
                     Cardinality(T) = Cardinality(S) - 1
BY Zenon, FS_RemoveElement

\* kds_buf_unpin with one holder less.
LEMMA PinRemoved ==
    ASSUME TypeOK, PinsAccounted, NEW g \in Frames,
           \A h \in Frames : h # g => Holders(h)' = Holders(h),
           Cardinality(Holders(g)') = Cardinality(Holders(g)) - 1,
           refcnt' = [refcnt EXCEPT ![g] = @ - 1], map' = map
    PROVE  PinsAccounted'
<1>. SUFFICES ASSUME NEW q \in Pages, Mapped(q)
              PROVE  (refcnt[map[q]] = Cardinality(Holders(map[q])))'
  BY Zenon DEF PinsAccounted
<1>1. PICK h \in Frames : h = map[q]
  BY Zenon, Constants DEF TypeOK
<1>2. refcnt[h] = Cardinality(Holders(h)) /\ refcnt[h] \in Int
  BY Zenon, <1>1 DEF TypeOK, PinsAccounted
<1>3. refcnt'[h] = Cardinality(Holders(h)')
  BY Zenon, <1>2 DEF TypeOK
<1>. QED
  BY Zenon, <1>1, <1>3

\* Where a call holds a pin.
Pinned == {"using", "reject", "reading", "writing", "flush", "io", "clean"}

\* A step that moves no hand and no count.
LEMMA QuietPins ==
    ASSUME IInv, PinInv, NEW a \in Actors, NEW l, Goto(a, l),
           refcnt' = refcnt, map' = map, fr' = fr,
           Holding(a) <=> l \in Pinned,
           l \in {"write", "register"} => pc[a] = "write"
    PROVE  PinInv'
<1>1. pc \in [Actors -> PCs]
  BY Zenon DEF IInv, TypeOK
<1>2. \A g : Holders(g)' = Holders(g)
  BY Zenon, <1>1 DEF Holders, Pinned
<1>3. PinsAccounted'
  BY Zenon, <1>2 DEF PinInv, PinsAccounted
<1>. QED
  BY Zenon, <1>1, <1>3 DEF PinInv

\* A step in which a hand without a pin takes a frame or gives it back.
LEMMA HandPins ==
    ASSUME IInv, PinInv, NEW a \in Actors, NEW l, Goto(a, l),
           refcnt' = refcnt, map' = map, NEW x, fr' = [fr EXCEPT ![a] = x],
           ~Holding(a), l \in {"idle", "fill", "relookup"}
    PROVE  PinInv'
<1>1. pc \in [Actors -> PCs] /\ fr \in [Actors -> Frames \cup {NoFrame}]
  BY Zenon DEF IInv, TypeOK
<1>2. \A g : Holders(g)' = Holders(g)
  BY Zenon, <1>1 DEF Holders, Pinned
<1>3. PinsAccounted'
  BY Zenon, <1>2 DEF PinInv, PinsAccounted
<1>. QED
  BY Zenon, <1>1, <1>3 DEF PinInv

\* A struct kds_page is set up with no pins, in a frame that nobody can find.
LEMMA FillPins ==
    ASSUME IInv, PinInv, NEW a \in Actors, NEW l, Goto(a, l),
           refcnt' = [refcnt EXCEPT ![fr[a]] = 0], map' = map, fr' = fr,
           pc[a] = "fill", l \in {"write", "register"}
    PROVE  PinInv'
<1>1. /\ pc \in [Actors -> PCs] /\ refcnt \in [Frames -> Int]
      /\ map \in [Pages -> Frames \cup {NoFrame}]
  BY Zenon DEF IInv, TypeOK
<1>2. \A g : Holders(g)' = Holders(g)
  BY ZenonT(20), <1>1 DEF Holders
<1>3. fr[a] \in Frames /\ \A p \in Pages : map[p] # fr[a]
  BY ZenonT(20) DEF IInv, HandInv, PrivateInv
<1>4. PinsAccounted'
  BY ZenonT(20), <1>1, <1>2, <1>3 DEF PinInv, PinsAccounted
<1>5. \A b \in Actors : pc[b] \in {"write", "register"} => fr[b] \in Frames
  BY ZenonT(20) DEF IInv, HandInv
<1>. QED
  BY ZenonT(20), <1>1, <1>3, <1>4, <1>5 DEF PinInv

\* kds_buf_pin on a frame of the map by an actor without a pin.
LEMMA PinPins ==
    ASSUME IInv, PinInv, NEW a \in Actors, NEW l, Goto(a, l),
           NEW p \in Pages, Mapped(p), ~Holding(a), l \in Pinned,
           refcnt' = [refcnt EXCEPT ![map[p]] = @ + 1], map' = map,
           fr' = [fr EXCEPT ![a] = map[p]]
    PROVE  PinInv'
<1>. DEFINE g == map[p]
<1>1. pc \in [Actors -> PCs] /\ fr \in [Actors -> Frames \cup {NoFrame}] /\ g \in Frames
      /\ refcnt \in [Frames -> Int]
  BY Zenon DEF IInv, TypeOK
<1>2. a \notin Holders(g) /\ Holders(g)' = Holders(g) \cup {a}
  BY Zenon, <1>1 DEF Holders, Pinned
<1>3. \A h \in Frames : h # g => Holders(h)' = Holders(h)
  BY Zenon, <1>1 DEF Holders, Pinned
<1>4. Cardinality(Holders(g)') = Cardinality(Holders(g)) + 1
  BY Zenon, <1>2, HoldersFinite, CardAdd
<1>5. PinsAccounted'
  BY <1>1, <1>3, <1>4, PinAdded, ZenonT(20) DEF PinInv, IInv
<1>6. \A b \in Actors : pc[b] \in {"write", "register"} => fr[b] \in Frames /\ fr[b] # g
  BY ZenonT(20) DEF IInv, HandInv, PrivateInv
<1>. QED
  BY ZenonT(20), <1>1, <1>5, <1>6 DEF PinInv, Pinned

\* kds_buf_unpin by an actor with a pin.
LEMMA UnpinPins ==
    ASSUME IInv, PinInv, NEW a \in Actors, NEW l, Goto(a, l),
           Holding(a), l \in {"idle", "scan"},
           refcnt' = [refcnt EXCEPT ![fr[a]] = @ - 1], map' = map,
           fr' = [fr EXCEPT ![a] = NoFrame]
    PROVE  PinInv'
<1>1. pc \in [Actors -> PCs] /\ fr \in [Actors -> Frames \cup {NoFrame}]
      /\ refcnt \in [Frames -> Int]
  BY Zenon DEF IInv, TypeOK
<1>2. PICK g \in Frames : g = fr[a] /\ want[a] \in Pages /\ map[want[a]] = g
  BY Zenon DEF IInv, HandInv
<1>3. a \in Holders(g) /\ Holders(g)' = Holders(g) \ {a}
  BY Zenon, <1>1, <1>2 DEF Holders, Pinned
<1>4. \A h \in Frames : h # g => Holders(h)' = Holders(h)
  BY Zenon, <1>1, <1>2, Constants DEF Holders, Pinned
<1>5. Cardinality(Holders(g)') = Cardinality(Holders(g)) - 1
  BY ZenonT(20), <1>3, HoldersFinite, CardRemove
<1>6. PinsAccounted'
  BY <1>2, <1>4, <1>5, PinRemoved, ZenonT(60) DEF PinInv, IInv
<1>7. \A b \in Actors : pc[b] \in {"write", "register"} => fr[b] \in Frames /\ fr[b] # g
  <2>1. \A b \in Actors : Private(b) => fr[b] \in Frames /\ \A p \in Pages : map[p] # fr[b]
    BY Zenon DEF IInv, HandInv, PrivateInv
  <2>2. \A b \in Actors : pc[b] \in {"write", "register"} => Private(b)
    BY Zenon DEF Private
  <2>. QED  BY Zenon, <1>2, <2>1, <2>2
<1>. QED
  BY ZenonT(20), <1>1, <1>2, <1>6, <1>7 DEF PinInv

\* kds_buf_register_frame makes a frame visible that nobody has pinned yet.
LEMMA RegisterPins ==
    ASSUME IInv, PinInv, NEW t \in Threads, Register(t)
    PROVE  PinInv'
<1>1. pc \in [Actors -> PCs] /\ map \in [Pages -> Frames \cup {NoFrame}]
  BY Zenon DEF IInv, TypeOK
<1>2. \A g : Holders(g)' = Holders(g)
  BY Zenon, <1>1, Constants DEF Holders, Register
<1>3. t \in Actors /\ refcnt[fr[t]] = Cardinality(Holders(fr[t]))
  BY Zenon, Constants, NoneHold DEF IInv, PinInv, Register
<1>4. PinsAccounted'
  BY ZenonT(20), <1>1, <1>2, <1>3 DEF PinInv, PinsAccounted, Register
<1>. QED
  BY Zenon, <1>1, <1>4, Constants DEF PinInv, Register

\* kds_buf_lookup_or_load: a hit pins, a miss and the read touch no pin.
LEMMA LoadPins ==
    ASSUME IInv, PinInv, NEW t \in Threads, Load(t)
    PROVE  PinInv'
<1>1. ASSUME NEW p \in Pages, LookupHit(t, p)
      PROVE  PinInv'
  BY Zenon, <1>1, PinPins, Constants DEF LookupHit, Hit, Pinned
<1>2. ASSUME NEW p \in Pages, LookupMiss(t, p)
      PROVE  PinInv'
  BY ZenonT(20), <1>2, QuietPins, Constants DEF LookupMiss, Pinned
<1>3. CASE ReadFromDisk(t)
  BY Zenon, <1>3, FillPins, Constants DEF ReadFromDisk
<1>4. CASE Relookup(t)
  <2>1. t \in Actors /\ want[t] \in Pages /\ Mapped(want[t])
    BY ZenonT(40), <1>4, Constants DEF IInv, HandInv, LoserFindsWinner, Relookup
  <2>. QED
    BY ZenonT(20), <1>4, <2>1, PinPins DEF Relookup, Hit, Pinned
<1>. QED
  BY ZenonT(20), <1>1, <1>2, <1>3, <1>4 DEF Load

\* kds_buf_alloc_new: the refusal of a cached id holds a pin for a moment.
LEMMA AllocPins ==
    ASSUME IInv, PinInv, NEW t \in Threads, Alloc(t)
    PROVE  PinInv'
<1>1. ASSUME NEW p \in Pages, AllocHit(t, p)
      PROVE  PinInv'
  BY Zenon, <1>1, PinPins, Constants DEF AllocHit, Pinned
<1>2. ASSUME NEW p \in Pages, AllocMiss(t, p)
      PROVE  PinInv'
  BY Zenon, <1>2, QuietPins, Constants DEF AllocMiss, Pinned
<1>3. CASE ZeroFill(t)
  BY ZenonT(20), <1>3, FillPins, Constants DEF ZeroFill
<1>4. CASE WriteNew(t)
  BY Zenon, <1>4, QuietPins, Constants DEF WriteNew, Pinned
<1>. QED
  BY ZenonT(40), <1>1, <1>2, <1>3, <1>4 DEF Alloc

\* The frame's way from the free list to its registration.
LEMMA GetFramePins ==
    ASSUME IInv, PinInv, NEW t \in Threads, GetFrame(t)
    PROVE  PinInv'
<1>1. ASSUME NEW f \in Frames, Take(t, f)
      PROVE  PinInv'
  <2>1. /\ Goto(t, "fill") /\ refcnt' = refcnt /\ map' = map
        /\ fr' = [fr EXCEPT ![t] = f] /\ ~Holding(t)
    BY Zenon, <1>1 DEF Take
  <2>. QED
    BY Zenon, <2>1, HandPins, Constants
<1>2. CASE TakeFails(t)
  BY Zenon, <1>2, QuietPins, Constants DEF TakeFails, Pinned
<1>3. CASE FillFails(t)
  <2>1. /\ Goto(t, "idle") /\ refcnt' = refcnt /\ map' = map
        /\ fr' = [fr EXCEPT ![t] = NoFrame] /\ ~Holding(t)
    BY Zenon, <1>3 DEF FillFails, Release
  <2>. QED
    BY ZenonT(20), <2>1, HandPins, Constants
<1>4. CASE Publish(t)
  <2>1. t \in Actors /\ want[t] \in Pages /\ Mapped(want[t]) /\ map[want[t]] = fr[t]
    BY ZenonT(60), <1>4, Constants DEF IInv, HandInv, Publish
  <2>2. fr' = [fr EXCEPT ![t] = map[want[t]]]
    BY <1>4, <2>1 DEF IInv, TypeOK, Publish
  <2>. QED
    BY Zenon, <1>4, <2>1, <2>2, PinPins DEF Publish, Pinned
<1>5. CASE RegisterExists(t)
  <2>1. /\ Goto(t, "relookup") \/ Goto(t, "idle")
        /\ refcnt' = refcnt /\ map' = map
        /\ fr' = [fr EXCEPT ![t] = NoFrame] /\ ~Holding(t)
    BY ZenonT(20), <1>5 DEF RegisterExists, Release
  <2>. QED
    BY Zenon, <2>1, HandPins, Constants
<1>6. CASE RegisterFails(t)
  <2>1. /\ Goto(t, "idle") /\ refcnt' = refcnt /\ map' = map
        /\ fr' = [fr EXCEPT ![t] = NoFrame] /\ ~Holding(t)
    BY Zenon, <1>6 DEF RegisterFails, Release
  <2>. QED
    BY Zenon, <2>1, HandPins, Constants
<1>. QED
  BY ZenonT(20), <1>1, <1>2, <1>3, <1>4, <1>5, <1>6, RegisterPins DEF GetFrame

\* The pointers are taken and put with the pin held all along.
LEMMA UsePins ==
    ASSUME IInv, PinInv, NEW t \in Threads, Use(t)
    PROVE  PinInv'
<1>1. CASE GetReadPtr(t)
  BY Zenon, <1>1, QuietPins, Constants DEF GetReadPtr, Pinned
<1>2. CASE PutReadPtr(t)
  BY ZenonT(20), <1>2, QuietPins, Constants DEF PutReadPtr, Pinned
<1>3. ASSUME NEW v \in Vals, GetWritePtr(t, v)
      PROVE  PinInv'
  BY Zenon, <1>3, QuietPins, Constants DEF GetWritePtr, Pinned
<1>4. CASE PutWritePtr(t)
  BY Zenon, <1>4, QuietPins, Constants DEF PutWritePtr, Pinned
<1>5. CASE FlushStart(t)
  BY Zenon, <1>5, QuietPins, Constants DEF FlushStart, Pinned
<1>6. CASE Unpin(t)
  <2>1. Goto(t, "idle") /\ Holding(t)
    BY Zenon, <1>6 DEF Unpin
  <2>. QED
    BY Zenon, <1>6, <2>1, UnpinPins, Constants DEF Unpin
<1>. QED
  BY ZenonT(20), <1>1, <1>2, <1>3, <1>4, <1>5, <1>6 DEF Use

\* kds_frame_flush keeps its caller's pin.
LEMMA FlushPins ==
    ASSUME IInv, PinInv, NEW a \in Actors, Flush(a)
    PROVE  PinInv'
<1>1. CASE FlushLock(a)
  BY Zenon, <1>1, QuietPins DEF FlushLock, Pinned
<1>2. CASE FlushSkip(a)
  BY Zenon, <1>2, QuietPins DEF FlushSkip, Pinned
<1>3. CASE FlushWrite(a)
  BY Zenon, <1>3, QuietPins DEF FlushWrite, Pinned
<1>4. CASE FlushClean(a)
  BY Zenon, <1>4, QuietPins DEF FlushClean, Pinned
<1>. QED
  BY ZenonT(20), <1>1, <1>2, <1>3, <1>4 DEF Flush

\* The pass pins a VALID dirty frame, which is in the map, and unpins it.
LEMMA PassPins ==
    ASSUME IInv, PinInv, Pass
    PROVE  PinInv'
<1>1. CASE PassStart
  BY ZenonT(20), <1>1, QuietPins, Constants DEF PassStart, Pinned
<1>2. CASE PassSkip
  BY ZenonT(20), <1>2, QuietPins, Constants DEF PassSkip, Advance, Pinned
<1>3. CASE PassPin
  <2>1. next \in Frames /\ state[next] = "VALID"
    BY ZenonT(20), <1>3, Constants DEF IInv, HandInv, PassPin, Due
  <2>2. fpage[next] \in Pages /\ map[fpage[next]] = next
    BY Zenon, <2>1 DEF IInv, PrivateInv, NoLeak
  <2>3. Mapped(fpage[next])
    BY ZenonT(20), <2>1, <2>2, Constants
  <2>. QED
    BY ZenonT(20), <1>3, <2>2, <2>3, PinPins, Constants DEF PassPin, Pinned
<1>4. CASE PassUnpin
  <2>1. (Goto(Ckpt, "idle") \/ Goto(Ckpt, "scan")) /\ Holding(Ckpt)
    BY ZenonT(20), <1>4 DEF PassUnpin, Advance
  <2>. QED
    BY Zenon, <1>4, <2>1, UnpinPins, Constants DEF PassUnpin
<1>. QED
  BY ZenonT(20), <1>1, <1>2, <1>3, <1>4 DEF Pass

-----------------------------------------------------------------------------
\* A new pool has no pins.
LEMMA InitPins == Init => PinInv
BY Constants DEF Init, PinInv, PinsAccounted

\* Every step of every actor keeps the count.
LEMMA NextPins == IInv /\ PinInv /\ [Next]_vars => PinInv'
<1>. SUFFICES ASSUME IInv, PinInv, [Next]_vars PROVE PinInv'
  BY Zenon
<1>1. CASE UNCHANGED vars
  BY ZenonT(20), <1>1 DEF vars, actorVars, PinInv, PinsAccounted, Holders
<1>. QED
  BY ZenonT(20), <1>1, LoadPins, AllocPins, GetFramePins, UsePins, FlushPins, PassPins
     DEF Next

(* kp->refcnt is the number of pins held, so that no unpin takes it below  *)
(* zero.                                                                   *)
THEOREM PinsCorrect == Spec => []PinsAccounted
<1>1. PinInv => PinsAccounted
  BY DEF PinInv
<1>. QED
  BY Invariance, InitPins, NextPins, <1>1, PTL DEF Spec

============================================================================
