----------------------------- MODULE PageMgrInv ----------------------------
(* The inductive invariant of PageMgr: what each actor may rely on at each *)
(* point of its call, and how frames, map, locks and ids correspond.       *)
EXTENDS PageMgr

\* The pages and frames in the actors' hands.
HandInv ==
    /\ \A a \in Actors :
          /\ pc[a] \in {"take", "fill", "write", "register", "publish", "relookup"}
                => a # Ckpt /\ want[a] \in Pages
          /\ pc[a] \in {"reading", "writing", "reject"} => a # Ckpt
          /\ pc[a] = "scan" => a = Ckpt
          /\ Private(a) => fr[a] \in Frames /\ fpage[fr[a]] = want[a]
          /\ pc[a] = "publish" => fr[a] \in Frames /\ map[want[a]] = fr[a]
          /\ Holding(a) => want[a] \in Pages /\ fr[a] \in Frames
                           /\ map[want[a]] = fr[a]
    /\ pc[Ckpt] # "idle" => next \in Frames

\* A frame in a hand is in no other hand, not free and not in the map.
PrivateInv ==
    \A a \in Actors : Private(a) =>
        /\ fr[a] \notin free
        /\ state[fr[a]] = "LOADING"
        /\ \A p \in Pages : map[p] # fr[a]
        /\ \A b \in Actors : Private(b) /\ fr[a] = fr[b] => a = b

MapInv ==
    \A p \in Pages : Mapped(p) => fpage[map[p]] = p /\ map[p] \notin free

\* Every frame is free, in a hand, or in the map under its own page id.
NoLeak ==
    \A f \in Frames :
        /\ f \in free => state[f] = "FREE"
        /\ f \notin free =>
              \/ \E a \in Actors : Private(a) /\ fr[a] = f
              \/ fpage[f] \in Pages /\ map[fpage[f]] = f

\* An id in the hand of kds_buf_alloc_new is nobody else's.
IdInv ==
    /\ \A a \in Actors :
          /\ pc[a] = "write" => op[a] = "alloc"
          /\ pc[a] = "relookup" => op[a] = "load"
          /\ pc[a] \in {"take", "fill", "write", "register", "publish", "relookup"} =>
                issued[want[a]] = IF op[a] = "alloc" THEN "pending" ELSE "live"
          /\ pc[a] \in {"take", "fill", "write", "register"} /\ op[a] = "alloc" =>
                ~Mapped(want[a])
    /\ \A a, b \in Actors :
          /\ pc[a] \in {"take", "fill", "write", "register", "publish"}
          /\ pc[b] \in {"take", "fill", "write", "register", "publish"}
          /\ op[a] = "alloc" /\ op[b] = "alloc" /\ want[a] = want[b]
          => a = b

\* A page that is in the map, or open, has an id in use.
LiveInv ==
    /\ \A p \in Pages : Mapped(p) => issued[p] \in {"pending", "live"}
    /\ \A t \in Threads :
          pc[t] \in {"using", "reading", "writing", "flush", "io", "clean"} =>
              issued[want[t]] = "live"

\* The content lock belongs to whoever is between lock and unlock.
LockInv ==
    \A a \in Actors : Locking(a) => lock[fr[a]] = a

\* What a buffer holds before its page is published, and after a flush.
CopyInv ==
    \A a \in Actors :
        /\ pc[a] = "register" =>
              Mapped(want[a]) \/ data[fr[a]] = disk[want[a]].data
        /\ pc[a] = "clean" => data[fr[a]] = disk[want[a]].data
        /\ pc[a] \in {"write", "register", "publish"} /\ op[a] = "alloc" =>
              data[fr[a]] = Zero

(* The whole: what two calls in flight may assume of each other, at every  *)
(* point between two steps of kds_buf_lookup_or_load, kds_buf_alloc_new,   *)
(* kds_frame_flush and the pass. It is kept by every step on its own.      *)
IInv ==
    /\ TypeOK
    /\ HandInv
    /\ PrivateInv
    /\ MapInv
    /\ NoLeak
    /\ IdInv
    /\ LiveInv
    /\ LockInv
    /\ CopyInv
    /\ CleanIsOnDisk
    /\ LoserFindsWinner

\* Pins, from the moment the frame has a struct kds_page. Inductive given IInv.
PinInv ==
    /\ PinsAccounted
    /\ \A a \in Actors : pc[a] \in {"write", "register"} => refcnt[fr[a]] = 0
============================================================================
