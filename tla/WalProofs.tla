----------------------------- MODULE WalProofs ------------------------------
(***************************************************************************)
(* The write-ahead log, for every size of ring and page and every length   *)
(* of record: bytes that a flush has still to read are never overwritten,  *)
(* the LSNs only grow, and ring, pages and checkpointer implement Log.     *)
(***************************************************************************)
EXTENDS Wal, TLAPS

FlushPcs == {"copy", "tail", "grow", "newtail", "reset", "advance"}

(* The flush's snapshot lies between the two offsets, which are at most a  *)
(* ring apart.                                                             *)
RingInv ==
  /\ ring \in [0 .. BufSize - 1 -> Int]
  /\ \A i \in 0 .. BufSize - 1 : -1 <= ring[i] /\ ring[i] < write_off
  /\ write_off \in Nat /\ flush_off \in Nat /\ upto \in Nat
  /\ flush_off <= write_off /\ write_off - flush_off <= BufSize
  /\ upto <= write_off
  /\ pc \in FlushPcs => flush_off <= upto
  /\ pc = "lsn" => flush_off = upto
  /\ UnflushedInRing

\* Offsets less than a ring apart that share a cell are the same.
LEMMA CellsDiffer ==
  ASSUME NEW B \in Nat \ {0}, NEW j \in Nat, NEW k \in Nat, j <= k, k - j < B,
         j % B = k % B
  PROVE  j = k
<1>. DEFINE p == j \div B
            q == k \div B
<1>1. p \in Int /\ q \in Int /\ j = B * p + (j % B) /\ k = B * q + (k % B)
  OBVIOUS
<1>2. j % B \in Int /\ k % B \in Int
  OBVIOUS
<1>. HIDE DEF p, q
<1>3. k - j = B * q - B * p
  <2>1. B * q \in Int /\ B * p \in Int
    BY <1>1
  <2>. QED  BY <1>1, <1>2, <2>1
<1>4. B * q - B * p = B * (q - p)
  BY <1>1
<1>5. ~ (q - p >= 1)
  <2>. SUFFICES ASSUME q - p >= 1 PROVE FALSE
    OBVIOUS
  <2>1. B * (q - p) >= B
    BY <1>1
  <2>. QED  BY <1>3, <1>4, <2>1
<1>6. ~ (q - p <= -1)
  <2>. SUFFICES ASSUME q - p <= -1 PROVE FALSE
    OBVIOUS
  <2>1. B * (q - p) <= - B
    BY <1>1
  <2>. QED  BY <1>3, <1>4, <2>1
<1>7. q = p
  BY <1>1, <1>5, <1>6
<1>. QED  BY <1>3, <1>7, <1>1

\* Every cell is that of some offset of the next ring's length.
LEMMA CellIsMet ==
  ASSUME NEW B \in Nat \ {0}, NEW w \in Nat, NEW i \in 0 .. B - 1
  PROVE  \E k \in w .. w + B - 1 : k % B = i
<1>. DEFINE q == w \div B
            r == w % B
<1>1. q \in Nat /\ r \in 0 .. B - 1 /\ w = B * q + r
  OBVIOUS
<1>. HIDE DEF q, r
<1>2. \A n \in Nat : (B * n + i) % B = i
  OBVIOUS
<1>3. CASE i >= r
  <2>1. B * q + i \in w .. w + B - 1
    <3>1. B * q \in Nat
      BY <1>1
    <3>. QED  BY <1>1, <1>3, <3>1
  <2>. QED  BY ZenonT(20), <1>1, <1>2, <2>1
<1>4. CASE i < r
  <2>1. B * (q + 1) + i \in w .. w + B - 1
    <3>1. B * q \in Nat /\ B * (q + 1) = B * q + B
      BY <1>1
    <3>. QED  BY <1>1, <1>4, <3>1
  <2>2. q + 1 \in Nat
    BY <1>1
  <2>3. (B * (q + 1) + i) % B = i
    BY ZenonT(40), <1>2, <2>2
  <2>. QED  BY <2>1, <2>3
<1>. QED  BY <1>1, <1>3, <1>4

-----------------------------------------------------------------------------
\* kds_wal_append: a record that fits overwrites nothing that is still needed.
LEMMA PutKeeps ==
  ASSUME RingInv, NEW len \in Nat, Put(len)
  PROVE  /\ ring' \in [0 .. BufSize - 1 -> Int]
         /\ \A i \in 0 .. BufSize - 1 : -1 <= ring'[i] /\ ring'[i] < write_off'
         /\ write_off' = write_off + len
         /\ write_off' - flush_off <= BufSize
         /\ \A k \in flush_off .. write_off' - 1 : ring'[k % BufSize] = k
<1>. DEFINE At(i) == CHOOSE k \in write_off .. write_off + BufSize - 1 : k % BufSize = i
<1>0. /\ BufSize \in Nat \ {0} /\ write_off \in Nat /\ flush_off \in Nat
      /\ ring \in [0 .. BufSize - 1 -> Int]
      /\ flush_off <= write_off /\ UnflushedInRing
      /\ \A i \in 0 .. BufSize - 1 : -1 <= ring[i] /\ ring[i] < write_off
  BY WalAssumption DEF RingInv
<1>1. /\ len <= BufSize - (write_off - flush_off)
      /\ write_off' = write_off + len
      /\ ring' = [i \in DOMAIN ring |-> IF At(i) < write_off + len THEN At(i) ELSE ring[i]]
  BY DEF Put, Free, Used
<1>2. ASSUME NEW i \in 0 .. BufSize - 1
      PROVE  At(i) \in write_off .. write_off + BufSize - 1 /\ At(i) % BufSize = i
  <2>1. \E k \in write_off .. write_off + BufSize - 1 : k % BufSize = i
    BY ZenonT(20), <1>0, CellIsMet
  <2>. QED  BY <2>1
<1>. HIDE DEF At
<1>3. /\ ring' \in [0 .. BufSize - 1 -> Int]
      /\ \A i \in 0 .. BufSize - 1 : -1 <= ring'[i] /\ ring'[i] < write_off'
  <2>1. DOMAIN ring = 0 .. BufSize - 1
    BY <1>0
  <2>2. ASSUME NEW i \in 0 .. BufSize - 1 PROVE
          /\ At(i) \in Int /\ At(i) >= -1
          /\ ring[i] \in Int /\ -1 <= ring[i] /\ ring[i] < write_off + len
    <3>1. At(i) \in write_off .. write_off + BufSize - 1
      BY Zenon, <1>2
    <3>2. /\ write_off \in Nat /\ BufSize \in Nat
          /\ ring[i] \in Int /\ -1 <= ring[i] /\ ring[i] < write_off
      BY Zenon, <1>0
    <3>. QED  BY <3>1, <3>2
  <2>. QED  BY SMTT(20), Z3T(20), <1>0, <1>1, <2>1, <2>2
<1>4. ASSUME NEW k \in flush_off .. write_off + len - 1
      PROVE  ring'[k % BufSize] = k
  <2>. DEFINE i == k % BufSize
              K == At(i)
  <2>1. i \in 0 .. BufSize - 1 /\ k \in Nat
    BY <1>0
  <2>2. K \in write_off .. write_off + BufSize - 1 /\ K % BufSize = i
    BY <1>2, <2>1
  <2>3. ring'[i] = IF K < write_off + len THEN K ELSE ring[i]
    BY <1>0, <1>1, <2>1
  <2>4. K \in Nat
    BY <1>0, <2>2
  <2>5. CASE k < write_off
    <3>1. K >= write_off + len
      <4>. SUFFICES ASSUME K < write_off + len PROVE FALSE
        BY <1>0, <2>4
      <4>. HIDE DEF K, i
      <4>1. k <= K /\ K - k < BufSize /\ k # K
        BY <1>0, <1>1, <2>1, <2>2, <2>4, <2>5
      <4>2. k % BufSize = K % BufSize
        BY <2>2 DEF i
      <4>. QED  BY ZenonT(20), <1>0, <2>1, <2>4, <4>1, <4>2, CellsDiffer
    <3>2. ring[i] = k
      <4>1. k \in flush_off .. write_off - 1
        BY <1>0, <2>1, <2>5
      <4>. QED  BY <1>0, <4>1, Zenon DEF UnflushedInRing
    <3>. HIDE DEF K, i
    <3>3. ring'[i] = k
      BY <1>0, <2>3, <2>4, <3>1, <3>2
    <3>. QED  BY <3>3 DEF i
  <2>6. CASE k >= write_off
    <3>. HIDE DEF K, i
    <3>1. k % BufSize = K % BufSize
      BY <2>2 DEF i
    <3>2. k \in write_off .. write_off + BufSize - 1
      BY <1>0, <1>1, <2>1, <2>6
    <3>3. K = k
      <4>1. CASE k <= K
        <5>1. K - k < BufSize
          BY <1>0, <2>2, <2>4, <2>1, <3>2
        <5>. QED  BY ZenonT(20), <1>0, <2>1, <2>4, <3>1, <4>1, <5>1, CellsDiffer
      <4>2. CASE K <= k
        <5>1. k - K < BufSize
          BY <1>0, <2>2, <2>4, <2>1, <3>2
        <5>. QED  BY ZenonT(20), <1>0, <2>1, <2>4, <3>1, <4>2, <5>1, CellsDiffer
      <4>. QED  BY <2>1, <2>4, <4>1, <4>2
    <3>4. K < write_off + len
      BY <1>0, <2>1, <3>3
    <3>5. ring'[i] = k
      BY <2>3, <3>3, <3>4
    <3>. QED  BY <3>5 DEF i
  <2>. QED  BY <1>0, <2>1, <2>5, <2>6
<1>5. write_off' - flush_off <= BufSize
  BY <1>0, <1>1
<1>6. write_off' - 1 = write_off + len - 1
  BY <1>0, <1>1
<1>. QED  BY <1>1, <1>3, <1>4, <1>5, <1>6, Zenon

\* An append, by an executor or for a CHECKPOINT record.
LEMMA AppendStep ==
  ASSUME RingInv, NEW len \in Nat, Put(len), flush_off' = flush_off, upto' = upto,
         pc' \in FlushPcs \union {"lsn"} => pc' = pc
  PROVE  RingInv'
<1>1. /\ ring' \in [0 .. BufSize - 1 -> Int] /\ write_off' = write_off + len
      /\ \A i \in 0 .. BufSize - 1 : -1 <= ring'[i] /\ ring'[i] < write_off'
      /\ write_off' - flush_off <= BufSize
      /\ \A k \in flush_off .. write_off' - 1 : ring'[k % BufSize] = k
  BY PutKeeps
<1>2. UnflushedInRing'
  BY <1>1 DEF UnflushedInRing
<1>3. /\ write_off' \in Nat /\ flush_off' <= write_off' /\ upto' <= write_off'
  BY <1>1 DEF RingInv
<1>4. /\ pc' \in FlushPcs => flush_off' <= upto'
      /\ pc' = "lsn" => flush_off' = upto'
  BY DEF RingInv
<1>. QED  BY <1>1, <1>2, <1>3, <1>4 DEF RingInv

\* The flush only moves flush_off, and only up to its snapshot.
LEMMA FlushSteps ==
  ASSUME RingInv, UNCHANGED <<ring, write_off>>,
         \/ /\ flush_off' = flush_off /\ upto' = upto /\ pc' # "lsn"
            /\ pc' \in FlushPcs => pc \in FlushPcs
         \/ flush_off' = flush_off /\ upto' = write_off /\ pc' # "lsn"
         \/ flush_off' = upto /\ upto' = upto /\ pc = "advance" /\ pc' = "lsn"
  PROVE  RingInv'
<1>1. /\ upto' \in Nat /\ upto' <= write_off /\ flush_off' \in Nat
      /\ flush_off <= flush_off' /\ flush_off' <= write_off
  BY DEF RingInv, FlushPcs
<1>2. /\ pc' \in FlushPcs => flush_off' <= upto'
      /\ pc' = "lsn" => flush_off' = upto'
  BY DEF RingInv, FlushPcs
<1>3. UnflushedInRing'
  <2>1. ASSUME NEW k \in flush_off' .. write_off - 1 PROVE k \in flush_off .. write_off - 1
    BY <1>1 DEF RingInv
  <2>. QED  BY <2>1 DEF RingInv, UnflushedInRing
<1>4. write_off - flush_off' <= BufSize
  <2>1. /\ write_off \in Nat /\ flush_off \in Nat /\ BufSize \in Nat
        /\ write_off - flush_off <= BufSize
    BY WalAssumption DEF RingInv
  <2>2. \A a, b, c, d \in Nat : a - b <= c /\ b <= d => a - d <= c
    OBVIOUS
  <2>. QED  BY ZenonT(20), <1>1, <2>1, <2>2
<1>. QED  BY <1>1, <1>2, <1>3, <1>4 DEF RingInv

\* Every step keeps the ring.
LEMMA RingStep ==
  ASSUME RingInv, [Next]_vars
  PROVE  RingInv'
<1>1. ASSUME NEW len \in 1 .. MaxLen, AppendRecord(len) PROVE RingInv'
  <2>1. len \in Nat /\ Put(len) /\ flush_off' = flush_off /\ upto' = upto /\ pc' = pc
    BY <1>1, WalAssumption DEF AppendRecord, flush
  <2>. QED  BY <2>1, AppendStep
<1>2. CASE CkptAppend
  <2>1. CkptLen \in Nat /\ Put(CkptLen) /\ flush_off' = flush_off /\ upto' = upto
        /\ pc' = "ckptflush"
    BY <1>2, WalAssumption DEF CkptAppend, flush
  <2>. QED  BY <2>1, AppendStep DEF FlushPcs
<1>3. CASE Advance
  <2>1. /\ UNCHANGED <<ring, write_off>> /\ flush_off' = upto /\ upto' = upto
        /\ pc = "advance" /\ pc' = "lsn"
    BY <1>3 DEF Advance, buffer, flush
  <2>. QED  BY <2>1, FlushSteps
<1>4. CASE ProcStart \/ CkptFlush
  <2>1. /\ UNCHANGED <<ring, write_off>> /\ flush_off' = flush_off /\ upto' = write_off
        /\ pc' # "lsn"
    BY <1>4 DEF ProcStart, CkptFlush, FlushStart, buffer
  <2>. QED  BY <2>1, FlushSteps
<1>5. CASE \/ Copy \/ TailUsed \/ Grow \/ GrowFails \/ GrowLate \/ GrowLateFails
           \/ TailPage \/ TailReset
  <2>1. UNCHANGED <<ring, write_off>> /\ flush_off' = flush_off /\ upto' = upto
        /\ pc' # "lsn"
    BY ZenonT(20), <1>5 DEF Copy, TailUsed, Grow, GrowFails, GrowLate, GrowLateFails,
       TailPage,
       TailReset, Loop, buffer, flush
  <2>2. pc \in FlushPcs
    BY ZenonT(40), <1>5
       DEF Copy, TailUsed, Grow, GrowFails, GrowLate, GrowLateFails, TailPage,
       TailReset, FlushPcs
  <2>. QED  BY <2>1, <2>2, FlushSteps
<1>6. CASE SetFlushLsn \/ ProcYields \/ FlushDirtyFrames \/ CkptFull \/ CkptDone
  <2>1. /\ UNCHANGED <<ring, write_off>> /\ flush_off' = flush_off /\ upto' = upto
        /\ pc' \in {"flushed", "idle", "ckpt"}
    BY <1>6 DEF SetFlushLsn, ProcYields, FlushDirtyFrames, CkptFull, CkptDone, buffer,
       flush
  <2>. QED  BY <2>1, FlushSteps DEF FlushPcs
<1>7. CASE UNCHANGED vars
  BY <1>7 DEF vars, buffer, flush, RingInv, UnflushedInRing
<1>. QED
  BY <1>1, <1>2, <1>3, <1>4, <1>5, <1>6, <1>7 DEF Next, Checkpointer, Flush

-----------------------------------------------------------------------------
(* A CHECKPOINT record may still follow without another executor's: there  *)
(* are bytes that a checkpoint's own flush does not cover, or LSNs to say. *)
Owed ==
  \/ pc \in FlushPcs \union {"lsn"} /\ (caller = "proc" \/ upto < write_off)
  \/ pc \in {"flushed", "idle"} /\ flush_off < write_off
  \/ pc = "flushed" /\ caller = "proc" /\ LsnLess(ckpt_lsn, flush_lsn)
  \/ pc = "idle" /\ LsnLess(ckpt_lsn, flush_lsn)
  \/ pc = "ckpt"

(* The log is no longer than its records, of which there are no more for   *)
(* checkpoints than from executors.                                        *)
BudgetInv ==
  /\ count \in 0 .. MaxRecs /\ fails \in 0 .. MaxFails
  /\ caller \in {"proc", "ckpt"}
  /\ pc \in FlushPcs \union {"lsn", "flushed", "idle", "ckpt", "ckptflush", "panic"}
  /\ flush_lsn \in Lsns /\ ckpt_lsn \in Lsns
  /\ write_off <= count * (MaxLen + CkptLen)
  /\ Owed => write_off + CkptLen <= count * (MaxLen + CkptLen)

\* A record of an executor pays for itself and for a CHECKPOINT record.
LEMMA AppendBudget ==
  ASSUME RingInv, BudgetInv, NEW len \in 1 .. MaxLen, AppendRecord(len)
  PROVE  BudgetInv'
<1>. DEFINE B == MaxLen + CkptLen
<1>1. /\ write_off \in Nat /\ len \in Nat /\ len <= MaxLen /\ MaxLen \in Nat /\ CkptLen \in Nat
      /\ count \in Nat /\ MaxRecs \in Nat /\ count < MaxRecs
      /\ write_off' = write_off + len /\ count' = count + 1
  BY WalAssumption DEF AppendRecord, Put, RingInv, BudgetInv
<1>2. (count + 1) * B = count * B + B /\ count * B \in Nat /\ B \in Nat
  BY <1>1
<1>3. write_off <= count * B
  BY DEF BudgetInv
<1>4. write_off' + CkptLen <= count' * B /\ write_off' <= count' * B
  <2>. HIDE DEF B
  <2>1. \A x \in Nat : write_off <= x => write_off + len + CkptLen <= x + (MaxLen + CkptLen)
                                        /\ write_off + len <= x + (MaxLen + CkptLen)
    BY <1>1
  <2>. QED  BY <1>1, <1>2, <1>3, <2>1 DEF B
<1>5. UNCHANGED <<caller, pc, flush_lsn, ckpt_lsn, fails>>
  BY DEF AppendRecord, flush, lsns
<1>6. count' \in 0 .. MaxRecs
  BY <1>1
<1>. QED  BY <1>4, <1>5, <1>6 DEF BudgetInv

\* A step that appends nothing and owes nothing new.
LEMMA BudgetKept ==
  ASSUME BudgetInv, UNCHANGED <<write_off, count>>, Owed' => Owed,
         fails' \in 0 .. MaxFails, caller' \in {"proc", "ckpt"},
         pc' \in FlushPcs \union {"lsn", "flushed", "idle", "ckpt", "ckptflush", "panic"},
         flush_lsn' \in Lsns, ckpt_lsn' \in Lsns
  PROVE  BudgetInv'
BY DEF BudgetInv

\* Every step keeps the bound on records.
LEMMA BudgetStep ==
  ASSUME RingInv, BudgetInv, tail_page \in Nat, tail_used \in Nat, [Next]_vars
  PROVE  BudgetInv'
<1>0. /\ write_off \in Nat /\ flush_off \in Nat /\ upto \in Nat
      /\ fails \in 0 .. MaxFails /\ MaxFails \in Nat /\ caller \in {"proc", "ckpt"}
      /\ pc \in FlushPcs \union {"lsn", "flushed", "idle", "ckpt", "ckptflush", "panic"}
      /\ flush_lsn \in Lsns /\ ckpt_lsn \in Lsns
  BY WalAssumption DEF RingInv, BudgetInv
<1>1. ASSUME NEW len \in 1 .. MaxLen, AppendRecord(len) PROVE BudgetInv'
  BY <1>1, AppendBudget
<1>2. CASE CkptAppend
  <2>1. write_off' = write_off + CkptLen /\ pc = "ckpt" /\ pc' = "ckptflush"
        /\ UNCHANGED <<count, fails, caller, flush_lsn, ckpt_lsn>>
    BY <1>2 DEF CkptAppend, Put, flush, lsns
  <2>2. Owed /\ ~ Owed'
    BY <2>1 DEF Owed, FlushPcs
  <2>3. CkptLen \in Nat
    BY WalAssumption
  <2>. QED  BY <2>1, <2>2, <2>3 DEF BudgetInv
<1>3. CASE Flush
  <2>1. UNCHANGED <<write_off, count, caller, upto, ckpt_lsn>>
    BY ZenonT(20), <1>3 DEF Flush, Copy, TailUsed, Grow, GrowFails, GrowLate,
       GrowLateFails, TailPage,
       TailReset, Advance, SetFlushLsn, buffer, flush, lsns
  <2>2. fails' \in 0 .. MaxFails
    <3>1. fails' = fails \/ (fails < MaxFails /\ fails' = fails + 1)
      BY ZenonT(20), <1>3 DEF Flush, Copy, TailUsed, Grow, GrowFails, GrowLate,
         GrowLateFails,
         TailPage, TailReset, Advance, SetFlushLsn
    <3>. QED  BY <1>0, <3>1
  <2>3. flush_lsn' \in Lsns
    <3>1. flush_lsn' = flush_lsn \/ flush_lsn' = <<tail_page, tail_used>>
      BY ZenonT(20), <1>3 DEF Flush, Copy, TailUsed, Grow, GrowFails, GrowLate,
         GrowLateFails,
         TailPage, TailReset, Advance, SetFlushLsn, lsns, Lsn
    <3>. QED  BY <1>0, <3>1 DEF Lsns
  <2>4. CASE SetFlushLsn
    <3>1. pc = "lsn" /\ pc' = "flushed" /\ flush_off' = flush_off /\ flush_off = upto
      BY <2>4 DEF SetFlushLsn, RingInv
    <3>2. Owed' => Owed
      BY <2>1, <3>1 DEF Owed, FlushPcs
    <3>. QED  BY <1>0, <2>1, <2>2, <2>3, <3>1, <3>2, BudgetKept
  <2>5. CASE ~ SetFlushLsn
    <3>1. pc \in FlushPcs /\ pc' \in FlushPcs \union {"lsn", "panic"}
      BY ZenonT(20), <1>3, <2>5 DEF Flush, Copy, TailUsed, Grow, GrowFails, GrowLate,
         GrowLateFails,
         TailPage, TailReset, Advance, Loop, FlushPcs
    <3>2. Owed' => Owed
      BY <2>1, <3>1 DEF Owed, FlushPcs
    <3>. QED  BY ZenonT(20), <1>0, <2>1, <2>2, <2>3, <3>1, <3>2, BudgetKept
  <2>. QED  BY ZenonT(20), <2>4, <2>5
<1>4. CASE ProcStart
  <2>1. /\ pc = "idle" /\ caller' = "proc" /\ upto' = write_off
        /\ pc' = IF flush_off = write_off THEN "flushed" ELSE "copy"
        /\ UNCHANGED <<write_off, flush_off, count, fails, flush_lsn, ckpt_lsn>>
    BY <1>4 DEF ProcStart, FlushStart, buffer, lsns
  <2>2. flush_off <= write_off
    BY DEF RingInv
  <2>3. Owed' => Owed
    BY <1>0, <2>1, <2>2 DEF Owed, FlushPcs
  <2>. QED  BY <1>0, <2>1, <2>3, BudgetKept DEF FlushPcs
<1>5. CASE CkptFlush
  <2>1. /\ caller' = "ckpt" /\ upto' = write_off
        /\ pc' = IF flush_off = write_off THEN "flushed" ELSE "copy"
        /\ UNCHANGED <<write_off, flush_off, count, fails, flush_lsn, ckpt_lsn>>
    BY <1>5 DEF CkptFlush, FlushStart, buffer, lsns
  <2>2. ~ Owed'
    BY <1>0, <2>1 DEF Owed, FlushPcs
  <2>. QED  BY <1>0, <2>1, <2>2, BudgetKept DEF FlushPcs
<1>6. CASE CkptDone
  <2>1. /\ pc = "flushed" /\ pc' = "idle" /\ ckpt_lsn' = flush_lsn
        /\ UNCHANGED <<write_off, flush_off, count, fails, caller, flush_lsn>>
    BY <1>6 DEF CkptDone, buffer, flush
  <2>2. ~ LsnLess(flush_lsn, flush_lsn)
    BY <1>0 DEF LsnLess, Lsns
  <2>3. Owed' => Owed
    BY <2>1, <2>2 DEF Owed, FlushPcs
  <2>. QED  BY <1>0, <2>1, <2>3, BudgetKept
<1>7. CASE ProcYields \/ FlushDirtyFrames \/ CkptFull
  <2>1. /\ UNCHANGED <<write_off, flush_off, count, fails, caller, flush_lsn, ckpt_lsn>>
        /\ \/ pc = "flushed" /\ caller = "proc" /\ pc' = "idle"
           \/ pc = "flushed" /\ caller = "proc" /\ pc' = "ckpt"
              /\ LsnLess(ckpt_lsn, flush_lsn)
           \/ pc = "ckpt" /\ pc' = "idle"
    BY <1>7 DEF ProcYields, FlushDirtyFrames, CkptFull, NeedCheckpoint, buffer, flush, lsns
  <2>2. Owed' => Owed
    BY <2>1 DEF Owed, FlushPcs
  <2>. QED  BY <1>0, <2>1, <2>2, BudgetKept
<1>8. CASE UNCHANGED vars
  BY <1>8 DEF vars, buffer, flush, lsns, BudgetInv, Owed
<1>. QED
  BY <1>1, <1>2, <1>3, <1>4, <1>5, <1>6, <1>7, <1>8 DEF Next, Checkpointer

-----------------------------------------------------------------------------
(* The offset of the first byte of a page, if none was lost. *)
Base(p) == (p - 1) * Payload

(* How much of the log has been taken from the ring. *)
Copied == IF pc \in FlushPcs \union {"panic"} THEN from ELSE flush_off

ImagesOf(p) == {image \in [bytes : Seq(Int), next : {0, p + 1}] : Len(image.bytes) <= Payload}

(* The chain has no more bytes than were taken from the ring, and so ends  *)
(* within Pages; what lies behind its tail is blank.                       *)
PageInv ==
  /\ from \in Nat /\ from <= upto
  /\ pc \in FlushPcs => flush_off <= from
  /\ tail_page \in Pages
  /\ DOMAIN mem = Pages /\ DOMAIN disk = Pages
  /\ \A p \in Pages : mem[p] \in ImagesOf(p) /\ disk[p] \in ImagesOf(p)
  /\ \A p \in Pages : p > tail_page => mem[p].bytes = <<>>
  /\ Base(tail_page) + Len(mem[tail_page].bytes) <= Copied
  /\ pc \in {"grow", "newtail"} => Full(tail_page)
  /\ tail_used \in 0 .. Payload
  /\ pc # "reset" => tail_used <= Len(mem[tail_page].bytes)

\* Where the bytes of a page begin in the log.
LEMMA BaseFacts ==
  /\ \A p \in Nat \ {0} : Base(p) \in Nat /\ Base(p + 1) = Base(p) + Payload
  /\ Base(1) = 0
<1>1. Payload \in Nat
  BY WalAssumption
<1>2. ASSUME NEW p \in Nat \ {0}
      PROVE  (p - 1) * Payload \in Nat /\ p * Payload = (p - 1) * Payload + Payload
  BY <1>1
<1>3. \A p \in Nat \ {0} : (p + 1) - 1 = p
  OBVIOUS
<1>. QED  BY <1>1, <1>2, <1>3 DEF Base

\* The log stays within the bound that the number of pages is taken from.
LEMMA LogIsBounded ==
  ASSUME RingInv, BudgetInv
  PROVE  write_off <= MaxBytes /\ MaxBytes \in Nat
<1>. DEFINE B == MaxLen + CkptLen
<1>1. /\ write_off \in Nat /\ write_off <= count * B /\ B \in Nat
      /\ count \in Nat /\ MaxRecs \in Nat /\ count <= MaxRecs
  BY WalAssumption DEF RingInv, BudgetInv
<1>. HIDE DEF B
<1>2. count * B <= MaxRecs * B /\ count * B \in Nat /\ MaxRecs * B \in Nat
  BY <1>1
<1>. QED  BY <1>1, <1>2 DEF B, MaxBytes

\* A page that the log fills is not the last one of Pages.
LEMMA PageFollows ==
  ASSUME NEW p \in Pages, MaxBytes \in Nat, Base(p) + Payload <= MaxBytes
  PROVE  p + 1 \in Pages
<1>. DEFINE d == MaxBytes \div Payload
            m == MaxBytes % Payload
<1>1. /\ Payload \in Nat \ {0} /\ d \in Nat /\ m \in Nat /\ m < Payload
      /\ MaxBytes = Payload * d + m
  BY WalAssumption
<1>2. p \in Nat \ {0} /\ p <= d + 1
  BY <1>1 DEF Pages
<1>. HIDE DEF d, m
<1>3. p * Payload <= MaxBytes
  BY <1>1, <1>2 DEF Base
<1>4. p <= d
  <2>. SUFFICES ASSUME p = d + 1 PROVE FALSE
    BY <1>1, <1>2
  <2>1. (d + 1) * Payload = Payload * d + Payload
    BY <1>1
  <2>2. Payload * d \in Nat
    BY <1>1
  <2>. QED  BY <1>1, <1>3, <2>1, <2>2
<1>. QED  BY <1>1, <1>2, <1>4 DEF Pages, d

\* What a chunk adds to the tail page.
NewImage ==
  [mem[tail_page] EXCEPT !.bytes = @ \o [i \in 1 .. Chunk |-> ring[(from + i - 1) % BufSize]]]

\* The elements of a concatenation.
LEMMA ConcatFacts ==
  ASSUME NEW s \in Seq(Int), NEW t \in Seq(Int)
  PROVE  /\ s \o t \in Seq(Int) /\ Len(s \o t) = Len(s) + Len(t)
         /\ \A i \in 1 .. Len(s) + Len(t) :
              (s \o t)[i] = IF i <= Len(s) THEN s[i] ELSE t[i - Len(s)]
OBVIOUS

\* A chunk fills the tail page with bytes of the ring, and no further.
LEMMA ChunkFits ==
  ASSUME RingInv, PageInv, ~ Full(tail_page)
  PROVE  /\ Chunk \in Nat /\ from + Chunk <= upto
         /\ NewImage \in ImagesOf(tail_page)
         /\ NewImage.next = mem[tail_page].next
         /\ Len(NewImage.bytes) = Len(mem[tail_page].bytes) + Chunk
         /\ \A i \in 1 .. Len(NewImage.bytes) :
              NewImage.bytes[i] = IF i <= Len(mem[tail_page].bytes)
                                  THEN mem[tail_page].bytes[i]
                                  ELSE ring[(from + (i - Len(mem[tail_page].bytes)) - 1) % BufSize]
<1>. DEFINE old == mem[tail_page].bytes
            more == [i \in 1 .. Chunk |-> ring[(from + i - 1) % BufSize]]
<1>1. mem[tail_page] \in ImagesOf(tail_page)
  BY SMTT(20), Z3T(20) DEF PageInv
<1>2. old \in Seq(Int) /\ Len(old) \in Nat /\ Len(old) <= Payload
  BY <1>1 DEF ImagesOf
<1>3. /\ from \in Nat /\ upto \in Nat /\ from <= upto /\ Payload \in Nat
      /\ BufSize \in Nat \ {0} /\ ring \in [0 .. BufSize - 1 -> Int]
  BY WalAssumption DEF PageInv, RingInv
<1>4. Len(old) < Payload
  BY <1>2, <1>3 DEF Full
<1>5. /\ Chunk \in Nat /\ from + Chunk <= upto /\ Len(old) + Chunk <= Payload
  <2>1. \/ Chunk = upto - from /\ upto - from < Payload - Len(old)
        \/ Chunk = Payload - Len(old) /\ ~ (upto - from < Payload - Len(old))
    BY Zenon DEF Chunk, MinOf
  <2>. HIDE DEF old
  <2>. QED  BY SMTT(20), Z3T(20), <1>2, <1>3, <1>4, <2>1
<1>. HIDE DEF old
<1>6. more \in Seq(Int) /\ Len(more) = Chunk
  <2>1. ASSUME NEW i \in 1 .. Chunk PROVE ring[(from + i - 1) % BufSize] \in Int
    <3>1. from + i - 1 \in Nat
      BY <1>3, <1>5
    <3>2. (from + i - 1) % BufSize \in 0 .. BufSize - 1
      BY <1>3, <3>1
    <3>. QED  BY <1>3, <3>2
  <2>. QED  BY <1>5, <2>1
<1>7. \A i \in 1 .. Chunk : more[i] = ring[(from + i - 1) % BufSize]
  OBVIOUS
<1>. HIDE DEF more
<1>8. /\ old \o more \in Seq(Int) /\ Len(old \o more) = Len(old) + Chunk
      /\ \A i \in 1 .. Len(old) + Chunk :
           (old \o more)[i] = IF i <= Len(old) THEN old[i] ELSE more[i - Len(old)]
  BY Zenon, <1>2, <1>6, ConcatFacts
<1>9. NewImage.bytes = old \o more /\ NewImage.next = mem[tail_page].next
      /\ NewImage \in [bytes : Seq(Int), next : {0, tail_page + 1}]
  BY ZenonT(20), <1>1, <1>8 DEF NewImage, ImagesOf, old, more
<1>10. NewImage \in ImagesOf(tail_page)
  BY <1>5, <1>8, <1>9 DEF ImagesOf
<1>11. ASSUME NEW i \in 1 .. Len(old) + Chunk
       PROVE  (old \o more)[i] = IF i <= Len(old) THEN old[i]
                                 ELSE ring[(from + (i - Len(old)) - 1) % BufSize]
  <2>1. CASE i <= Len(old)
    BY <1>8, <2>1
  <2>2. CASE ~ (i <= Len(old))
    <3>1. i - Len(old) \in 1 .. Chunk
      BY <1>2, <1>5, <2>2
    <3>. QED  BY <1>7, <1>8, <2>2, <3>1
  <2>. QED  BY ZenonT(20), <2>1, <2>2
<1>. QED  BY ZenonT(40), <1>5, <1>8, <1>9, <1>10, <1>11 DEF old

\* The tail page and what it holds.
LEMMA TailFacts ==
  ASSUME PageInv
  PROVE  /\ tail_page \in Nat \ {0} /\ Payload \in Nat \ {0}
         /\ Base(tail_page) \in Nat /\ Base(tail_page + 1) = Base(tail_page) + Payload
         /\ mem[tail_page].bytes \in Seq(Int)
         /\ Len(mem[tail_page].bytes) \in Nat /\ Len(mem[tail_page].bytes) <= Payload
<1>1. mem[tail_page] \in ImagesOf(tail_page) /\ tail_page \in Nat \ {0}
  BY DEF PageInv, Pages
<1>2. mem[tail_page].bytes \in Seq(Int) /\ Len(mem[tail_page].bytes) <= Payload
  BY <1>1 DEF ImagesOf
<1>3. Len(mem[tail_page].bytes) \in Nat
  BY <1>2
<1>4. Base(tail_page) \in Nat /\ Base(tail_page + 1) = Base(tail_page) + Payload
  BY <1>1, BaseFacts
<1>. QED  BY <1>1, <1>2, <1>3, <1>4, WalAssumption

\* A step that leaves the chain alone, or saves pages as they are.
LEMMA PagesKept ==
  ASSUME PageInv, UNCHANGED <<mem, tail_page, tail_used>>,
         disk' = disk \/ disk' = mem,
         from' \in Nat, from' <= upto', pc' \in FlushPcs => flush_off' <= from',
         Copied \in Nat, Copied' \in Nat, Copied <= Copied',
         pc' \in {"grow", "newtail"} => Full(tail_page),
         pc # "reset"
  PROVE  PageInv'
<1>1. Len(mem[tail_page].bytes) \in Nat /\ Base(tail_page) \in Nat
  BY TailFacts
<1>2. Base(tail_page) + Len(mem[tail_page].bytes) <= Copied'
  <2>1. Base(tail_page) + Len(mem[tail_page].bytes) <= Copied
    BY DEF PageInv
  <2>. QED  BY <1>1, <2>1
<1>3. DOMAIN disk' = Pages /\ \A p \in Pages : disk'[p] \in ImagesOf(p)
  BY DEF PageInv
<1>4. Base(tail_page)' = Base(tail_page) /\ Full(tail_page)' = Full(tail_page)
  BY ZenonT(40) DEF Base, Full
<1>. QED  BY <1>2, <1>3, <1>4 DEF PageInv, Full, ImagesOf

\* Copying a chunk moves the snapshot on by what the page gains.
LEMMA CopyPages ==
  ASSUME RingInv, PageInv, Copy
  PROVE  PageInv'
<1>1. /\ pc = "copy" /\ pc' = "tail" /\ ~ Full(tail_page)
      /\ mem' = [mem EXCEPT ![tail_page] = NewImage]
      /\ disk' = [disk EXCEPT ![tail_page] = NewImage]
      /\ from' = from + Chunk
      /\ UNCHANGED <<flush_off, upto, tail_page, tail_used>>
  BY Zenon DEF Copy, NewImage, tail, flush
<1>2. /\ Chunk \in Nat /\ from + Chunk <= upto /\ NewImage \in ImagesOf(tail_page)
      /\ Len(NewImage.bytes) = Len(mem[tail_page].bytes) + Chunk
  BY <1>1, ChunkFits
<1>. HIDE DEF Chunk, NewImage
<1>3. /\ from \in Nat /\ upto \in Nat /\ flush_off \in Nat /\ flush_off <= from
      /\ tail_page \in Pages /\ DOMAIN mem = Pages /\ DOMAIN disk = Pages
      /\ Base(tail_page) + Len(mem[tail_page].bytes) <= from
      /\ mem[tail_page] \in ImagesOf(tail_page)
      /\ tail_used \in 0 .. Payload /\ tail_used <= Len(mem[tail_page].bytes)
  BY <1>1 DEF PageInv, RingInv, Copied, FlushPcs
<1>4. Base(tail_page) \in Nat /\ Len(mem[tail_page].bytes) \in Nat /\ Payload \in Nat
  BY TailFacts
<1>5. mem'[tail_page] = NewImage /\ Base(tail_page)' = Base(tail_page) /\ Copied' = from'
  BY <1>1, <1>3 DEF Base, Copied, FlushPcs
<1>6. /\ from' \in Nat /\ from' <= upto' /\ flush_off' <= from'
      /\ Base(tail_page)' + Len(mem'[tail_page].bytes) <= Copied'
      /\ tail_used' <= Len(mem'[tail_page].bytes)
  <2>. DEFINE L == Len(mem[tail_page].bytes)
              M == Len(mem'[tail_page].bytes)
              B == Base(tail_page)
  <2>1. /\ from' = from + Chunk /\ upto' = upto /\ flush_off' = flush_off
        /\ tail_used' = tail_used /\ Base(tail_page)' = B /\ Copied' = from'
        /\ M = L + Chunk
    BY Zenon, <1>1, <1>2, <1>5
  <2>2. /\ Chunk \in Nat /\ from \in Nat /\ flush_off \in Nat /\ L \in Nat /\ B \in Nat
        /\ from + Chunk <= upto /\ flush_off <= from /\ B + L <= from
        /\ tail_used \in Nat /\ tail_used <= L
    <3>1. \A m \in Nat : \A k \in 0 .. m : k \in Nat
      OBVIOUS
    <3>. QED  BY Zenon, <1>2, <1>3, <1>4, <3>1
  <2>3. upto \in Nat
    BY Zenon, <1>3
  <2>. HIDE DEF L, M, B
  <2>4. from' \in Nat /\ from' <= upto' /\ flush_off' <= from'
    BY <2>1, <2>2, <2>3
  <2>5. Base(tail_page)' + M <= Copied' /\ tail_used' <= M
    BY <2>1, <2>2
  <2>. QED  BY Zenon, <2>4, <2>5 DEF M
<1>7. \A p \in Pages : mem'[p] \in ImagesOf(p) /\ disk'[p] \in ImagesOf(p)
  BY SMTT(20), Z3T(20), <1>1, <1>2, <1>3 DEF PageInv
<1>8. \A p \in Pages : p > tail_page => mem'[p].bytes = <<>>
  BY <1>1, <1>3 DEF PageInv, Pages
<1>9. DOMAIN mem' = Pages /\ DOMAIN disk' = Pages
  BY SMTT(20), Z3T(20), <1>1, <1>3
<1>. QED  BY ZenonT(40), <1>1, <1>3, <1>6, <1>7, <1>8, <1>9 DEF PageInv, ImagesOf

\* A new page is linked to the full tail, in memory or on disk as well.
LEMMA LinkPages ==
  ASSUME RingInv, PageInv, BudgetInv, Grow \/ GrowLate
  PROVE  PageInv'
<1>1. /\ pc \in {"copy", "grow"} /\ pc' = "newtail" /\ Full(tail_page)
      /\ mem' = Linked
      /\ disk' = disk \/ disk' = [disk EXCEPT ![tail_page] = Linked[tail_page]]
      /\ UNCHANGED <<flush_off, from, upto, tail_page, tail_used>>
  BY ZenonT(40) DEF Grow, GrowLate, tail, flush, PageInv
<1>2. /\ tail_page \in Pages /\ DOMAIN mem = Pages /\ DOMAIN disk = Pages
      /\ mem[tail_page] \in ImagesOf(tail_page)
  BY DEF PageInv
<1>3. /\ DOMAIN Linked = Pages
      /\ \A p \in Pages \ {tail_page} : Linked[p] = mem[p]
      /\ Linked[tail_page].bytes = mem[tail_page].bytes
      /\ Linked[tail_page] \in ImagesOf(tail_page)
      /\ Linked[tail_page].next = tail_page + 1
  BY ZenonT(40), <1>2 DEF Linked, NewPage, ImagesOf
<1>4. \A p \in Pages : Linked[p].bytes = mem[p].bytes /\ Linked[p] \in ImagesOf(p)
  BY ZenonT(40), <1>3 DEF PageInv
<1>. HIDE DEF Linked
<1>5. \A p \in Pages : disk'[p] \in ImagesOf(p)
  BY ZenonT(40), <1>1, <1>2, <1>3 DEF PageInv
<1>6. DOMAIN disk' = Pages /\ DOMAIN mem' = Pages
  BY <1>1, <1>2, <1>3
<1>7. Base(tail_page)' = Base(tail_page) /\ Copied' = Copied /\ Full(tail_page)' = Full(tail_page)
  BY ZenonT(40), <1>1, <1>2, <1>4 DEF Base, Copied, FlushPcs, Full
<1>8. /\ from' \in Nat /\ from' <= upto' /\ flush_off' <= from'
      /\ tail_used' \in 0 .. Payload /\ tail_used' <= Len(mem'[tail_page].bytes)
      /\ Base(tail_page)' + Len(mem'[tail_page].bytes) <= Copied'
  BY SMTT(20), Z3T(20), <1>1, <1>2, <1>4, <1>7 DEF PageInv, FlushPcs
<1>9. \A p \in Pages : p > tail_page => mem'[p].bytes = <<>>
  BY SMTT(20), Z3T(20), <1>1, <1>4 DEF PageInv
<1>. QED  BY <1>1, <1>2, <1>4, <1>5, <1>6, <1>7, <1>8, <1>9 DEF PageInv, ImagesOf

\* The tail moves to the new page, which exists.
LEMMA TailMoves ==
  ASSUME RingInv, PageInv, BudgetInv, TailPage
  PROVE  PageInv' /\ tail_page' = tail_page + 1
<1>1. /\ pc = "newtail" /\ pc' = "reset" /\ tail_page' = tail_page + 1
      /\ UNCHANGED <<flush_off, from, upto, tail_used, mem, disk>>
  BY SMTT(20), Z3T(20) DEF TailPage, NewPage, pages, flush
<1>2. /\ Full(tail_page) /\ tail_page \in Pages /\ mem[tail_page] \in ImagesOf(tail_page)
      /\ Base(tail_page) + Len(mem[tail_page].bytes) <= from
      /\ from <= upto /\ from \in Nat /\ flush_off <= from
  BY <1>1 DEF PageInv, Copied, FlushPcs
<1>3. /\ Len(mem[tail_page].bytes) = Payload /\ Payload \in Nat /\ tail_page \in Nat \ {0}
      /\ Base(tail_page) \in Nat /\ Base(tail_page + 1) = Base(tail_page) + Payload
  BY SMTT(20), Z3T(20), <1>2, TailFacts DEF Full
<1>4. Base(tail_page) + Payload <= MaxBytes /\ MaxBytes \in Nat
  <2>1. upto \in Nat /\ upto <= write_off /\ write_off \in Nat
    BY DEF RingInv
  <2>2. write_off <= MaxBytes /\ MaxBytes \in Nat
    BY LogIsBounded
  <2>. QED  BY <1>2, <1>3, <2>1, <2>2
<1>5. tail_page + 1 \in Pages
  BY <1>2, <1>4, PageFollows
<1>6. mem[tail_page + 1].bytes = <<>>
  BY <1>3, <1>5 DEF PageInv
<1>7. Copied' = from /\ Base(tail_page)' = Base(tail_page + 1)
  BY <1>1 DEF Copied, FlushPcs, Base
<1>8. (Base(tail_page) + Len(mem[tail_page].bytes) <= Copied)'
  <2>1. Len(mem[tail_page + 1].bytes) = 0
    BY <1>6
  <2>. QED  BY <1>1, <1>2, <1>3, <1>7, <2>1
<1>9. \A p \in Pages : p > tail_page' => mem'[p].bytes = <<>>
  BY <1>1, <1>3 DEF PageInv, Pages
<1>. QED  BY <1>1, <1>2, <1>5, <1>8, <1>9 DEF PageInv, ImagesOf

\* tail_used catches up with the page, and starts over on a new one.
LEMMA TailUsedPages ==
  ASSUME RingInv, PageInv, TailUsed \/ TailReset
  PROVE  PageInv'
<1>1. /\ pc \in FlushPcs /\ pc' \in {"grow", "copy", "advance"}
      /\ pc' = "grow" => Full(tail_page)
      /\ tail_used' = Len(mem[tail_page].bytes) \/ tail_used' = 0
      /\ UNCHANGED <<flush_off, from, upto, tail_page, mem, disk>>
  BY DEF TailUsed, TailReset, Loop, FlushPcs, pages, flush
<1>2. /\ Len(mem[tail_page].bytes) \in Nat /\ Len(mem[tail_page].bytes) <= Payload
      /\ Payload \in Nat
  BY TailFacts
<1>3. tail_used' \in 0 .. Payload /\ tail_used' <= Len(mem[tail_page].bytes)
  BY <1>1, <1>2
<1>4. Copied' = Copied
  BY <1>1 DEF Copied, FlushPcs
<1>5. (Base(tail_page) + Len(mem[tail_page].bytes) <= Copied)'
  BY <1>1, <1>4 DEF PageInv, Base
<1>6. pc' \in {"grow", "newtail"} => Full(tail_page)'
  BY <1>1 DEF Full
<1>. QED  BY <1>1, <1>3, <1>5, <1>6 DEF PageInv, ImagesOf

\* Every step keeps the chain within what was copied.
LEMMA PageStep ==
  ASSUME RingInv, BudgetInv, PageInv, [Next]_vars
  PROVE  PageInv'
<1>0. /\ flush_off \in Nat /\ upto \in Nat /\ from \in Nat /\ write_off \in Nat
      /\ from <= upto /\ upto <= write_off /\ flush_off <= write_off
      /\ pc \in FlushPcs => flush_off <= from
  BY DEF RingInv, PageInv
<1>1. CASE Copy
  BY <1>1, CopyPages
<1>2. CASE Grow \/ GrowLate
  BY <1>2, LinkPages
<1>3. CASE TailPage
  BY <1>3, TailMoves
<1>4. CASE TailUsed \/ TailReset
  BY <1>4, TailUsedPages
<1>5. CASE ProcStart \/ CkptFlush
  <2>1. /\ pc \in {"idle", "ckptflush"} /\ pc' \in {"flushed", "copy"}
        /\ from' = flush_off /\ upto' = write_off
        /\ UNCHANGED <<flush_off, mem, disk, tail_page, tail_used>>
    BY <1>5 DEF ProcStart, CkptFlush, FlushStart, tail, pages
  <2>2. Copied = flush_off /\ Copied' = flush_off
    BY <2>1 DEF Copied, FlushPcs
  <2>. QED  BY <1>0, <2>1, <2>2, PagesKept
<1>6. CASE Advance
  <2>1. /\ pc = "advance" /\ pc' = "lsn" /\ flush_off' = upto
        /\ UNCHANGED <<from, upto, mem, disk, tail_page, tail_used>>
    BY <1>6 DEF Advance, tail, pages, flush
  <2>2. Copied = from /\ Copied' = upto
    BY <2>1 DEF Copied, FlushPcs
  <2>. QED  BY <1>0, <2>1, <2>2, PagesKept DEF FlushPcs
<1>7. CASE GrowFails \/ GrowLateFails
  <2>1. /\ pc \in FlushPcs \ {"reset"} /\ pc' \in {"advance", "panic"}
        /\ UNCHANGED <<flush_off, from, upto, mem, disk, tail_page, tail_used>>
    BY <1>7 DEF GrowFails, GrowLateFails, FlushPcs, tail, pages, flush
  <2>2. Copied = from /\ Copied' = from
    BY <2>1 DEF Copied, FlushPcs
  <2>. QED  BY <1>0, <2>1, <2>2, PagesKept
<1>8. CASE SetFlushLsn \/ ProcYields \/ FlushDirtyFrames \/ CkptAppend \/ CkptFull \/ CkptDone
  <2>1. /\ pc \in {"lsn", "flushed", "ckpt"} /\ pc' \in {"flushed", "idle", "ckpt", "ckptflush"}
        /\ disk' = disk \/ disk' = mem
        /\ UNCHANGED <<flush_off, from, upto, mem, tail_page, tail_used>>
    BY <1>8 DEF SetFlushLsn, ProcYields, FlushDirtyFrames, CkptAppend, CkptFull, CkptDone,
       tail, pages, flush
  <2>2. Copied = flush_off /\ Copied' = flush_off
    BY ZenonT(40), <2>1 DEF Copied, FlushPcs
  <2>. QED  BY SMTT(20), Z3T(20), <1>0, <2>1, <2>2, PagesKept DEF FlushPcs
<1>9. ASSUME \/ \E len \in 1 .. MaxLen : AppendRecord(len)
             \/ UNCHANGED vars
      PROVE  PageInv'
  <2>1. UNCHANGED <<pc, flush_off, from, upto, mem, disk, tail_page, tail_used>>
    BY ZenonT(40), <1>9 DEF AppendRecord, vars, tail, pages, flush
  <2>. QED  BY <2>1 DEF PageInv, Copied, Full, Base, ImagesOf
<1>. QED
  BY <1>1, <1>2, <1>3, <1>4, <1>5, <1>6, <1>7, <1>8, <1>9 DEF Next, Checkpointer, Flush

-----------------------------------------------------------------------------
(* checkpointed_lsn follows flush_lsn, and that the tail.  Between the two *)
(* stores that move the tail, its offset is that of the page before.       *)
LsnInv ==
  /\ ~ LsnLess(Lsn(tail_page, tail_used), flush_lsn)
  /\ ~ LsnLess(flush_lsn, ckpt_lsn)
  /\ pc = "reset" => flush_lsn[1] < tail_page

\* Every step keeps LsnInv, and the LSNs do not go back.
LEMMA LsnStep ==
  ASSUME BudgetInv, PageInv, LsnInv, [Next]_vars
  PROVE  LsnInv' /\ ~ LsnLess(flush_lsn', flush_lsn) /\ ~ LsnLess(ckpt_lsn', ckpt_lsn)
<1>1. /\ flush_lsn[1] \in Nat /\ flush_lsn[2] \in Nat
      /\ ckpt_lsn[1] \in Nat /\ ckpt_lsn[2] \in Nat
  BY DEF BudgetInv, Lsns
<1>2. /\ tail_page \in Nat \ {0} /\ Len(mem[tail_page].bytes) \in Nat
  BY TailFacts
<1>3. tail_used \in Nat /\ (pc # "reset" => tail_used <= Len(mem[tail_page].bytes))
  BY DEF PageInv
<1>4. ~ LsnLess(flush_lsn, flush_lsn) /\ ~ LsnLess(ckpt_lsn, ckpt_lsn)
  BY SMTT(20), Z3T(20), <1>1 DEF LsnLess
<1>5. CASE TailUsed
  <2>1. /\ pc = "tail" /\ pc' # "reset" /\ tail_used' = Len(mem[tail_page].bytes)
        /\ UNCHANGED <<tail_page, flush_lsn, ckpt_lsn>>
    BY SMTT(20), Z3T(20), <1>5 DEF TailUsed, Loop, lsns
  <2>. QED  BY SMTT(20), Z3T(20), <1>1, <1>2, <1>3, <1>4, <2>1 DEF LsnInv, LsnLess, Lsn
<1>6. CASE TailPage
  <2>1. /\ tail_page' = tail_page + 1
        /\ UNCHANGED <<tail_used, flush_lsn, ckpt_lsn>>
    BY SMTT(20), Z3T(20), <1>6 DEF TailPage, NewPage, lsns
  <2>. QED  BY SMTT(20), Z3T(20), <1>1, <1>2, <1>3, <1>4, <2>1 DEF LsnInv, LsnLess, Lsn
<1>7. CASE TailReset
  <2>1. /\ pc = "reset" /\ pc' # "reset" /\ tail_used' = 0
        /\ UNCHANGED <<tail_page, flush_lsn, ckpt_lsn>>
    BY SMTT(20), Z3T(20), <1>7 DEF TailReset, Loop, lsns
  <2>. QED  BY <1>1, <1>2, <1>4, <2>1 DEF LsnInv, LsnLess, Lsn
<1>8. CASE SetFlushLsn
  <2>1. /\ pc' # "reset" /\ flush_lsn' = <<tail_page, tail_used>>
        /\ UNCHANGED <<tail_page, tail_used, ckpt_lsn>>
    BY SMTT(20), Z3T(20), <1>8 DEF SetFlushLsn, Lsn, tail
  <2>. QED  BY SMTT(20), Z3T(20), <1>1, <1>2, <1>3, <1>4, <2>1 DEF LsnInv, LsnLess, Lsn
<1>9. CASE CkptDone
  <2>1. /\ pc' # "reset" /\ ckpt_lsn' = flush_lsn
        /\ UNCHANGED <<tail_page, tail_used, flush_lsn>>
    BY SMTT(20), Z3T(20), <1>9 DEF CkptDone, tail
  <2>. QED  BY <1>4, <2>1 DEF LsnInv, Lsn
<1>10. ASSUME UNCHANGED <<tail_page, tail_used, flush_lsn, ckpt_lsn>>,
              pc' = "reset" => pc = "reset"
       PROVE  LsnInv' /\ ~ LsnLess(flush_lsn', flush_lsn) /\ ~ LsnLess(ckpt_lsn', ckpt_lsn)
  BY <1>4, <1>10 DEF LsnInv, Lsn
<1>11. CASE \/ Copy \/ Grow \/ GrowFails \/ GrowLate \/ GrowLateFails \/ Advance
            \/ ProcStart \/ ProcYields \/ FlushDirtyFrames \/ CkptAppend \/ CkptFull
            \/ CkptFlush \/ (\E len \in 1 .. MaxLen : AppendRecord(len)) \/ UNCHANGED vars
  <2>1. /\ UNCHANGED <<tail_page, tail_used, flush_lsn, ckpt_lsn>>
        /\ pc' = "reset" => pc = "reset"
    BY ZenonT(20), <1>11 DEF Copy, Grow, GrowFails, GrowLate, GrowLateFails, Advance,
       ProcStart,
       ProcYields, FlushDirtyFrames, CkptAppend, CkptFull, CkptFlush, FlushStart,
       AppendRecord, vars, tail, lsns
  <2>. QED  BY ZenonT(20), <1>10, <2>1
<1>. QED
  BY <1>5, <1>6, <1>7, <1>8, <1>9, <1>11 DEF Next, Checkpointer, Flush

-----------------------------------------------------------------------------
WalInv == RingInv /\ BudgetInv /\ PageInv /\ LsnInv

\* An empty log.
LEMMA WalInit == Init => WalInv
<1>. SUFFICES ASSUME Init PROVE WalInv
  OBVIOUS
<1>1. RingInv
  BY WalAssumption DEF Init, RingInv, UnflushedInRing, FlushPcs
<1>2. BudgetInv
  <2>1. ~ Owed
    BY DEF Init, Owed, FlushPcs, LsnLess, NoLsn, Lsn
  <2>2. count * (MaxLen + CkptLen) = 0
    BY SMTT(20), Z3T(20), WalAssumption DEF Init
  <2>. QED  BY <2>1, <2>2, WalAssumption DEF Init, BudgetInv, Lsns, NoLsn, Lsn
<1>3. PageInv
  <2>1. 1 \in Pages
    <3>1. MaxBytes \in Nat
      <4>. DEFINE B == MaxLen + CkptLen
      <4>1. B \in Nat /\ MaxRecs \in Nat
        BY WalAssumption
      <4>. HIDE DEF B
      <4>2. MaxRecs * B \in Nat
        BY <4>1
      <4>. QED  BY <4>2 DEF MaxBytes, B
    <3>2. MaxBytes \div Payload \in Nat
      BY <3>1, WalAssumption
    <3>. QED  BY <3>2 DEF Pages
  <2>2. /\ Fresh.bytes = <<>> /\ Len(Fresh.bytes) = 0
        /\ \A p \in Pages : Fresh \in ImagesOf(p)
    BY WalAssumption DEF Fresh, ImagesOf
  <2>3. \A p \in Pages : mem[p] = Fresh /\ disk[p] = Fresh
    BY DEF Init
  <2>4. Copied = 0 /\ Base(tail_page) = 0
    BY BaseFacts DEF Init, Copied, FlushPcs
  <2>5. DOMAIN mem = Pages /\ DOMAIN disk = Pages
    BY DEF Init
  <2>. QED  BY <2>1, <2>2, <2>3, <2>4, <2>5, WalAssumption DEF Init, PageInv, FlushPcs
<1>4. LsnInv
  BY DEF Init, LsnInv, LsnLess, NoLsn, Lsn
<1>. QED  BY <1>1, <1>2, <1>3, <1>4 DEF WalInv

\* Every step keeps the invariant.
LEMMA WalStep ==
  ASSUME WalInv, [Next]_vars
  PROVE  WalInv'
<1>1. tail_page \in Nat /\ tail_used \in Nat
  BY TailFacts DEF WalInv, PageInv
<1>. QED  BY ZenonT(40), <1>1, RingStep, BudgetStep, PageStep, LsnStep DEF WalInv

(* Ring, offsets, pages and LSNs keep in step, whatever allocations fail.  *)
THEOREM WalInvariant == Spec => []WalInv
BY WalInit, WalStep, PTL DEF Spec

(* kds_wal_append never overwrites a byte that a flush, which holds no     *)
(* lock while it copies, is still to read; and the chain of pages never    *)
(* outgrows what was appended, also when its growth fails.                 *)
THEOREM BufferIsIntact == Spec => []BufferedIsIntact
<1>1. WalInv => BufferedIsIntact
  <2>. SUFFICES ASSUME WalInv PROVE BufferedIsIntact
    OBVIOUS
  <2>. RingInv /\ BudgetInv /\ PageInv
    BY DEF WalInv
  <2>1. write_off <= MaxBytes /\ MaxBytes \in Nat /\ write_off \in Nat
    BY LogIsBounded DEF RingInv
  <2>2. ring \in [0 .. BufSize - 1 -> -1 .. MaxBytes - 1]
    BY SMTT(20), Z3T(20), <2>1 DEF RingInv
  <2>3. \A p \in Pages : \A image \in {mem[p], disk[p]} :
          image.next \in {0, p + 1} /\ Len(image.bytes) <= Payload
    BY DEF PageInv, ImagesOf
  <2>4. /\ write_off \in 0 .. MaxBytes /\ flush_off \in 0 .. write_off
        /\ from \in 0 .. upto /\ upto \in 0 .. write_off
    BY SMTT(20), Z3T(20), <2>1 DEF RingInv, PageInv
  <2>5. /\ tail_page \in Pages /\ tail_used \in 0 .. Payload
        /\ flush_lsn \in Lsns /\ ckpt_lsn \in Lsns
        /\ caller \in {"proc", "ckpt"} /\ count \in 0 .. MaxRecs /\ fails \in 0 .. MaxFails
    BY DEF BudgetInv, PageInv
  <2>6. pc \in {"idle", "copy", "tail", "grow", "newtail", "reset", "advance",
                "lsn", "flushed", "ckpt", "ckptflush", "panic"}
    BY DEF BudgetInv, FlushPcs
  <2>7. UnflushedInRing
    BY DEF RingInv
  <2>. QED  BY <2>2, <2>3, <2>4, <2>5, <2>6, <2>7 DEF BufferedIsIntact, TypeOK
<1>. QED
  BY <1>1, WalInvariant, PTL

(* flush_lsn and checkpointed_lsn never go back, although the tail they    *)
(* are taken from moves in two stores and without the lock.                *)
THEOREM LsnsNeverGoBack == Spec => LsnsAdvance
<1>1. WalInv /\ [Next]_vars =>
        [~ LsnLess(flush_lsn', flush_lsn) /\ ~ LsnLess(ckpt_lsn', ckpt_lsn)]_vars
  BY ZenonT(40), LsnStep DEF WalInv
<1>. QED
  BY <1>1, WalInvariant, PTL DEF Spec, LsnsAdvance

-----------------------------------------------------------------------------
(* Until an allocation fails, the pages hold the bytes taken from the ring *)
(* in order, each page but the tail is full and linked, and the disk has   *)
(* them all.  A flush never finds its tail page full: it has grown before. *)
DiskInv ==
  /\ disk = mem
  /\ pc # "panic"
  /\ Base(tail_page) + Len(mem[tail_page].bytes) = Copied
  /\ pc \notin {"tail", "grow", "newtail"} => ~ Full(tail_page)
  /\ pc = "advance" => from = upto
  /\ pc = "newtail" => mem[tail_page].next = tail_page + 1
  /\ \A p \in Pages : p < tail_page => Full(p) /\ mem[p].next = p + 1
  /\ \A p \in Pages : \A i \in 1 .. Len(mem[p].bytes) : mem[p].bytes[i] = Base(p) + i - 1

\* A step that copies nothing and moves no tail.
LEMMA DiskKept ==
  ASSUME DiskInv, UNCHANGED <<mem, tail_page>>, disk' = disk \/ disk' = mem,
         Copied' = Copied, pc' \notin {"panic", "newtail"},
         pc' \notin {"tail", "grow"} => ~ Full(tail_page),
         pc' = "advance" => from' = upto'
  PROVE  DiskInv'
<1>1. \A p : Full(p)' = Full(p) /\ Base(p)' = Base(p)
  BY DEF Full, Base
<1>2. Full(tail_page)' = Full(tail_page) /\ Base(tail_page)' = Base(tail_page)
  BY ZenonT(40) DEF Full, Base
<1>. QED  BY <1>1, <1>2 DEF DiskInv, Full, Base

\* A chunk continues the tail page with the bytes that come next.
LEMMA CopyDisk ==
  ASSUME WalInv, DiskInv, Copy
  PROVE  DiskInv' /\ Copied' = Copied + Chunk /\ Chunk \in Nat /\ Copied + Chunk <= write_off
<1>. RingInv /\ PageInv
  BY DEF WalInv
<1>1. /\ pc = "copy" /\ pc' = "tail" /\ ~ Full(tail_page)
      /\ mem' = [mem EXCEPT ![tail_page] = NewImage]
      /\ disk' = [disk EXCEPT ![tail_page] = NewImage]
      /\ from' = from + Chunk
      /\ UNCHANGED <<tail_page>>
  BY Zenon DEF Copy, NewImage, tail, flush
<1>. DEFINE L == Len(mem[tail_page].bytes)
            N == Len(NewImage.bytes)
<1>2. /\ Chunk \in Nat /\ from + Chunk <= upto /\ N = L + Chunk
      /\ \A i \in 1 .. N :
           NewImage.bytes[i] = IF i <= L THEN mem[tail_page].bytes[i]
                               ELSE ring[(from + (i - L) - 1) % BufSize]
  BY ZenonT(40), <1>1, ChunkFits
<1>3. /\ from \in Nat /\ upto \in Nat /\ flush_off \in Nat /\ write_off \in Nat
      /\ flush_off <= from /\ upto <= write_off
      /\ tail_page \in Pages /\ DOMAIN mem = Pages
  BY <1>1 DEF PageInv, RingInv, FlushPcs
<1>4. Base(tail_page) \in Nat /\ L \in Nat
  BY ZenonT(40), TailFacts
<1>5. Base(tail_page) + L = from /\ Copied = from /\ Copied' = from'
  BY <1>1 DEF DiskInv, Copied, FlushPcs
<1>. HIDE DEF Chunk, NewImage, L, N
<1>6. ASSUME NEW i \in 1 .. N PROVE NewImage.bytes[i] = Base(tail_page) + i - 1
  <2>1. CASE i <= L
    <3>1. mem[tail_page].bytes[i] = Base(tail_page) + i - 1
      <4>1. i \in 1 .. L
        BY <1>2, <1>4, <2>1
      <4>. QED  BY ZenonT(40), <1>3, <4>1 DEF DiskInv, L
    <3>. QED  BY <1>2, <2>1, <3>1
  <2>2. CASE ~ (i <= L)
    <3>. DEFINE k == from + (i - L) - 1
    <3>1. k \in flush_off .. write_off - 1 /\ k = Base(tail_page) + i - 1
      BY <1>2, <1>3, <1>4, <1>5, <2>2
    <3>. HIDE DEF k
    <3>2. ring[k % BufSize] = k
      BY <3>1, Zenon DEF RingInv, UnflushedInRing
    <3>3. NewImage.bytes[i] = ring[k % BufSize]
      BY <1>2, <2>2 DEF k
    <3>. QED  BY ZenonT(40), <3>1, <3>2, <3>3
  <2>. QED  BY <2>1, <2>2
<1>7. /\ mem'[tail_page] = NewImage
      /\ \A p \in Pages \ {tail_page} : mem'[p] = mem[p]
  BY <1>1, <1>3
<1>8. disk' = mem'
  BY <1>1 DEF DiskInv
<1>9. Base(tail_page)' = Base(tail_page) /\ \A p : Base(p)' = Base(p)
  BY ZenonT(40), <1>1 DEF Base
<1>10. Base(tail_page) + Len(mem'[tail_page].bytes) = Copied'
  <2>1. Len(mem'[tail_page].bytes) = L + Chunk
    BY Zenon, <1>2, <1>7 DEF N
  <2>2. Copied' = from + Chunk
    BY Zenon, <1>1, <1>5
  <2>3. Base(tail_page) + (L + Chunk) = from + Chunk
    <3>1. /\ Base(tail_page) \in Nat /\ L \in Nat /\ Chunk \in Nat /\ from \in Nat
          /\ Base(tail_page) + L = from
      BY Zenon, <1>2, <1>3, <1>4, <1>5
    <3>. QED  BY <3>1
  <2>. QED  BY Zenon, <2>1, <2>2, <2>3
<1>11. \A p \in Pages : p < tail_page => Full(p)' /\ mem'[p].next = p + 1
  <2>. SUFFICES ASSUME NEW p \in Pages, p < tail_page
               PROVE  Full(p)' /\ mem'[p].next = p + 1
    OBVIOUS
  <2>1. p # tail_page
    BY <1>3 DEF Pages
  <2>2. mem'[p] = mem[p] /\ Full(p) /\ mem[p].next = p + 1
    BY <1>7, <2>1 DEF DiskInv
  <2>. QED  BY <2>2 DEF Full
<1>12. \A p \in Pages : \A i \in 1 .. Len(mem'[p].bytes) : mem'[p].bytes[i] = Base(p) + i - 1
  <2>. SUFFICES ASSUME NEW p \in Pages, NEW i \in 1 .. Len(mem'[p].bytes)
               PROVE  mem'[p].bytes[i] = Base(p) + i - 1
    OBVIOUS
  <2>1. CASE p = tail_page
    BY ZenonT(40), <1>6, <1>7, <2>1 DEF N
  <2>2. CASE p # tail_page
    BY ZenonT(40), <1>7, <2>2 DEF DiskInv
  <2>. QED  BY <2>1, <2>2
<1>13. DiskInv'
  BY ZenonT(40), <1>1, <1>8, <1>9, <1>10, <1>11, <1>12 DEF DiskInv
<1>. QED  BY <1>1, <1>2, <1>3, <1>5, <1>13

\* The link to the new page is on disk before the tail moves there.
LEMMA GrowDisk ==
  ASSUME WalInv, DiskInv, Grow
  PROVE  DiskInv' /\ Copied' = Copied
<1>. PageInv
  BY DEF WalInv
<1>1. /\ pc = "grow" /\ pc' = "newtail" /\ mem' = Linked
      /\ disk' = [disk EXCEPT ![tail_page] = Linked[tail_page]]
      /\ UNCHANGED <<flush_off, from, upto, tail_page>>
  BY SMTT(20), Z3T(20) DEF Grow, tail, flush
<1>2. tail_page \in Pages /\ DOMAIN mem = Pages /\ mem[tail_page] \in ImagesOf(tail_page)
  BY DEF PageInv
<1>3. /\ \A p \in Pages \ {tail_page} : Linked[p] = mem[p]
      /\ Linked[tail_page].bytes = mem[tail_page].bytes
      /\ Linked[tail_page].next = tail_page + 1
      /\ [mem EXCEPT ![tail_page] = Linked[tail_page]] = Linked
  BY SMTT(20), Z3T(20), <1>2 DEF Linked, NewPage, ImagesOf
<1>. HIDE DEF Linked
<1>4. disk' = mem'
  BY <1>1, <1>3 DEF DiskInv
<1>5. Copied' = Copied /\ \A p : Base(p)' = Base(p)
  BY <1>1 DEF Copied, FlushPcs, Base
<1>6. \A p \in Pages : mem'[p].bytes = mem[p].bytes /\ (mem[p].next = p + 1 => mem'[p].next = p + 1)
  BY <1>1, <1>3
<1>7. \A p \in Pages : Full(p)' = Full(p)
  BY <1>6 DEF Full
<1>8. Base(tail_page)' = Base(tail_page)
  BY SMTT(20), Z3T(20), <1>1 DEF Base
<1>. QED  BY <1>1, <1>2, <1>3, <1>4, <1>5, <1>6, <1>7, <1>8 DEF DiskInv

\* The tail moves on to the page that was linked to it.
LEMMA TailPageDisk ==
  ASSUME WalInv, DiskInv, TailPage
  PROVE  DiskInv' /\ Copied' = Copied
<1>. RingInv /\ BudgetInv /\ PageInv
  BY DEF WalInv
<1>1. /\ pc = "newtail" /\ pc' = "reset"
      /\ UNCHANGED <<flush_off, from, upto, mem, disk>>
  BY ZenonT(40) DEF TailPage, pages, flush
<1>2. tail_page' = tail_page + 1 /\ tail_page' \in Pages
  <2>1. PageInv' /\ tail_page' = tail_page + 1
    BY TailMoves
  <2>. QED  BY <2>1 DEF PageInv, Pages, MaxBytes
<1>3. /\ tail_page \in Nat \ {0} /\ Payload \in Nat \ {0}
      /\ Base(tail_page) \in Nat /\ Base(tail_page + 1) = Base(tail_page) + Payload
      /\ Len(mem[tail_page].bytes) \in Nat /\ Len(mem[tail_page].bytes) <= Payload
  BY ZenonT(40), TailFacts
<1>4. Full(tail_page) /\ mem[tail_page].next = tail_page + 1
  BY <1>1 DEF PageInv, DiskInv
<1>5. Len(mem[tail_page].bytes) = Payload
  BY SMTT(20), Z3T(20), <1>3, <1>4 DEF Full
<1>6. mem[tail_page + 1].bytes = <<>>
  BY <1>2, <1>3 DEF PageInv
<1>7. Len(mem[tail_page + 1].bytes) = 0
  BY <1>6
<1>8. Copied' = Copied /\ \A p : Base(p)' = Base(p) /\ Full(p)' = Full(p)
  BY <1>1 DEF Copied, FlushPcs, Base, Full
<1>9. (Base(tail_page) + Len(mem[tail_page].bytes) = Copied)'
  <2>1. Base(tail_page)' = Base(tail_page + 1)
    BY <1>2 DEF Base
  <2>2. Base(tail_page) + Payload = Copied
    BY <1>5 DEF DiskInv
  <2>. QED  BY <1>1, <1>2, <1>3, <1>7, <1>8, <2>1, <2>2
<1>10. ~ Full(tail_page)'
  BY <1>1, <1>2, <1>3, <1>7 DEF Full
<1>11. \A p \in Pages : p < tail_page' => Full(p) /\ mem[p].next = p + 1
  <2>1. \A p \in Pages : p < tail_page + 1 => p < tail_page \/ p = tail_page
    BY <1>3 DEF Pages
  <2>. QED  BY <1>2, <1>4, <2>1 DEF DiskInv
<1>. QED  BY <1>1, <1>2, <1>8, <1>9, <1>10, <1>11 DEF DiskInv

(* A step of the log, with Copied for what a reader of the disk finds. *)
LogMoves ==
  \/ write_off' > write_off /\ UNCHANGED <<Copied, flush_off>>
  \/ Copied' \in Copied .. write_off /\ UNCHANGED <<write_off, flush_off>>
  \/ flush_off' \in flush_off .. Copied /\ UNCHANGED <<write_off, Copied>>

\* While no allocation fails, every step keeps DiskInv and the log on disk only grows.
LEMMA DiskStep ==
  ASSUME WalInv, DiskInv, fails = 0, fails' = 0, [Next]_vars
  PROVE  DiskInv' /\ LogMoves
<1>. RingInv /\ BudgetInv /\ PageInv
  BY DEF WalInv
<1>0. /\ flush_off \in Nat /\ upto \in Nat /\ from \in Nat /\ write_off \in Nat
      /\ from <= upto /\ upto <= write_off /\ flush_off <= write_off
      /\ pc \in FlushPcs => flush_off <= from
      /\ Copied \in Nat /\ Copied <= write_off /\ flush_off <= Copied
  <2>1. /\ flush_off \in Nat /\ upto \in Nat /\ from \in Nat /\ write_off \in Nat
        /\ from <= upto /\ upto <= write_off /\ flush_off <= write_off
        /\ pc \in FlushPcs => flush_off <= from
        /\ pc # "panic"
    BY DEF RingInv, PageInv, DiskInv
  <2>. QED  BY SMTT(20), Z3T(20), <2>1 DEF Copied
<1>1. CASE Copy
  <2>1. /\ DiskInv' /\ Copied' = Copied + Chunk /\ Chunk \in Nat
        /\ Copied + Chunk <= write_off
    BY SMTT(20), Z3T(20), <1>1, CopyDisk
  <2>2. UNCHANGED <<write_off, flush_off>>
    BY <1>1 DEF Copy, buffer
  <2>. HIDE DEF Chunk, Copied
  <2>3. Copied' \in Copied .. write_off
    BY <1>0, <2>1
  <2>. QED  BY <2>1, <2>2, <2>3 DEF LogMoves
<1>2. CASE Grow
  <2>1. DiskInv' /\ Copied' = Copied /\ UNCHANGED <<write_off, flush_off>>
    BY SMTT(20), Z3T(20), <1>2, GrowDisk DEF Grow, buffer
  <2>. QED  BY <1>0, <2>1 DEF LogMoves
<1>3. CASE TailPage
  <2>1. DiskInv' /\ Copied' = Copied /\ UNCHANGED <<write_off, flush_off>>
    BY <1>3, TailPageDisk DEF TailPage, buffer
  <2>. QED  BY <1>0, <2>1 DEF LogMoves
<1>4. CASE TailUsed \/ TailReset
  <2>1. /\ pc \in FlushPcs /\ pc' \in {"grow", "copy", "advance"}
        /\ pc' # "grow" => ~ Full(tail_page)
        /\ pc' = "advance" => ~ (from < upto)
        /\ UNCHANGED <<write_off, flush_off, from, upto, tail_page, mem, disk>>
    BY <1>4 DEF TailUsed, TailReset, Loop, DiskInv, FlushPcs, buffer, pages, flush
  <2>2. Copied' = Copied
    BY <2>1 DEF Copied, FlushPcs
  <2>3. pc' = "advance" => from' = upto'
    BY <1>0, <2>1
  <2>4. DiskInv'
    BY <2>1, <2>2, <2>3, DiskKept
  <2>. QED  BY SMTT(20), Z3T(20), <1>0, <2>1, <2>2, <2>4 DEF LogMoves
<1>5. CASE GrowLate \/ GrowFails \/ GrowLateFails
  <2>1. GrowLate => FALSE
    BY DEF GrowLate, DiskInv
  <2>2. GrowFails \/ GrowLateFails => fails' = 1
    BY DEF GrowFails, GrowLateFails
  <2>. QED  BY SMTT(20), Z3T(20), <1>5, <2>1, <2>2
<1>6. CASE ProcStart \/ CkptFlush
  <2>1. /\ pc \in {"idle", "ckptflush"} /\ pc' \in {"flushed", "copy"}
        /\ from' = flush_off
        /\ UNCHANGED <<write_off, flush_off, mem, disk, tail_page>>
    BY <1>6 DEF ProcStart, CkptFlush, FlushStart, buffer, tail, pages
  <2>2. Copied' = Copied
    BY SMTT(20), Z3T(20), <2>1 DEF Copied, FlushPcs
  <2>3. ~ Full(tail_page)
    BY <2>1 DEF DiskInv
  <2>4. DiskInv'
    BY <2>1, <2>2, <2>3, DiskKept
  <2>. QED  BY <1>0, <2>1, <2>2, <2>4 DEF LogMoves
<1>7. CASE Advance
  <2>1. /\ pc = "advance" /\ pc' = "lsn" /\ flush_off' = upto
        /\ UNCHANGED <<write_off, from, upto, mem, disk, tail_page>>
    BY SMTT(20), Z3T(20), <1>7 DEF Advance, buffer, tail, pages, flush
  <2>2. from = upto /\ ~ Full(tail_page)
    BY <2>1 DEF DiskInv
  <2>3. Copied = upto /\ Copied' = upto
    BY <2>1, <2>2 DEF Copied, FlushPcs
  <2>4. DiskInv'
    BY <2>1, <2>2, <2>3, DiskKept
  <2>. QED  BY <1>0, <2>1, <2>3, <2>4 DEF LogMoves
<1>8. CASE SetFlushLsn \/ ProcYields \/ FlushDirtyFrames \/ CkptFull \/ CkptDone
  <2>1. /\ pc \in {"lsn", "flushed", "ckpt"} /\ pc' \in {"flushed", "idle", "ckpt"}
        /\ disk' = disk \/ disk' = mem
        /\ UNCHANGED <<write_off, flush_off, from, upto, mem, tail_page>>
    BY <1>8 DEF SetFlushLsn, ProcYields, FlushDirtyFrames, CkptFull, CkptDone,
       buffer, tail, pages, flush
  <2>2. Copied' = Copied
    BY ZenonT(40), <2>1 DEF Copied, FlushPcs
  <2>3. ~ Full(tail_page)
    BY ZenonT(40), <2>1 DEF DiskInv
  <2>4. DiskInv'
    BY <2>1, <2>2, <2>3, DiskKept
  <2>. QED  BY SMTT(20), Z3T(20), <1>0, <2>1, <2>2, <2>4 DEF LogMoves
<1>9. CASE CkptAppend
  <2>1. /\ pc = "ckpt" /\ pc' = "ckptflush" /\ write_off' = write_off + CkptLen
        /\ UNCHANGED <<flush_off, from, upto, mem, disk, tail_page>>
    BY <1>9 DEF CkptAppend, Put, tail, pages, flush
  <2>2. Copied' = Copied
    BY ZenonT(40), <2>1 DEF Copied, FlushPcs
  <2>3. ~ Full(tail_page)
    BY SMTT(20), Z3T(20), <2>1 DEF DiskInv
  <2>4. DiskInv'
    BY <2>1, <2>2, <2>3, DiskKept
  <2>5. write_off' > write_off
    BY <1>0, <2>1, WalAssumption
  <2>. QED  BY ZenonT(40), <2>1, <2>2, <2>4, <2>5 DEF LogMoves
<1>10. ASSUME NEW len \in 1 .. MaxLen, AppendRecord(len) PROVE DiskInv' /\ LogMoves
  <2>1. /\ write_off' = write_off + len
        /\ UNCHANGED <<pc, flush_off, from, upto, mem, disk, tail_page>>
    BY <1>10 DEF AppendRecord, Put, tail, pages, flush
  <2>2. Copied' = Copied
    BY ZenonT(40), <2>1 DEF Copied
  <2>3. DiskInv'
    BY <2>1, <2>2 DEF DiskInv, Full, Base
  <2>4. write_off' > write_off
    BY <1>0, <2>1
  <2>. QED  BY ZenonT(40), <2>1, <2>2, <2>3, <2>4 DEF LogMoves
<1>11. CASE UNCHANGED vars
  <2>1. UNCHANGED <<pc, write_off, flush_off, from, upto, mem, disk, tail_page>>
    BY <1>11 DEF vars, buffer, tail, pages, flush
  <2>2. Copied' = Copied
    BY ZenonT(40), <2>1 DEF Copied
  <2>3. DiskInv'
    BY <2>1, <2>2 DEF DiskInv, Full, Base
  <2>. QED  BY <1>0, <2>1, <2>2, <2>3 DEF LogMoves
<1>. QED
  BY <1>1, <1>2, <1>3, <1>4, <1>5, <1>6, <1>7, <1>8, <1>9, <1>10, <1>11
     DEF Next, Checkpointer, Flush

-----------------------------------------------------------------------------
\* Pages do not overlap.
LEMMA BaseMonotone ==
  ASSUME NEW p \in Nat \ {0}, NEW q \in Nat \ {0}, p < q
  PROVE  Base(p) + Payload <= Base(q)
<1>1. Payload \in Nat /\ p - 1 \in Nat /\ q - 1 \in Nat /\ q - p \in Nat /\ q - p >= 1
  BY WalAssumption
<1>2. (q - 1) * Payload = (p - 1) * Payload + (q - p) * Payload
  BY <1>1
<1>3. (q - p) * Payload >= Payload
  BY <1>1
<1>4. (p - 1) * Payload \in Nat /\ (q - p) * Payload \in Nat
  BY <1>1
<1>. QED  BY <1>1, <1>2, <1>3, <1>4 DEF Base

\* The page and the place in it that a reader looks for a byte at.
LEMMA PlaceOf ==
  ASSUME NEW k \in Nat
  PROVE  LET p == k \div Payload + 1
             i == (k % Payload) + 1
         IN  p \in Nat \ {0} /\ i \in 1 .. Payload /\ k = Base(p) + i - 1
<1>. DEFINE d == k \div Payload
            m == k % Payload
<1>1. /\ Payload \in Nat \ {0} /\ d \in Nat /\ m \in 0 .. Payload - 1
      /\ k = Payload * d + m
  BY WalAssumption
<1>. HIDE DEF d, m
<1>2. Base(d + 1) = Payload * d /\ Payload * d \in Nat
  BY <1>1 DEF Base
<1>3. d + 1 \in Nat \ {0} /\ m + 1 \in 1 .. Payload /\ k = Base(d + 1) + (m + 1) - 1
  BY <1>1, <1>2
<1>. QED  BY <1>3 DEF d, m

\* A reader of the disk finds what was taken from the ring, and no more.
LEMMA PrefixIsCopied ==
  ASSUME WalInv, DiskInv
  PROVE  ReadablePrefix = Copied
<1>. RingInv /\ BudgetInv /\ PageInv
  BY DEF WalInv
<1>0. MaxBytes \div Payload + 1 \in Nat
  <2>1. MaxBytes \in Nat
    BY ZenonT(40), LogIsBounded
  <2>. QED  BY <2>1, WalAssumption
<1>. DEFINE t == tail_page
            L == Len(mem[tail_page].bytes)
            P(k) == k \div Payload + 1
            I(k) == (k % Payload) + 1
<1>1. /\ t \in Nat \ {0} /\ t \in Pages /\ Payload \in Nat \ {0}
      /\ Base(t) \in Nat /\ L \in Nat /\ L <= Payload
  BY SMTT(20), Z3T(20), TailFacts DEF PageInv
<1>2. Copied = Base(t) + L
  BY DEF DiskInv
<1>3. Copied \in Nat /\ Copied <= write_off /\ write_off \in Nat
  <2>1. /\ flush_off \in Nat /\ upto \in Nat /\ from \in Nat /\ write_off \in Nat
        /\ from <= upto /\ upto <= write_off /\ flush_off <= write_off
    BY DEF RingInv, PageInv
  <2>. QED  BY SMTT(20), Z3T(20), <2>1 DEF Copied
<1>4. ASSUME NEW k \in Nat
      PROVE  /\ P(k) \in Nat \ {0} /\ I(k) \in 1 .. Payload /\ Base(P(k)) \in Nat
             /\ k = Base(P(k)) + I(k) - 1
  <2>1. P(k) \in Nat \ {0} /\ I(k) \in 1 .. Payload /\ k = Base(P(k)) + I(k) - 1
    BY PlaceOf, Zenon
  <2>. HIDE DEF P, I
  <2>. QED  BY <2>1, BaseFacts
<1>5. \A k \in Nat : Readable(k) <=> /\ P(k) \in Pages /\ Reachable(P(k))
                                     /\ I(k) <= Len(disk[P(k)].bytes)
                                     /\ disk[P(k)].bytes[I(k)] = k
  BY Zenon DEF Readable
<1>6. disk = mem
  BY DEF DiskInv
<1>. HIDE DEF t, L, P, I
<1>7. ASSUME NEW k \in 0 .. Copied - 1 PROVE Readable(k)
  <2>. k \in Nat
    BY <1>3
  <2>. DEFINE p == P(k)
              i == I(k)
  <2>1. /\ p \in Nat \ {0} /\ i \in 1 .. Payload /\ Base(p) \in Nat
        /\ k = Base(p) + i - 1
    BY <1>4
  <2>. HIDE DEF p, i
  <2>2. p <= t
    <3>. SUFFICES ASSUME t < p PROVE FALSE
      BY <1>1, <2>1
    <3>1. Base(t) + Payload <= Base(p)
      BY <1>1, <2>1, BaseMonotone
    <3>. QED  BY <1>1, <1>2, <1>3, <2>1, <3>1
  <2>3. p \in Pages
    BY SMTT(20), Z3T(20), <1>0, <1>1, <2>1, <2>2 DEF Pages
  <2>4. Reachable(p)
    <3>. SUFFICES ASSUME NEW q \in 1 .. p - 1 PROVE disk[q].next = q + 1
      BY DEF Reachable
    <3>1. q \in Pages /\ q < tail_page
      BY <1>0, <1>1, <2>1, <2>2, <2>3 DEF Pages, t
    <3>. QED  BY <1>6, <3>1 DEF DiskInv
  <2>5. i <= Len(mem[p].bytes)
    <3>1. CASE p = t
      <4>1. i <= L
        BY <1>1, <1>2, <1>3, <2>1, <3>1
      <4>. QED  BY <3>1, <4>1 DEF L, t
    <3>2. CASE p < t
      <4>1. Full(p) /\ mem[p] \in ImagesOf(p)
        BY ZenonT(40), <2>3, <3>2 DEF DiskInv, PageInv, t
      <4>2. mem[p].bytes \in Seq(Int)
        BY <4>1 DEF ImagesOf
      <4>3. Len(mem[p].bytes) \in Nat
        BY SMTT(20), Z3T(20), <4>2
      <4>. QED  BY <1>1, <2>1, <4>1, <4>3 DEF Full
    <3>. QED  BY <1>1, <2>1, <2>2, <3>1, <3>2
  <2>6. mem[p].bytes[i] = k
    <3>1. mem[p].bytes \in Seq(Int)
      BY <2>3 DEF PageInv, ImagesOf
    <3>2. Len(mem[p].bytes) \in Nat
      BY <3>1
    <3>3. i \in 1 .. Len(mem[p].bytes)
      BY <2>1, <2>5, <3>2
    <3>. QED  BY ZenonT(20), <2>1, <2>3, <3>3 DEF DiskInv
  <2>. QED  BY <1>5, <1>6, <2>3, <2>4, <2>5, <2>6 DEF p, i
<1>8. ~ Readable(Copied)
  <2>. SUFFICES ASSUME Readable(Copied) PROVE FALSE
    OBVIOUS
  <2>. DEFINE p == P(Copied)
              i == I(Copied)
  <2>1. /\ p \in Nat \ {0} /\ i \in 1 .. Payload /\ Base(p) \in Nat
        /\ Copied = Base(p) + i - 1
    BY SMTT(20), Z3T(20), <1>3, <1>4
  <2>2. p \in Pages /\ i <= Len(mem[p].bytes)
    BY <1>3, <1>5, <1>6
  <2>. HIDE DEF p, i
  <2>3. CASE p < t
    <3>1. Base(p) + Payload <= Base(t)
      BY ZenonT(40), <1>1, <2>1, <2>3, BaseMonotone
    <3>. QED  BY <1>1, <1>2, <2>1, <3>1
  <2>4. CASE p = t
    <3>1. i <= L
      BY <2>2, <2>4 DEF L, t
    <3>. QED  BY <1>1, <1>2, <2>1, <2>4, <3>1
  <2>5. CASE t < p
    <3>1. mem[p].bytes = <<>>
      BY SMTT(20), Z3T(20), <1>1, <2>1, <2>2, <2>5 DEF PageInv, t
    <3>2. Len(mem[p].bytes) = 0
      BY <3>1
    <3>. QED  BY SMTT(20), Z3T(20), <2>1, <2>2, <3>2
  <2>. QED  BY <1>1, <2>1, <2>3, <2>4, <2>5
<1>. DEFINE Is(n) == /\ \A k \in 0 .. n - 1 : Readable(k)
                     /\ n = write_off \/ ~ Readable(n)
<1>9. Is(Copied) /\ Copied \in 0 .. write_off
  BY <1>3, <1>7, <1>8
<1>10. ASSUME NEW n \in 0 .. write_off, Is(n) PROVE n = Copied
  <2>1. CASE n < Copied
    <3>1. n # write_off /\ n \in 0 .. Copied - 1
      BY <1>3, <2>1
    <3>. QED  BY <1>7, <1>10, <3>1
  <2>2. CASE n > Copied
    <3>1. Copied \in 0 .. n - 1
      BY <1>3, <2>2
    <3>. QED  BY <1>8, <1>10, <3>1
  <2>. QED  BY <1>3, <2>1, <2>2
<1>11. ReadablePrefix = CHOOSE n \in 0 .. write_off : Is(n)
  BY Zenon DEF ReadablePrefix
<1>. HIDE DEF Is
<1>. QED  BY <1>9, <1>10, <1>11

\* Failed allocations are counted.
LEMMA FailsAdd ==
  ASSUME WalInv, [Next]_vars, ~ (fails' > 0)
  PROVE  fails = 0 /\ fails' = 0
<1>1. fails \in Nat
  BY WalAssumption DEF WalInv, BudgetInv
<1>2. fails' = fails \/ fails' = fails + 1
  BY ZenonT(20) DEF Next, Checkpointer, Flush, Copy, TailUsed, Grow, GrowFails, GrowLate,
     GrowLateFails, TailPage, TailReset, Advance, SetFlushLsn, ProcStart, ProcYields,
     FlushDirtyFrames, CkptAppend, CkptFull, CkptFlush, CkptDone, AppendRecord, vars
<1>. QED  BY <1>1, <1>2

(* The disk holds a growing prefix of what kds_wal_append accepted, in     *)
(* order and across pages, and kds_wal_flush reports nothing that is not   *)
(* on it, until an allocation fails: the log implements module Log.        *)
THEOREM WalImplementsLog == Spec => ImplementsLog
<1>. DEFINE Good == fails > 0 \/ DiskInv
            Read == fails > 0 \/ (ReadablePrefix = Copied /\ Copied \in Nat)
<1>1. Init => Good
  <2>. SUFFICES ASSUME Init PROVE DiskInv
    OBVIOUS
  <2>1. PageInv
    BY WalInit DEF WalInv
  <2>2. \A p \in Pages : mem[p] = Fresh
    BY DEF Init
  <2>3. Fresh.bytes = <<>> /\ Len(Fresh.bytes) = 0
    BY ZenonT(40) DEF Fresh
  <2>4. tail_page = 1 /\ tail_page \in Pages /\ Base(tail_page) = 0 /\ Copied = 0
    BY SMTT(20), Z3T(20), <2>1, BaseFacts DEF Init, PageInv, Copied, FlushPcs
  <2>5. disk = mem /\ pc = "idle"
    BY DEF Init
  <2>6. ~ Full(tail_page)
    BY <2>2, <2>3, <2>4, WalAssumption DEF Full
  <2>7. \A p \in Pages : ~ (p < tail_page)
    BY <2>4 DEF Pages
  <2>8. \A p \in Pages : 1 .. Len(mem[p].bytes) = {}
    BY <2>2, <2>3
  <2>. QED  BY <2>2, <2>3, <2>4, <2>5, <2>6, <2>7, <2>8 DEF DiskInv
<1>2. WalInv /\ Good /\ [Next]_vars => Good'
  <2>. SUFFICES ASSUME WalInv, Good, [Next]_vars, ~ (fails' > 0) PROVE DiskInv'
    OBVIOUS
  <2>1. fails = 0 /\ fails' = 0
    BY FailsAdd
  <2>. QED  BY <2>1, DiskStep
<1>3. WalInv /\ Good => Read
  <2>. SUFFICES ASSUME WalInv, DiskInv PROVE ReadablePrefix = Copied /\ Copied \in Nat
    BY ZenonT(40)
  <2>1. flush_off \in Nat /\ from \in Nat
    BY DEF WalInv, RingInv, PageInv
  <2>. QED  BY <2>1, PrefixIsCopied DEF Copied
<1>4. Init => TheLog!Init
  <2>. SUFFICES ASSUME Init PROVE TheLog!Init
    OBVIOUS
  <2>1. ~ (fails > 0) /\ Copied = 0 /\ write_off = 0 /\ flush_off = 0
    BY DEF Init, Copied, FlushPcs
  <2>2. ReadablePrefix = 0
    BY SMTT(20), Z3T(20), <1>1, <1>3, <2>1, WalInit
  <2>. QED  BY SMTT(20), Z3T(20), <2>1, <2>2 DEF TheLog!Init
<1>5. WalInv /\ Good /\ Read /\ Read' /\ [Next]_vars =>
        [fails' > 0 \/ TheLog!Next]_(TheLog!vars)
  <2>. SUFFICES ASSUME WalInv, Good, Read, Read', [Next]_vars, ~ (fails' > 0)
               PROVE  TheLog!Next \/ UNCHANGED TheLog!vars
    OBVIOUS
  <2>1. fails = 0 /\ fails' = 0
    BY FailsAdd
  <2>2. LogMoves
    BY <2>1, DiskStep
  <2>3. /\ ReadablePrefix = Copied /\ Copied \in Nat
        /\ ReadablePrefix' = Copied' /\ Copied' \in Nat
    BY ZenonT(40), <2>1
  <2>4. /\ write_off \in Nat /\ flush_off \in Nat /\ write_off' \in Nat /\ flush_off' \in Nat
    BY RingStep DEF WalInv, RingInv
  <2>. HIDE DEF Copied, ReadablePrefix
  <2>5. CASE write_off' > write_off /\ UNCHANGED <<Copied, flush_off>>
    BY <2>3, <2>4, <2>5 DEF TheLog!Next, TheLog!Append
  <2>6. CASE Copied' \in Copied .. write_off /\ UNCHANGED <<write_off, flush_off>>
    BY <2>3, <2>4, <2>6 DEF TheLog!Next, TheLog!Persist, TheLog!vars
  <2>7. CASE flush_off' \in flush_off .. Copied /\ UNCHANGED <<write_off, Copied>>
    BY <2>3, <2>4, <2>7 DEF TheLog!Next, TheLog!Report, TheLog!vars
  <2>. QED  BY <2>2, <2>5, <2>6, <2>7 DEF LogMoves
<1>. QED
  BY <1>1, <1>2, <1>3, <1>4, <1>5, WalInvariant, PTL DEF Spec, ImplementsLog
=============================================================================
