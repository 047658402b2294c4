----------------------------- MODULE ShellProofs ----------------------------
(***************************************************************************)
(* The scheduler, for any number of CPUs and procs: workers and balancer   *)
(* neither run a proc twice, nor lose it, nor leave the list they walk.    *)
(*                                                                         *)
(* The command shell, one of its procs, for any number of clients,         *)
(* commands and timeouts: a client that has not timed out gets the answers *)
(* to its own commands, and an executor that runs without clients_lock has *)
(* its client and its relation behind it.                                  *)
(***************************************************************************)
EXTENDS Proc, Dshell, TLAPS

Distinct(s) == \A i, j \in DOMAIN s : s[i] = s[j] => i = j

(* Types of what the queues and the workers share. *)
Types ==
  /\ queue \in [Cpus -> Seq(Procs)]
  /\ nr \in [Cpus -> Nat]
  /\ best \in [Cpus -> Procs \union {NoProc}]
  /\ last \in [Cpus -> Procs \union {NoProc}]
  /\ prio \in [Procs -> PrioMin .. PrioMax]
  /\ wait \in [Procs -> 0 .. MaxWait]
  /\ running \subseteq Procs
  /\ home \in [Procs -> Cpus \union {-1}]
  /\ moving \in Procs \union {NoProc}
  /\ phase \in {"boot", "up", "stopping"}

(* Every proc is on one queue, once, that of its home, or with the balancer. *)
QueueInv ==
  \A c \in Cpus :
    /\ nr[c] = Len(queue[c])
    /\ Distinct(queue[c])
    /\ \A p \in Range(queue[c]) : home[p] = c /\ p # moving

(* proc->running is set for the procs the workers run, and those are on    *)
(* their queues.  curr_proc is the proc that runs: the fast path, which    *)
(* asks for a curr_proc that does not, is never taken.                     *)
WorkerInv ==
  /\ curr = best /\ fast = [c \in Cpus |-> FALSE]
  /\ \A c \in Cpus : best[c] # NoProc => best[c] \in running /\ best[c] \in Range(queue[c])
  /\ \A p \in running : \E c \in Cpus : best[c] = p
  /\ phase # "up" => \A c \in Cpus : best[c] = NoProc

BalancerInv ==
  /\ ~ broken
  /\ moving # NoProc => target \in Cpus /\ phase = "up"

PInv == Types /\ QueueInv /\ WorkerInv /\ BalancerInv

-----------------------------------------------------------------------------
\* list_del: what is left of the list, in the same order.
LEMMA ListDelElements ==
    ASSUME NEW S, NEW s \in Seq(S), NEW i \in DOMAIN s
    PROVE  /\ ListDel(s, i) \in Seq(S)
           /\ Len(ListDel(s, i)) = Len(s) - 1
           /\ \A j \in 1 .. Len(s) - 1 :
                ListDel(s, i)[j] = IF j < i THEN s[j] ELSE s[j + 1]
<1>. DEFINE n == Len(s) - 1
            r == ListDel(s, i)
<1>1. i \in 1 .. Len(s) /\ Len(s) \in Nat /\ n \in Nat
  BY SMTT(30)
<1>2. \A j \in 1 .. n : (IF j < i THEN s[j] ELSE s[j + 1]) \in S
  BY SMTT(30), <1>1
<1>3. r = [j \in 1 .. n |-> IF j < i THEN s[j] ELSE s[j + 1]]
  BY Zenon DEF ListDel
<1>. HIDE DEF n, r
<1>4. r \in [1 .. n -> S]
  BY Zenon, <1>2, <1>3
<1>5. r \in Seq(S) /\ Len(r) = n
  BY SMTT(30), <1>1, <1>4
<1>6. \A j \in 1 .. n : r[j] = IF j < i THEN s[j] ELSE s[j + 1]
  BY Zenon, <1>3
<1>. QED  BY Zenon, <1>5, <1>6 DEF n, r

\* list_del takes away one element, and nothing else.
LEMMA RemoveSet ==
    ASSUME NEW S, NEW s \in Seq(S), NEW k \in DOMAIN s, Distinct(s)
    PROVE  /\ ListDel(s, k) \in Seq(S)
           /\ Len(ListDel(s, k)) = Len(s) - 1
           /\ Distinct(ListDel(s, k))
           /\ Range(ListDel(s, k)) = Range(s) \ {s[k]}
<1>. DEFINE r == ListDel(s, k)
            Old(j) == IF j < k THEN j ELSE j + 1
<1>1. /\ r \in Seq(S) /\ Len(r) = Len(s) - 1
      /\ \A j \in 1 .. Len(s) - 1 : r[j] = IF j < k THEN s[j] ELSE s[j + 1]
  BY ListDelElements
<1>. HIDE DEF r
<1>2. /\ DOMAIN s = 1 .. Len(s) /\ DOMAIN r = 1 .. Len(s) - 1
      /\ Len(s) \in Nat /\ k \in 1 .. Len(s)
  BY <1>1
<1>3. ASSUME NEW j \in DOMAIN r
      PROVE  Old(j) \in DOMAIN s /\ Old(j) # k /\ r[j] = s[Old(j)]
  BY <1>1, <1>2
<1>4. \A i, j \in DOMAIN r : Old(i) = Old(j) => i = j
  BY <1>2
<1>5. ASSUME NEW i \in DOMAIN s, i # k PROVE \E j \in DOMAIN r : Old(j) = i
  <2>1. CASE i < k
    <3>1. i \in DOMAIN r /\ Old(i) = i
      BY <1>2, <2>1
    <3>. QED  BY <3>1
  <2>2. CASE i > k
    <3>1. i - 1 \in DOMAIN r /\ Old(i - 1) = i
      BY <1>2, <2>2
    <3>. QED  BY <3>1
  <2>. QED  BY <1>2, <1>5, <2>1, <2>2
<1>. HIDE DEF Old
<1>6. Distinct(r)
  <2>. SUFFICES ASSUME NEW i \in DOMAIN r, NEW j \in DOMAIN r, r[i] = r[j] PROVE i = j
    BY DEF Distinct
  <2>1. Old(i) = Old(j)
    BY <1>3 DEF Distinct
  <2>. QED  BY <2>1, <1>4
<1>7. Range(r) = Range(s) \ {s[k]}
  <2>1. ASSUME NEW j \in DOMAIN r PROVE r[j] \in Range(s) \ {s[k]}
    BY <1>3 DEF Distinct, Range
  <2>2. ASSUME NEW i \in DOMAIN s, s[i] # s[k] PROVE s[i] \in Range(r)
    BY <1>3, <1>5, <2>2 DEF Range
  <2>3. \A x \in Range(r) : \E j \in DOMAIN r : x = r[j]
    BY Zenon DEF Range
  <2>4. \A x \in Range(s) : \E j \in DOMAIN s : x = s[j]
    BY Zenon DEF Range
  <2>5. Range(r) \subseteq Range(s) \ {s[k]}
    BY <2>1, <2>3
  <2>6. Range(s) \ {s[k]} \subseteq Range(r)
    BY <2>2, <2>4
  <2>. QED  BY <2>5, <2>6
<1>. QED  BY <1>1, <1>6, <1>7 DEF r

\* list_add_tail of what is not there.
LEMMA AppendSet ==
    ASSUME NEW S, NEW s \in Seq(S), NEW x \in S, Distinct(s), x \notin Range(s)
    PROVE  /\ Append(s, x) \in Seq(S)
           /\ Len(Append(s, x)) = Len(s) + 1
           /\ Distinct(Append(s, x))
           /\ Range(Append(s, x)) = Range(s) \union {x}
<1>. DEFINE a == Append(s, x)
            n == Len(s)
<1>1. /\ a \in Seq(S) /\ Len(a) = n + 1 /\ DOMAIN a = 1 .. n + 1
      /\ DOMAIN s = 1 .. n /\ n \in Nat
      /\ \A i \in 1 .. n : a[i] = s[i]
      /\ a[n + 1] = x
  OBVIOUS
<1>. HIDE DEF a, n
<1>2. \A i \in DOMAIN a : i \in DOMAIN s \/ i = n + 1
  BY <1>1
<1>3. \A i \in DOMAIN s : i \in DOMAIN a /\ a[i] = s[i] /\ s[i] # x
  BY <1>1 DEF Range
<1>4. n + 1 \in DOMAIN a
  BY <1>1
<1>5. Distinct(a)
  BY <1>1, <1>2, <1>3 DEF Distinct
<1>6. Range(a) = Range(s) \union {x}
  <2>1. \A y \in Range(a) : \E j \in DOMAIN a : y = a[j]
    BY Zenon DEF Range
  <2>2. \A y \in Range(s) : \E j \in DOMAIN s : y = s[j]
    BY Zenon DEF Range
  <2>3. \A j \in DOMAIN a : a[j] \in Range(a)
    BY Zenon DEF Range
  <2>4. \A j \in DOMAIN s : s[j] \in Range(s)
    BY Zenon DEF Range
  <2>. QED  BY <1>1, <1>2, <1>3, <1>4, <2>1, <2>2, <2>3, <2>4
<1>. QED  BY <1>1, <1>5, <1>6 DEF a, n

-----------------------------------------------------------------------------
\* The initial state: nothing is registered.
LEMMA PInvInit == ProcInit => PInv
<1>. SUFFICES ASSUME ProcInit PROVE PInv
  OBVIOUS
<1>1. Types
  BY ProcAssumption DEF ProcInit, Types, Cpus, PrioMin
<1>2. QueueInv
  <2>1. ASSUME NEW c \in Cpus PROVE queue[c] = << >> /\ nr[c] = 0
    BY DEF ProcInit
  <2>2. Distinct(<< >>) /\ Range(<< >>) = {} /\ Len(<< >>) = 0
    BY DEF Distinct, Range
  <2>. QED  BY <2>1, <2>2 DEF QueueInv
<1>3. WorkerInv /\ BalancerInv
  BY DEF ProcInit, WorkerInv, BalancerInv
<1>. QED  BY <1>1, <1>2, <1>3 DEF PInv

\* A queue that gains a proc nobody has, or loses one.
LEMMA QueueOf ==
    ASSUME PInv, NEW c \in Cpus
    PROVE  /\ queue[c] \in Seq(Procs) /\ Distinct(queue[c]) /\ nr[c] = Len(queue[c])
           /\ Range(queue[c]) \subseteq Procs
           /\ \A p \in Range(queue[c]) : home[p] = c /\ p # moving
<1>1. queue[c] \in Seq(Procs)
  BY DEF PInv, Types
<1>2. \A i \in DOMAIN queue[c] : queue[c][i] \in Procs
  BY <1>1
<1>3. Range(queue[c]) \subseteq Procs
  BY <1>2, Zenon DEF Range
<1>. QED  BY <1>1, <1>3 DEF PInv, QueueInv

\* kds_proc_register queues a proc that is on no queue.
LEMMA RegisterStep ==
    ASSUME PInv, NEW p \in Procs, Register(p)
    PROVE  PInv'
<1>. DEFINE c == SelectCpu
<1>1. c \in Cpus
  BY ProcAssumption DEF Cpus, SelectCpu
<1>2. home[p] = -1 /\ phase = "boot" /\ moving = NoProc
  BY DEF Register, PInv, BalancerInv
<1>3. \A d \in Cpus : d # -1
  BY ProcAssumption DEF Cpus
<1>4. \A d \in Cpus : p \notin Range(queue[d])
  BY <1>2, <1>3, QueueOf
<1>5. /\ queue' = [queue EXCEPT ![c] = Append(queue[c], p)]
      /\ nr' = [nr EXCEPT ![c] = nr[c] + 1]
      /\ home' = [home EXCEPT ![p] = c]
      /\ UNCHANGED <<worker, ages, balancer, phase>>
  BY DEF Register
<1>. HIDE DEF c
<1>6. /\ Append(queue[c], p) \in Seq(Procs) /\ Len(Append(queue[c], p)) = Len(queue[c]) + 1
      /\ Distinct(Append(queue[c], p))
      /\ Range(Append(queue[c], p)) = Range(queue[c]) \union {p}
  BY <1>1, <1>4, QueueOf, AppendSet
<1>7. Types'
  <2>1. queue' \in [Cpus -> Seq(Procs)]
    BY <1>1, <1>5, <1>6 DEF PInv, Types
  <2>2. nr' \in [Cpus -> Nat] /\ home' \in [Procs -> Cpus \union {-1}]
    BY SMTT(20), Z3T(20), <1>1, <1>5 DEF PInv, Types
  <2>. QED  BY SMTT(20), Z3T(20), <1>5, <2>1, <2>2 DEF PInv, Types, worker, ages, balancer
<1>8. ASSUME NEW d \in Cpus
      PROVE  /\ nr'[d] = Len(queue'[d]) /\ Distinct(queue'[d])
             /\ \A q \in Range(queue'[d]) : home'[q] = d /\ q # moving'
  <2>1. CASE d = c
    <3>1. queue'[d] = Append(queue[c], p) /\ nr'[d] = nr[c] + 1
      BY <1>1, <1>5, <2>1 DEF PInv, Types
    <3>2. \A q \in Range(queue[c]) \union {p} : home'[q] = d /\ q # moving'
      <4>1. /\ home \in [Procs -> Cpus \union {-1}]
            /\ home' = [home EXCEPT ![p] = c] /\ moving' = moving
        BY Zenon, <1>5 DEF PInv, Types, balancer
      <4>2. \A q \in Range(queue[c]) : q \in Procs /\ home[q] = c /\ q # moving
        BY Zenon, <1>1, QueueOf
      <4>3. p # moving
        BY Zenon, <1>2, ProcAssumption
      <4>. QED  BY <1>1, <2>1, <4>1, <4>2, <4>3
    <3>. QED  BY <1>1, <1>6, <3>1, <3>2, QueueOf
  <2>2. CASE d # c
    <3>1. queue'[d] = queue[d] /\ nr'[d] = nr[d]
      BY <1>5, <2>2 DEF PInv, Types
    <3>2. \A q \in Range(queue[d]) : home'[q] = home[q]
      BY <1>4, <1>5, QueueOf DEF PInv, Types
    <3>. QED  BY ZenonT(20), <1>5, <3>1, <3>2, QueueOf DEF balancer
  <2>. QED  BY <2>1, <2>2
<1>9. WorkerInv' /\ BalancerInv'
  <2>1. \A d \in Cpus : best'[d] = NoProc
    BY <1>2, <1>5 DEF PInv, WorkerInv, worker
  <2>. QED  BY <1>2, <1>5, <2>1 DEF PInv, WorkerInv, BalancerInv, worker, balancer
<1>. QED  BY <1>7, <1>8, <1>9 DEF PInv, QueueInv

\* kds_main starts the threads, kds_cleanup stops them.
LEMMA PhaseStep ==
    ASSUME PInv, Start \/ Stop
    PROVE  PInv'
<1>1. UNCHANGED <<rqs, worker, ages, home, balancer>> /\ phase' \in {"boot", "up", "stopping"}
  BY DEF Start, Stop
<1>2. Types' /\ QueueInv'
  BY SMTT(20), Z3T(20), <1>1 DEF PInv, Types, QueueInv, rqs, worker, ages, balancer
<1>3. \A c \in Cpus : best[c] = NoProc
  BY DEF Start, Stop, PInv, WorkerInv
<1>4. moving = NoProc
  BY DEF Start, Stop, PInv, BalancerInv
<1>5. WorkerInv' /\ BalancerInv'
  BY <1>1, <1>3, <1>4 DEF PInv, WorkerInv, BalancerInv, rqs, worker, balancer
<1>. QED  BY <1>2, <1>5 DEF PInv

\* A worker selects a proc: from its queue, and not one that runs.
LEMMA SelectStep ==
    ASSUME PInv, NEW c \in Cpus, Select(c)
    PROVE  PInv'
<1>1. best[c] = NoProc /\ curr = best /\ phase = "up"
  BY DEF Select, PInv, WorkerInv
<1>2. ~ FastPath(c)
  BY <1>1 DEF FastPath
<1>3. PICK p \in Best(c) :
        /\ best' = [best EXCEPT ![c] = p]
        /\ curr' = [curr EXCEPT ![c] = p]
        /\ last' = [last EXCEPT ![c] = p]
        /\ running' = running \union {p}
  BY ZenonT(20), <1>2 DEF Select
<1>4. /\ fast' = [fast EXCEPT ![c] = FALSE]
      /\ UNCHANGED <<rqs, ages, home, balancer, phase>>
  <2>1. FastPath(c) = FALSE
    BY <1>2 DEF FastPath
  <2>. QED  BY <2>1, Zenon DEF Select
<1>5. p \in Procs /\ p \notin running /\ p \in Range(queue[c])
  <2>1. p \in Procs /\ p \in Range(queue[c]) /\ p \notin running
    BY <1>3 DEF Best, Ready
  <2>. QED  BY <2>1, QueueOf
<1>6. Types' /\ QueueInv' /\ BalancerInv'
  <2>1. best' \in [Cpus -> Procs \union {NoProc}] /\ last' \in [Cpus -> Procs \union {NoProc}]
    BY SMTT(20), Z3T(20), <1>3, <1>5 DEF PInv, Types
  <2>2. running' \subseteq Procs
    BY ZenonT(20), <1>3, <1>5 DEF PInv, Types
  <2>. QED
    BY ZenonT(20), <1>1, <1>4, <2>1, <2>2
       DEF PInv, Types, QueueInv, BalancerInv, rqs, ages, balancer
<1>7. WorkerInv'
  <2>1. curr' = best' /\ fast' = [d \in Cpus |-> FALSE] /\ phase' = "up"
    BY ZenonT(20), <1>1, <1>3, <1>4 DEF PInv, WorkerInv
  <2>2. \A d \in Cpus : best'[d] = IF d = c THEN p ELSE best[d]
    BY <1>3 DEF PInv, Types
  <2>3. ASSUME NEW d \in Cpus, best'[d] # NoProc
        PROVE  best'[d] \in running' /\ best'[d] \in Range(queue'[d])
    BY <1>3, <1>4, <1>5, <2>2, <2>3 DEF PInv, WorkerInv, rqs
  <2>4. ASSUME NEW q \in running' PROVE \E d \in Cpus : best'[d] = q
    <3>1. CASE q = p
      BY <2>2, <3>1
    <3>2. CASE q \in running
      <4>1. PICK d \in Cpus : best[d] = q
        BY <3>2 DEF PInv, WorkerInv
      <4>2. d # c
        BY <1>1, <3>2, <4>1, ProcAssumption DEF PInv, Types
      <4>. QED  BY <2>2, <4>1, <4>2
    <3>. QED  BY SMTT(20), Z3T(20), <1>3, <3>1, <3>2
  <2>. QED  BY <2>1, <2>3, <2>4 DEF WorkerInv
<1>. QED  BY <1>6, <1>7 DEF PInv

\* A slice ends: no other worker runs the proc.
LEMMA EndSliceStep ==
    ASSUME PInv, NEW c \in Cpus, EndSlice(c)
    PROVE  PInv'
<1>1. /\ best[c] # NoProc /\ best[c] \in Range(queue[c]) /\ curr = best
      /\ fast = [d \in Cpus |-> FALSE]
  BY DEF EndSlice, PInv, WorkerInv
<1>2. /\ running' = running \ {best[c]}
      /\ best' = [best EXCEPT ![c] = NoProc]
      /\ curr' = [best EXCEPT ![c] = NoProc]
      /\ UNCHANGED <<rqs, fast, last, home, balancer, phase>>
  BY <1>1 DEF EndSlice
<1>3. prio' \in [Procs -> PrioMin .. PrioMax] /\ wait' \in [Procs -> 0 .. MaxWait]
  <2>1. ASSUME NEW p \in Procs
        PROVE  Boost(prio[p]) \in PrioMin .. PrioMax /\ prio[p] \in PrioMin .. PrioMax
    BY SMTT(20), Z3T(20), ProcAssumption DEF PInv, Types, Boost, PrioMin
  <2>2. prio' = [p \in Procs |-> IF Waiting(c, p) THEN Boost(prio[p]) ELSE prio[p]]
    BY DEF EndSlice, Age
  <2>3. prio' \in [Procs -> PrioMin .. PrioMax]
    BY ZenonT(40), <2>1, <2>2
  <2>4. wait' = [p \in Procs |-> IF p = best[c] THEN 0
                   ELSE IF Waiting(c, p) /\ wait[p] < MaxWait THEN wait[p] + 1 ELSE wait[p]]
    BY DEF EndSlice, Age, Waits
  <2>5. wait' \in [Procs -> 0 .. MaxWait]
    BY SMTT(20), Z3T(20), <2>4, ProcAssumption DEF PInv, Types
  <2>. QED  BY <2>3, <2>5
<1>4. Types' /\ QueueInv' /\ BalancerInv'
  <2>1. best' \in [Cpus -> Procs \union {NoProc}] /\ running' \subseteq Procs
    BY <1>2 DEF PInv, Types
  <2>. QED
    BY <1>2, <1>3, <2>1 DEF PInv, Types, QueueInv, BalancerInv, rqs, balancer
<1>5. WorkerInv'
  <2>1. curr' = best' /\ fast' = [d \in Cpus |-> FALSE]
    BY ZenonT(20), <1>1, <1>2
  <2>2. \A d \in Cpus : best'[d] = IF d = c THEN NoProc ELSE best[d]
    BY SMTT(20), Z3T(20), <1>2 DEF PInv, Types
  <2>3. ASSUME NEW d \in Cpus, best'[d] # NoProc
        PROVE  best'[d] \in running' /\ best'[d] \in Range(queue'[d])
    <3>1. d # c /\ best'[d] = best[d]
      BY SMTT(20), Z3T(20), <2>2, <2>3
    <3>2. best[d] \in running /\ best[d] \in Range(queue[d])
      BY <2>3, <3>1 DEF PInv, WorkerInv
    <3>3. best[d] # best[c]
      <4>1. home[best[c]] = c
        BY <1>1, QueueOf
      <4>2. home[best[d]] = d
        BY <3>2, QueueOf
      <4>. QED  BY ZenonT(20), <3>1, <4>1, <4>2
    <3>. QED  BY SMTT(20), Z3T(20), <1>2, <3>1, <3>2, <3>3 DEF rqs
  <2>4. ASSUME NEW q \in running' PROVE \E d \in Cpus : best'[d] = q
    <3>1. PICK d \in Cpus : best[d] = q
      BY SMTT(20), Z3T(20), <1>2 DEF PInv, WorkerInv
    <3>. QED  BY SMTT(20), Z3T(20), <1>2, <2>2, <3>1
  <2>5. phase' # "up" => \A d \in Cpus : best'[d] = NoProc
    BY <1>2, <2>2 DEF PInv, WorkerInv
  <2>. QED  BY ZenonT(20), <2>1, <2>3, <2>4, <2>5 DEF WorkerInv
<1>. QED  BY <1>4, <1>5 DEF PInv

\* A queue that is too long holds a proc that does not run.
LEMMA SearchFinds ==
    ASSUME PInv, NEW src \in Cpus, NEW dst \in Cpus, Unbalanced(src, dst)
    PROVE  Movable(src) # {}
<1>1. nr[src] - nr[dst] > 2 /\ nr[src] \in Nat /\ nr[dst] \in Nat
  BY DEF Unbalanced, Threshold, PInv, Types
<1>2. 1 \in DOMAIN queue[src] /\ 2 \in DOMAIN queue[src]
  <2>1. DOMAIN queue[src] = 1 .. nr[src]
    BY QueueOf
  <2>. QED  BY <1>1, <2>1
<1>3. ASSUME NEW i \in DOMAIN queue[src], queue[src][i] \in running
      PROVE  queue[src][i] = best[src]
  <2>1. PICK c \in Cpus : best[c] = queue[src][i]
    BY <1>3 DEF PInv, WorkerInv
  <2>2. best[c] # NoProc
    BY ZenonT(40), <1>3, <2>1, ProcAssumption DEF PInv, Types
  <2>3. best[c] \in Range(queue[c])
    BY <2>2 DEF PInv, WorkerInv
  <2>4. best[c] \in Range(queue[src])
    BY <2>1, Zenon DEF Range
  <2>5. c = src
    BY ZenonT(60), <2>3, <2>4, QueueOf
  <2>. QED  BY ZenonT(40), <2>1, <2>5
<1>4. queue[src][1] # queue[src][2]
  BY <1>2, QueueOf DEF Distinct
<1>. QED  BY <1>2, <1>3, <1>4 DEF Movable

\* The balancer takes a proc that does not run; its search ends within the list.
LEMMA TakeStep ==
    ASSUME PInv, NEW src \in Cpus, NEW dst \in Cpus, BalanceTake(src, dst)
    PROVE  PInv'
<1>1. Unbalanced(src, dst) /\ moving = NoProc /\ phase = "up"
  BY DEF BalanceTake
<1>2. Movable(src) # {}
  BY <1>1, SearchFinds
<1>3. PICK i \in Movable(src) :
        /\ moving' = queue[src][i]
        /\ queue' = [queue EXCEPT ![src] = ListDel(queue[src], i)]
        /\ broken' = broken
  BY <1>2 DEF BalanceTake
<1>4. /\ nr' = [nr EXCEPT ![src] = nr[src] - 1] /\ target' = dst
      /\ UNCHANGED <<worker, ages, home, phase>>
  BY DEF BalanceTake
<1>. DEFINE p == queue[src][i]
            rest == ListDel(queue[src], i)
<1>5. i \in DOMAIN queue[src] /\ p \notin running
  BY SMTT(20), Z3T(20), <1>3 DEF Movable
<1>6. /\ rest \in Seq(Procs) /\ Len(rest) = Len(queue[src]) - 1 /\ Distinct(rest)
      /\ Range(rest) = Range(queue[src]) \ {p}
  BY SMTT(20), Z3T(20), <1>5, QueueOf, RemoveSet
<1>7. p \in Range(queue[src]) /\ p \in Procs /\ home[p] = src
  <2>1. p \in Range(queue[src])
    BY <1>5, Zenon DEF Range
  <2>. QED  BY <2>1, QueueOf
<1>8. Len(queue[src]) \in Nat /\ Len(queue[src]) > 0
  <2>1. nr[src] - nr[dst] > 2
    BY Zenon, <1>1 DEF Unbalanced, Threshold
  <2>2. nr \in [Cpus -> Nat] /\ nr[src] = Len(queue[src])
    BY Zenon, QueueOf DEF PInv, Types
  <2>. QED  BY <2>1, <2>2
<1>9. moving' = p /\ queue' = [queue EXCEPT ![src] = rest]
  BY <1>3
<1>. HIDE DEF p, rest
<1>10. Types'
  <2>1. queue' \in [Cpus -> Seq(Procs)]
    BY <1>6, <1>9 DEF PInv, Types
  <2>2. nr' \in [Cpus -> Nat]
    <3>1. nr[src] - 1 \in Nat
      BY SMTT(20), Z3T(20), <1>8, QueueOf
    <3>. QED  BY SMTT(20), Z3T(20), <1>4, <3>1 DEF PInv, Types
  <2>. QED  BY ZenonT(40), <1>4, <1>7, <1>9, <2>1, <2>2 DEF PInv, Types, worker, ages
<1>11. ASSUME NEW d \in Cpus
       PROVE  /\ nr'[d] = Len(queue'[d]) /\ Distinct(queue'[d])
              /\ \A q \in Range(queue'[d]) : home'[q] = d /\ q # moving'
  <2>1. CASE d = src
    <3>1. queue'[d] = rest /\ nr'[d] = nr[src] - 1
      BY <1>4, <1>9, <2>1 DEF PInv, Types
    <3>. QED  BY ZenonT(20), <1>4, <1>6, <1>9, <2>1, <3>1, QueueOf
  <2>2. CASE d # src
    <3>1. queue'[d] = queue[d] /\ nr'[d] = nr[d]
      BY ZenonT(40), <1>4, <1>9, <2>2 DEF PInv, Types
    <3>2. \A q \in Range(queue[d]) : home[q] = d /\ q # p
      BY ZenonT(40), <1>7, <2>2, QueueOf
    <3>. QED  BY ZenonT(20), <1>4, <1>9, <3>1, <3>2, QueueOf
  <2>. QED  BY <2>1, <2>2
<1>12. WorkerInv'
  <2>1. curr' = curr /\ best' = best /\ fast' = fast /\ running' = running /\ phase' = phase
    BY ZenonT(40), <1>4 DEF worker
  <2>2. ASSUME NEW d \in Cpus, best[d] # NoProc
        PROVE  best[d] \in running /\ best[d] \in Range(queue'[d])
    <3>1. best[d] \in running /\ best[d] \in Range(queue[d]) /\ best[d] # p
      BY <1>5, <2>2 DEF PInv, WorkerInv, p
    <3>2. queue'[d] = IF d = src THEN rest ELSE queue[d]
      BY <1>9 DEF PInv, Types
    <3>. QED  BY ZenonT(40), <1>6, <3>1, <3>2
  <2>. QED  BY <2>1, <2>2 DEF PInv, WorkerInv
<1>13. BalancerInv'
  BY SMTT(20), Z3T(20), <1>1, <1>3, <1>4 DEF PInv, BalancerInv
<1>. QED  BY <1>10, <1>11, <1>12, <1>13 DEF PInv, QueueInv

\* It puts the proc on another queue, and proc->cpu follows.
LEMMA PutStep ==
    ASSUME PInv, BalancePut
    PROVE  PInv'
<1>. DEFINE p == moving
            c == target
<1>1. p \in Procs /\ c \in Cpus /\ phase = "up" /\ p # NoProc
  BY DEF BalancePut, PInv, Types, BalancerInv
<1>2. /\ queue' = [queue EXCEPT ![c] = Append(queue[c], p)]
      /\ nr' = [nr EXCEPT ![c] = nr[c] + 1]
      /\ home' = [home EXCEPT ![p] = c] /\ moving' = NoProc
      /\ UNCHANGED <<worker, ages, target, broken, phase>>
  BY SMTT(20), Z3T(20) DEF BalancePut
<1>3. \A d \in Cpus : p \notin Range(queue[d])
  BY SMTT(20), Z3T(20), QueueOf
<1>. HIDE DEF p, c
<1>4. /\ Append(queue[c], p) \in Seq(Procs) /\ Len(Append(queue[c], p)) = Len(queue[c]) + 1
      /\ Distinct(Append(queue[c], p))
      /\ Range(Append(queue[c], p)) = Range(queue[c]) \union {p}
  BY <1>1, <1>3, QueueOf, AppendSet
<1>5. Types'
  <2>1. queue' \in [Cpus -> Seq(Procs)]
    BY SMTT(20), Z3T(20), <1>1, <1>2, <1>4 DEF PInv, Types
  <2>2. nr' \in [Cpus -> Nat] /\ home' \in [Procs -> Cpus \union {-1}]
    BY SMTT(20), Z3T(20), <1>1, <1>2 DEF PInv, Types
  <2>. QED  BY ZenonT(40), <1>2, <2>1, <2>2 DEF PInv, Types, worker, ages
<1>6. ASSUME NEW d \in Cpus
      PROVE  /\ nr'[d] = Len(queue'[d]) /\ Distinct(queue'[d])
             /\ \A q \in Range(queue'[d]) : home'[q] = d /\ q # moving'
  <2>0. \A q \in Range(queue[d]) : q \in Procs /\ q # p /\ home'[q] = d /\ q # NoProc
    <3>1. home \in [Procs -> Cpus \union {-1}] /\ home' = [home EXCEPT ![p] = c]
      BY Zenon, <1>2 DEF PInv, Types
    <3>2. \A q \in Range(queue[d]) : q \in Procs /\ home[q] = d /\ q # p
      BY Zenon, <1>3, QueueOf
    <3>. QED  BY <1>1, <3>1, <3>2, ProcAssumption
  <2>1. CASE d = c
    <3>1. queue'[d] = Append(queue[c], p) /\ nr'[d] = nr[c] + 1 /\ home'[p] = d
      BY <1>1, <1>2, <2>1 DEF PInv, Types
    <3>. QED  BY SMTT(20), Z3T(20), <1>1, <1>2, <1>4, <2>0, <2>1, <3>1, QueueOf
  <2>2. CASE d # c
    <3>1. queue'[d] = queue[d] /\ nr'[d] = nr[d]
      BY SMTT(20), Z3T(20), <1>2, <2>2 DEF PInv, Types
    <3>. QED  BY ZenonT(20), <1>2, <2>0, <3>1, QueueOf
  <2>. QED  BY ZenonT(40), <2>1, <2>2
<1>7. WorkerInv'
  <2>1. curr' = curr /\ best' = best /\ fast' = fast /\ running' = running /\ phase' = phase
    BY <1>2 DEF worker
  <2>2. ASSUME NEW d \in Cpus, best[d] # NoProc
        PROVE  best[d] \in running /\ best[d] \in Range(queue'[d])
    <3>1. best[d] \in running /\ best[d] \in Range(queue[d])
      BY <2>2 DEF PInv, WorkerInv
    <3>2. queue'[d] = IF d = c THEN Append(queue[c], p) ELSE queue[d]
      BY <1>1, <1>2 DEF PInv, Types
    <3>. QED  BY ZenonT(20), <1>4, <3>1, <3>2
  <2>. QED  BY <2>1, <2>2 DEF PInv, WorkerInv
<1>8. BalancerInv'
  BY ZenonT(40), <1>2 DEF PInv, BalancerInv
<1>. QED  BY SMTT(20), Z3T(20), <1>5, <1>6, <1>7, <1>8 DEF PInv, QueueInv

\* kds_proc_unregister: proc->cpu names the queue the proc is on.
LEMMA UnregisterStep ==
    ASSUME PInv, NEW p \in Procs, Unregister(p)
    PROVE  PInv'
<1>1. PICK c \in Cpus : \E k \in DOMAIN queue[c] :
        queue[c][k] = p /\ queue' = [queue EXCEPT ![c] = ListDel(queue[c], k)]
  BY ZenonT(20) DEF Unregister
<1>2. PICK i \in DOMAIN queue[c] :
        queue[c][i] = p /\ queue' = [queue EXCEPT ![c] = ListDel(queue[c], i)]
  BY ZenonT(20), <1>1
<1>3. home[p] = c
  <2>1. p \in Range(queue[c])
    BY <1>2, Zenon DEF Range
  <2>. QED  BY <2>1, QueueOf
<1>4. /\ phase = "stopping" /\ nr' = [nr EXCEPT ![c] = nr[c] - 1]
      /\ UNCHANGED <<worker, ages, home, balancer, phase>>
  BY <1>3 DEF Unregister
<1>. DEFINE rest == ListDel(queue[c], i)
<1>5. /\ rest \in Seq(Procs) /\ Len(rest) = Len(queue[c]) - 1 /\ Distinct(rest)
      /\ Range(rest) = Range(queue[c]) \ {p}
  <2>1. queue[c] \in Seq(Procs) /\ Distinct(queue[c])
    BY Zenon, QueueOf
  <2>2. /\ rest \in Seq(Procs) /\ Len(rest) = Len(queue[c]) - 1 /\ Distinct(rest)
        /\ Range(rest) = Range(queue[c]) \ {queue[c][i]}
    BY Zenon, <2>1, RemoveSet
  <2>. QED  BY Zenon, <1>2, <2>2
<1>6. Len(queue[c]) \in Nat /\ Len(queue[c]) > 0
  <2>1. queue[c] \in Seq(Procs)
    BY SMTT(20), Z3T(20), QueueOf
  <2>. QED  BY SMTT(20), Z3T(20), <1>2, <2>1
<1>7. queue' = [queue EXCEPT ![c] = rest]
  BY <1>2
<1>. HIDE DEF rest
<1>8. Types'
  <2>1. queue' \in [Cpus -> Seq(Procs)]
    BY <1>5, <1>7 DEF PInv, Types
  <2>2. nr' \in [Cpus -> Nat]
    <3>1. nr[c] - 1 \in Nat
      BY <1>6, QueueOf
    <3>. QED  BY ZenonT(20), <1>4, <3>1 DEF PInv, Types
  <2>. QED  BY ZenonT(20), <1>4, <2>1, <2>2 DEF PInv, Types, worker, ages, balancer
<1>9. ASSUME NEW d \in Cpus
      PROVE  /\ nr'[d] = Len(queue'[d]) /\ Distinct(queue'[d])
             /\ \A q \in Range(queue'[d]) : home'[q] = d /\ q # moving'
  <2>1. CASE d = c
    <3>1. queue'[d] = rest /\ nr'[d] = nr[c] - 1
      BY ZenonT(20), <1>4, <1>7, <2>1 DEF PInv, Types
    <3>. QED  BY <1>4, <1>5, <2>1, <3>1, QueueOf DEF balancer
  <2>2. CASE d # c
    <3>1. queue'[d] = queue[d] /\ nr'[d] = nr[d]
      BY ZenonT(20), <1>4, <1>7, <2>2 DEF PInv, Types
    <3>. QED  BY ZenonT(20), <1>4, <3>1, QueueOf DEF balancer
  <2>. QED  BY ZenonT(20), <2>1, <2>2
<1>10. WorkerInv' /\ BalancerInv'
  <2>1. \A d \in Cpus : best'[d] = NoProc
    BY <1>4 DEF PInv, WorkerInv, worker
  <2>. QED  BY ZenonT(40), <1>4, <2>1 DEF PInv, WorkerInv, BalancerInv, worker, balancer
<1>. QED  BY <1>8, <1>9, <1>10 DEF PInv, QueueInv

-----------------------------------------------------------------------------
(* What the workers and the balancer keep up between them through the      *)
(* queues' locks and proc->running (proc.c).                               *)
THEOREM SchedulerInvariant == ProcSpec => []PInv
<1>1. ProcInit => PInv
  BY PInvInit
<1>2. PInv /\ [ProcNext]_schedVars => PInv'
  <2>. SUFFICES ASSUME PInv, [ProcNext]_schedVars PROVE PInv'
    OBVIOUS
  <2>1. CASE ProcNext
    BY ZenonT(40), <2>1, RegisterStep, PhaseStep, SelectStep, EndSliceStep, TakeStep,
       PutStep,
       UnregisterStep DEF ProcNext, Workers, Balance
  <2>2. CASE UNCHANGED schedVars
    BY <2>2 DEF PInv, Types, QueueInv, WorkerInv, BalancerInv, schedVars, rqs, worker, ages,
       balancer
  <2>. QED  BY <2>1, <2>2
<1>. QED
  BY <1>1, <1>2, PTL DEF ProcSpec

(* A proc that is being run is on the queue of the CPU that runs it, and   *)
(* runs on no other CPU (kds_proc_schedule, kds_load_balance).             *)
THEOREM ProcsRunAtHome == ProcSpec => []RunsAtHome
<1>1. PInv => RunsAtHome
  <2>. SUFFICES ASSUME PInv, NEW c \in Cpus, best[c] # NoProc
                PROVE  /\ best[c] \in Range(queue[c])
                       /\ home[best[c]] = c
                       /\ best[c] \in running
                       /\ \A d \in Cpus \ {c} : best[d] # best[c]
    BY SMTT(20), Z3T(20) DEF RunsAtHome
  <2>1. best[c] \in running /\ best[c] \in Range(queue[c])
    BY SMTT(20), Z3T(20) DEF PInv, WorkerInv
  <2>2. home[best[c]] = c /\ best[c] \in Range(queue[c])
    BY SMTT(20), Z3T(20), <2>1, QueueOf
  <2>3. ASSUME NEW d \in Cpus, best[d] = best[c] PROVE d = c
    <3>1. best[d] \in Range(queue[d])
      BY <2>3 DEF PInv, WorkerInv
    <3>2. home[best[d]] = d
      BY ZenonT(20), <3>1, QueueOf
    <3>. QED  BY SMTT(20), Z3T(20), <2>2, <2>3, <3>2
  <2>. QED  BY ZenonT(20), <2>1, <2>2, <2>3
<1>. QED
  BY <1>1, SchedulerInvariant, PTL

(* No proc is lost or queued twice, nr_running counts its queue, proc->cpu *)
(* is right, and the balancer's search never leaves the list.              *)
THEOREM QueuesAreAccounted == ProcSpec => []QueuesAccounted
<1>1. PInv => QueuesAccounted
  <2>. SUFFICES ASSUME PInv PROVE QueuesAccounted
    BY SMTT(20), Z3T(20)
  <2>1. ASSUME NEW c \in Cpus
        PROVE  /\ queue[c] \in Seq(Procs)
               /\ nr[c] \in 0 .. Len(queue[c]) + 1
               /\ {curr[c], best[c], last[c]} \subseteq Procs \union {NoProc}
    <3>1. queue[c] \in Seq(Procs) /\ nr[c] = Len(queue[c]) /\ Len(queue[c]) \in Nat
      BY QueueOf
    <3>2. curr[c] = best[c] /\ best[c] \in Procs \union {NoProc}
          /\ last[c] \in Procs \union {NoProc}
      BY DEF PInv, WorkerInv, Types
    <3>. QED  BY <3>1, <3>2
  <2>2. ProcTypeOK
    BY ZenonT(40), <2>1 DEF PInv, Types, ProcTypeOK
  <2>3. ~ broken /\ \A c \in Cpus : nr[c] = Len(queue[c])
    BY QueueOf DEF PInv, BalancerInv
  <2>4. ASSUME NEW p \in Procs, NEW c \in Cpus, p \in Range(queue[c])
        PROVE  c = home[p] /\ p # moving
    BY <2>4, QueueOf
  <2>5. ASSUME NEW p \in Procs, NEW c \in Cpus, p \in Range(queue[c])
        PROVE  \E i \in DOMAIN queue[c] : \A j \in DOMAIN queue[c] \ {i} : queue[c][j] # p
    <3>1. PICK i \in DOMAIN queue[c] : queue[c][i] = p
      <4>1. DOMAIN queue[c] = 1 .. Len(queue[c])
        BY QueueOf
      <4>. QED  BY SMTT(20), Z3T(20), <2>5, <4>1 DEF Range
    <3>2. Distinct(queue[c])
      BY ZenonT(40), QueueOf
    <3>. QED  BY <3>1, <3>2 DEF Distinct
  <2>. QED  BY <2>2, <2>3, <2>4, <2>5 DEF QueuesAccounted, Queued
<1>. QED
  BY <1>1, SchedulerInvariant, PTL

-----------------------------------------------------------------------------
(* The list of clients holds each open one once. *)
ListInv ==
    /\ Len(list) <= opens
    /\ Distinct(list)
    /\ \A c \in Clients : wpc[c] = "closed" <=> c \notin Range(list)

\* The relation of an insert is open from its submission to the answer.
RelInv == \A c \in Clients : rel[c] <=> wpc[c] \in {"publish", "waiting", "cancel"}

(* A client without a timeout: nothing is published and no wakeup is left  *)
(* over between commands; while write() waits, exec_buf holds its command, *)
(* and either that has not been answered yet or it has, once.              *)
Settled(c) ==
    /\ wpc[c] # "cancel"
    /\ wpc[c] = "closed" => resp[c] = << >>
    /\ wpc[c] \in {"closed", "ready", "publish"} => status[c] = "IDLE" /\ done[c] = 0
    /\ wpc[c] \in {"publish", "waiting"} => exec[c].cmd = cmd[c]
    /\ wpc[c] = "waiting" /\ status[c] = "PENDING" => done[c] = 0
    /\ wpc[c] = "waiting" /\ status[c] = "IDLE" =>
          /\ done[c] = 1
          /\ alive => exec[c].end = exec[c].ret
    /\ AnswerFor(c)

RunInv ==
    served \in Clients \ late =>
        status[served] = "PENDING" /\ exec[served].cmd = runcmd

DInv ==
    /\ TypeOK
    /\ ListInv
    /\ RelInv
    /\ \A c \in Clients \ late : Settled(c)
    /\ RunInv

-----------------------------------------------------------------------------
\* Counters, indices and pairs: the arithmetic of the steps below.
LEMMA Counting ==
    /\ 0 \in Nat /\ 0 + 1 = 1 /\ 1 - 1 = 0 /\ 1 \in Nat \ {0}
    /\ \A n \in Nat : 0 \in 0 .. n
    /\ \A n \in Nat : n + 1 \in Nat
    /\ \A n \in Nat : n > 0 => n # 0 /\ n - 1 \in Nat
    /\ \A m \in Nat : \A i \in 0 .. m : i < m => i + 1 \in 0 .. m
    /\ \A n \in Nat : \A i \in 1 .. n : i + 1 \in Nat \ {0}
    /\ \A n \in Nat : \A i \in 1 .. n : \A j \in i + 1 .. n : j \in 1 .. n /\ i # j
OBVIOUS

\* A response is a command's number and what is said of it.
LEMMA Pairs == \A x, y : <<x, y>>[1] = x /\ <<x, y>>[2] = y
OBVIOUS

\* The indices of a list.
LEMMA Indices ==
    ASSUME NEW S, NEW s \in Seq(S)
    PROVE  /\ Len(s) \in Nat /\ DOMAIN s = 1 .. Len(s)
           /\ \A i \in 1 .. Len(s) : s[i] \in S
           /\ \A i \in Nat \ {0} : \A j \in i .. Len(s) : j \in 1 .. Len(s)
OBVIOUS

\* open() keeps the list within the number of calls, release() shortens it.
LEMMA ListBounds ==
    ASSUME NEW n \in Nat, NEW o \in Nat, NEW m \in Nat, n <= o, o <= m
    PROVE  /\ o < m => n + 1 <= m
           /\ n + 1 <= o + 1
           /\ n - 1 <= o /\ n - 1 <= m
OBVIOUS

\* The initial state.
LEMMA DInvInit == Init => DInv
<1>. SUFFICES ASSUME Init PROVE DInv
  OBVIOUS
<1>1. << >> \in Seq(Clients) /\ Len(<< >>) = 0 /\ Distinct(<< >>) /\ Range(<< >>) = {}
  BY DEF Distinct, Range
<1>2. /\ 0 \in Nat /\ 0 \in 0 .. MaxCmds /\ 0 \in 0 .. MaxTimeouts /\ 0 \in 0 .. MaxClients
      /\ 0 <= MaxClients /\ 0 <= 0
  BY DshellAssumption
<1>3. TypeOK
  BY ZenonT(40), <1>1, <1>2 DEF Init, TypeOK, Blank
<1>4. ListInv /\ RelInv /\ RunInv
  BY ZenonT(40), <1>1, <1>2, DshellAssumption DEF Init, ListInv, RelInv, RunInv
<1>5. \A c \in Clients : Settled(c)
  BY ZenonT(40) DEF Init, Settled, AnswerFor
<1>. QED  BY Zenon, <1>3, <1>4, <1>5 DEF DInv

USE DEF Goto, Respond, procVars, budget

\* The next client of the loop is one of the list.
LEMMA ScanType ==
    ASSUME TypeOK, NEW i \in Nat \ {0}, ScanFrom(i, PendingFrom(i))
    PROVE  served' \in Clients \cup {NoClient} /\ runcmd' \in 0 .. MaxCmds
<1>1. CASE PendingFrom(i) = {}
  BY Zenon, <1>1, DshellAssumption, Counting DEF ScanFrom
<1>2. CASE PendingFrom(i) # {}
  <2>1. PICK j \in PendingFrom(i) : served' = list[j] /\ runcmd' = exec[list[j]].cmd
    BY ZenonT(40), <1>2 DEF ScanFrom
  <2>2. j \in i .. Len(list) /\ list \in Seq(Clients)
    BY Zenon, <2>1 DEF PendingFrom, TypeOK
  <2>3. list[j] \in Clients
    BY Zenon, <2>2, Indices
  <2>. QED  BY ZenonT(40), <2>1, <2>3 DEF TypeOK
<1>. QED  BY <1>1, <1>2

\* A run that ends: what it writes, and where in the list the loop goes on.
LEMMA RunEndsFacts ==
    ASSUME TypeOK, NEW result \in {"ok", "error"}, RunEnds(result)
    PROVE  /\ served \in Clients
           /\ \E i \in 1 .. Len(list) :
                list[i] = served /\ ScanFrom(i + 1, PendingFrom(i + 1))
           /\ exec' = [exec EXCEPT ![served] =
                [cmd |-> exec[served].cmd, ret |-> result,
                 end |-> IF exec[served].cmd = runcmd THEN result ELSE exec[served].end]]
           /\ resp' = IF result = "error"
                      THEN [resp EXCEPT ![served] = <<cmd[served], "error">>] ELSE resp
           /\ status' = [status EXCEPT ![served] = "IDLE"]
           /\ done' = [done EXCEPT ![served] = @ + 1]
           /\ UNCHANGED <<list, wpc, cmd, rel, alive, late, budget>>
<1>1. served \in Clients
  BY ZenonT(40), DshellAssumption DEF RunEnds, TypeOK
<1>2. \E k \in 1 .. Len(list) : list[k] = served
  <2>1. served \in Range(list)
    BY Zenon DEF RunEnds
  <2>2. \E k \in DOMAIN list : list[k] = served
    BY <2>1, Zenon DEF Range
  <2>. QED  BY <2>2 DEF TypeOK
<1>3. PICK i : /\ i = CHOOSE k \in 1 .. Len(list) : list[k] = served
               /\ ScanFrom(i + 1, PendingFrom(i + 1))
  BY Zenon DEF RunEnds
<1>4. i \in 1 .. Len(list) /\ list[i] = served
  BY <1>2, <1>3, Zenon
<1>5. /\ exec' = [exec EXCEPT ![served] =
           [cmd |-> exec[served].cmd, ret |-> result,
            end |-> IF exec[served].cmd = runcmd THEN result ELSE exec[served].end]]
      /\ resp' = IF result = "error"
                 THEN [resp EXCEPT ![served] = <<cmd[served], "error">>] ELSE resp
      /\ status' = [status EXCEPT ![served] = "IDLE"]
      /\ done' = [done EXCEPT ![served] = @ + 1]
      /\ UNCHANGED <<list, wpc, cmd, rel, alive, late, budget>>
  BY Zenon DEF RunEnds
<1>. QED  BY <1>1, <1>3, <1>4, <1>5, Zenon

\* Types are kept.
LEMMA TypeStep ==
    ASSUME TypeOK, ListInv, [Next]_vars
    PROVE  TypeOK'
<1>0. /\ list \in Seq(Clients) /\ Len(list) <= opens /\ opens \in 0 .. MaxClients
      /\ opens \in Nat /\ opens <= MaxClients /\ Len(list) \in Nat
      /\ 0 \in Nat /\ 0 \in 0 .. MaxCmds
  <2>1. /\ list \in Seq(Clients) /\ Len(list) <= opens /\ opens \in 0 .. MaxClients
    BY Zenon DEF ListInv, TypeOK
  <2>. QED  BY <2>1, DshellAssumption
<1>. USE DshellAssumption DEF TypeOK
<1>1. ASSUME NEW c \in Clients, Open(c) PROVE TypeOK'
  <2>1. list' \in Seq(Clients) /\ Len(list') <= MaxClients
    <3>. HIDE DEF TypeOK
    <3>1. list' = Append(list, c) /\ opens < MaxClients
      BY Zenon, <1>1 DEF Open
    <3>. QED  BY <1>0, <3>1
  <2>2. opens' \in 0 .. MaxClients
    BY Zenon, <1>0, <1>1, Counting DEF Open
  <2>. QED
    BY ZenonT(40), <1>1, <2>1, <2>2 DEF Open
<1>2. ASSUME NEW c \in Clients, Release(c) PROVE TypeOK'
  <2>1. list' \in Seq(Clients) /\ Len(list') <= MaxClients
    <3>1. PICK i \in DOMAIN list : list' = ListDel(list, i)
      BY Zenon, <1>2 DEF Release
    <3>2. list' \in Seq(Clients) /\ Len(list') = Len(list) - 1
      BY Zenon, <1>0, <3>1, ListDelElements
    <3>3. Len(list) - 1 <= MaxClients
      BY Zenon, <1>0, ListBounds
    <3>. QED  BY Zenon, <3>2, <3>3
  <2>. QED
    <3>1. Blank \in [cmd : 0..MaxCmds, ret : {"ok", "error"}, end : {"none", "ok", "error"}]
      BY Zenon, <1>0 DEF Blank
    <3>2. /\ exec' \in [Clients -> [cmd : 0..MaxCmds, ret : {"ok", "error"},
                                   end : {"none", "ok", "error"}]]
          /\ resp' \in [Clients -> {<< >>} \cup
                          ((0..MaxCmds) \X {"ok", "error", "direct", "timeout"})]
      BY ZenonT(40), <1>2, <3>1 DEF Release
    <3>3. /\ status' \in [Clients -> {"IDLE", "PENDING"}]
          /\ done' \in [Clients -> Nat] /\ cmd' \in [Clients -> 0..MaxCmds]
          /\ wpc' \in [Clients -> {"closed", "ready", "publish", "waiting", "cancel"}]
          /\ UNCHANGED <<rel, procVars, late, budget>>
      BY ZenonT(40), <1>0, <1>2 DEF Release
    <3>. QED  BY ZenonT(40), <2>1, <3>2, <3>3
<1>3. ASSUME NEW c \in Clients, Read(c) PROVE TypeOK'
  BY ZenonT(40), <1>3 DEF Read
<1>4. ASSUME NEW c \in Clients, NewCommand(c) PROVE cmd[c] + 1 \in 0 .. MaxCmds
  BY Zenon, <1>4, Counting DEF NewCommand
<1>5. ASSUME NEW c \in Clients, Direct(c) PROVE TypeOK'
  <2>1. cmd[c] + 1 \in 0 .. MaxCmds
    BY Zenon, <1>4, <1>5 DEF Direct
  <2>. QED  BY ZenonT(40), <1>5, <2>1 DEF Direct, NewCommand
<1>6. ASSUME NEW c \in Clients, Submit(c) PROVE TypeOK'
  <2>1. cmd[c] + 1 \in 0 .. MaxCmds
    BY Zenon, <1>4, <1>6 DEF Submit
  <2>2. exec' \in [Clients -> [cmd : 0..MaxCmds, ret : {"ok", "error"},
                               end : {"none", "ok", "error"}]]
    BY ZenonT(40), <1>6, <2>1 DEF Submit
  <2>. QED  BY ZenonT(40), <1>0, <1>6, <2>1, <2>2 DEF Submit, NewCommand
<1>7. ASSUME NEW c \in Clients, Publish(c) PROVE TypeOK'
  BY ZenonT(40), <1>7 DEF Publish
<1>8. ASSUME NEW c \in Clients, Wake(c) PROVE TypeOK'
  <2>1. done[c] - 1 \in Nat
    BY Zenon, <1>8, Counting DEF Wake
  <2>2. exec[c].ret \in {"ok", "error"}
    BY Zenon
  <2>. QED  BY ZenonT(40), <1>8, <2>1, <2>2 DEF Wake
<1>9. ASSUME NEW c \in Clients, TimesOut(c) PROVE TypeOK'
  <2>1. timeouts + 1 \in 0 .. MaxTimeouts
    BY Zenon, <1>9, Counting DEF TimesOut
  <2>. QED  BY ZenonT(40), <1>9, <2>1 DEF TimesOut
<1>15. ASSUME NEW c \in Clients, Cancel(c) PROVE TypeOK'
  BY ZenonT(40), <1>15 DEF Cancel
<1>10. CASE ProcStart
  <2>1. served' \in Clients \cup {NoClient} /\ runcmd' \in 0 .. MaxCmds
    <3>. HIDE DEF TypeOK
    <3>1. ScanFrom(1, PendingFrom(1)) /\ 1 \in Nat \ {0}
      BY Zenon, <1>10, Counting DEF ProcStart
    <3>. QED  BY Zenon, <3>1, ScanType
  <2>. QED
    BY ZenonT(40), <1>10, <2>1 DEF ProcStart
<1>11. CASE RunContinues
  BY ZenonT(40), <1>0, <1>11 DEF RunContinues
<1>12. ASSUME NEW result \in {"ok", "error"}, RunEnds(result) PROVE TypeOK'
  <2>1. /\ served \in Clients
        /\ exec' = [exec EXCEPT ![served] =
             [cmd |-> exec[served].cmd, ret |-> result,
              end |-> IF exec[served].cmd = runcmd THEN result ELSE exec[served].end]]
        /\ resp' = IF result = "error"
                   THEN [resp EXCEPT ![served] = <<cmd[served], "error">>] ELSE resp
        /\ status' = [status EXCEPT ![served] = "IDLE"]
        /\ done' = [done EXCEPT ![served] = @ + 1]
        /\ UNCHANGED <<list, wpc, cmd, rel, alive, late, budget>>
    <3>. HIDE DEF TypeOK
    <3>. QED  BY <1>12, RunEndsFacts, Zenon
  <2>2. served' \in Clients \cup {NoClient} /\ runcmd' \in 0 .. MaxCmds
    <3>. HIDE DEF TypeOK
    <3>1. PICK i \in 1 .. Len(list) : ScanFrom(i + 1, PendingFrom(i + 1))
      BY Zenon, <1>12, RunEndsFacts
    <3>2. i + 1 \in Nat \ {0}
      BY Zenon, <1>0, <3>1, Counting
    <3>. QED  BY Zenon, <3>1, <3>2, ScanType
  <2>3. exec' \in [Clients -> [cmd : 0..MaxCmds, ret : {"ok", "error"},
                              end : {"none", "ok", "error"}]]
    BY ZenonT(40), <2>1
  <2>4. resp' \in [Clients -> {<< >>} \cup
                     ((0..MaxCmds) \X {"ok", "error", "direct", "timeout"})]
    BY ZenonT(40), <2>1
  <2>5. /\ status' \in [Clients -> {"IDLE", "PENDING"}]
        /\ done' \in [Clients -> Nat]
        /\ UNCHANGED <<list, wpc, cmd, rel, alive, late, budget>>
    BY ZenonT(40), <2>1, Counting
  <2>. QED
    BY ZenonT(40), <2>2, <2>3, <2>4, <2>5
<1>13. CASE Shutdown
  <2>1. status' \in [Clients -> {"IDLE", "PENDING"}] /\ done' \in [Clients -> Nat]
    BY ZenonT(40), <1>13, Counting DEF Shutdown
  <2>2. alive' = FALSE /\ UNCHANGED <<list, exec, resp, wpc, cmd, rel, served, runcmd, late, budget>>
    BY ZenonT(40), <1>13 DEF Shutdown
  <2>. QED
    BY ZenonT(20), <2>1, <2>2
<1>14. CASE UNCHANGED vars
  BY ZenonT(40), <1>14 DEF vars
<1>. QED
  BY ZenonT(20), <1>1, <1>2, <1>3, <1>4, <1>5, <1>6, <1>7, <1>8, <1>9, <1>10, <1>11, <1>12,
     <1>13, <1>14, <1>15 DEF Next, Write, RunFinishes

\* Only open() and release() change the list.
LEMMA ListStep ==
    ASSUME TypeOK, ListInv, Next
    PROVE  ListInv'
<1>0. /\ list \in Seq(Clients) /\ wpc \in [Clients -> {"closed", "ready", "publish", "waiting", "cancel"}]
      /\ opens \in 0 .. MaxClients
  BY Zenon DEF TypeOK
<1>6. /\ Len(list) \in Nat /\ opens \in Nat /\ opens <= MaxClients /\ MaxClients \in Nat
      /\ Len(list) <= opens
  <2>1. Len(list) <= opens
    BY Zenon DEF ListInv
  <2>. QED  BY <1>0, <2>1, DshellAssumption
<1>1. ASSUME NEW c \in Clients, Open(c) PROVE ListInv'
  <2>1. list' = Append(list, c) /\ opens' = opens + 1 /\ wpc' = [wpc EXCEPT ![c] = "ready"]
    BY Zenon, <1>1 DEF Open
  <2>2. c \notin Range(list) /\ Distinct(list)
    BY Zenon, <1>1 DEF Open, ListInv
  <2>3. /\ Len(list') = Len(list) + 1 /\ Distinct(list')
        /\ Range(list') = Range(list) \union {c}
    <3>1. /\ Len(Append(list, c)) = Len(list) + 1 /\ Distinct(Append(list, c))
          /\ Range(Append(list, c)) = Range(list) \union {c}
      BY ZenonT(90), <1>0, <2>2, AppendSet
    <3>. QED  BY Zenon, <2>1, <3>1
  <2>4. Len(list') <= opens'
    BY Zenon, <1>6, <2>1, <2>3, ListBounds
  <2>5. ASSUME NEW d \in Clients PROVE wpc'[d] = "closed" <=> d \notin Range(list')
    <3>1. wpc'[d] = IF d = c THEN "ready" ELSE wpc[d]
      BY Zenon, <1>0, <2>1
    <3>2. wpc[d] = "closed" <=> d \notin Range(list)
      BY Zenon DEF ListInv
    <3>. QED  BY Zenon, <2>3, <3>1, <3>2
  <2>. QED  BY Zenon, <2>3, <2>4, <2>5 DEF ListInv
<1>2. ASSUME NEW c \in Clients, Release(c) PROVE ListInv'
  <2>1. PICK k \in DOMAIN list : list[k] = c /\ list' = ListDel(list, k)
    BY ZenonT(40), <1>2 DEF Release
  <2>2. opens' = opens /\ wpc' = [wpc EXCEPT ![c] = "closed"] /\ Distinct(list)
    BY Zenon, <1>2 DEF Release, ListInv
  <2>3. /\ Len(list') = Len(list) - 1 /\ Distinct(list')
        /\ Range(list') = Range(list) \ {list[k]}
    BY Zenon, <1>0, <2>1, <2>2, RemoveSet
  <2>4. Len(list') <= opens'
    BY Zenon, <1>6, <2>2, <2>3, ListBounds
  <2>5. ASSUME NEW d \in Clients PROVE wpc'[d] = "closed" <=> d \notin Range(list')
    <3>1. wpc'[d] = IF d = c THEN "closed" ELSE wpc[d]
      BY Zenon, <1>0, <2>2
    <3>2. wpc[d] = "closed" <=> d \notin Range(list)
      BY Zenon DEF ListInv
    <3>. QED  BY Zenon, <2>1, <2>3, <3>1, <3>2
  <2>. QED  BY Zenon, <2>3, <2>4, <2>5 DEF ListInv
<1>3. ASSUME list' = list, opens' = opens,
             \A d \in Clients : wpc'[d] = "closed" <=> wpc[d] = "closed"
      PROVE  ListInv'
  BY Zenon, <1>3 DEF ListInv
<1>4. ASSUME NEW c \in Clients, Read(c) \/ Direct(c) \/ Submit(c) \/ Write(c) \/ TimesOut(c)
      PROVE  ListInv'
  <2>1. list' = list /\ opens' = opens
    BY ZenonT(40), <1>4 DEF Read, Direct, Submit, Write, Publish, Wake, Cancel, TimesOut
  <2>2. \A d \in Clients : wpc'[d] = "closed" <=> wpc[d] = "closed"
    BY ZenonT(90), <1>4 DEF Read, Direct, Submit, Write, Publish, Wake, Cancel, TimesOut,
               NewCommand, TypeOK
  <2>. QED  BY ZenonT(20), <1>3, <2>1, <2>2
<1>5. CASE ProcStart \/ RunContinues \/ RunFinishes \/ Shutdown
  <2>1. list' = list /\ opens' = opens /\ wpc' = wpc
    BY <1>5, RunEndsFacts DEF ProcStart, RunContinues, RunFinishes, Shutdown
  <2>. QED  BY <1>3, <2>1
<1>. QED
  BY <1>1, <1>2, <1>4, <1>5 DEF Next

-----------------------------------------------------------------------------
\* Only submission, the answer and the timeout open and close relations.
LEMMA RelStep ==
    ASSUME TypeOK, RelInv, Next
    PROVE  RelInv'
<1>1. ASSUME NEW c \in Clients,
             \/ Open(c) \/ Release(c) \/ Read(c) \/ Direct(c) \/ Submit(c) \/ Write(c)
             \/ TimesOut(c)
      PROVE  RelInv'
  <2>. SUFFICES ASSUME NEW d \in Clients
                PROVE  rel'[d] <=> wpc'[d] \in {"publish", "waiting", "cancel"}
    BY DEF RelInv
  <2>1. CASE Open(c) \/ Release(c) \/ Read(c) \/ Direct(c)
    <3>1. /\ rel' = rel
          /\ wpc'[d] \in {"publish", "waiting", "cancel"} <=>
                wpc[d] \in {"publish", "waiting", "cancel"}
      BY ZenonT(120), <2>1 DEF TypeOK, Open, Release, Read, Direct, NewCommand
    <3>. QED  BY <3>1, Zenon DEF RelInv
  <2>2. CASE Submit(c)
    <3>1. /\ rel'[d] = IF d = c THEN TRUE ELSE rel[d]
          /\ wpc'[d] = IF d = c THEN "publish" ELSE wpc[d]
      BY <2>2, Zenon DEF TypeOK, Submit
    <3>. QED  BY <3>1, Zenon DEF RelInv
  <2>3. CASE Wake(c) \/ Cancel(c)
    <3>1. /\ rel'[d] = IF d = c THEN FALSE ELSE rel[d]
          /\ wpc'[d] = IF d = c THEN "ready" ELSE wpc[d]
      BY <2>3, ZenonT(60) DEF TypeOK, Wake, Cancel
    <3>. QED  BY <3>1, Zenon DEF RelInv
  <2>4. CASE Publish(c) \/ TimesOut(c)
    <3>1. /\ rel'[d] = rel[d] /\ rel[c] /\ wpc'[c] \in {"waiting", "cancel"}
          /\ d # c => wpc'[d] = wpc[d]
      BY SMTT(20), Z3T(20), <2>4 DEF RelInv, TypeOK, Publish, TimesOut
    <3>. QED  BY <3>1, Zenon DEF RelInv
  <2>. QED  BY SMTT(20), Z3T(20), <1>1, <2>1, <2>2, <2>3, <2>4 DEF Write
<1>2. CASE ProcStart \/ RunContinues \/ RunFinishes \/ Shutdown
  <2>1. rel' = rel /\ wpc' = wpc
    BY <1>2, RunEndsFacts DEF ProcStart, RunContinues, RunFinishes, Shutdown
  <2>. QED  BY ZenonT(40), <2>1 DEF RelInv
<1>. QED
  BY ZenonT(20), <1>1, <1>2 DEF Next

-----------------------------------------------------------------------------
\* A step that leaves a client's own variables alone leaves it settled.
LEMMA SettledSame ==
    ASSUME NEW d \in Clients, Settled(d),
           wpc'[d] = wpc[d], status'[d] = status[d], done'[d] = done[d],
           exec'[d] = exec[d], cmd'[d] = cmd[d], resp'[d] = resp[d],
           alive' => alive
    PROVE  Settled(d)'
BY ZenonT(20) DEF Settled, AnswerFor

\* What a client that has not timed out does itself.
LEMMA SettledOwn ==
    ASSUME TypeOK, NEW d \in Clients, Settled(d),
           Open(d) \/ Release(d) \/ Read(d) \/ Direct(d) \/ Submit(d) \/ Publish(d) \/ Wake(d)
    PROVE  Settled(d)'
<1>. USE DEF Settled, AnswerFor
<1>1. CASE Open(d)
  <2>1. /\ wpc[d] = "closed" /\ wpc'[d] = "ready" /\ status'[d] = status[d]
        /\ done'[d] = done[d] /\ resp'[d] = resp[d]
    BY ZenonT(40), <1>1 DEF Open, TypeOK
  <2>. QED  BY ZenonT(40), <2>1
<1>2. CASE Release(d)
  <2>1. /\ wpc'[d] = "closed" /\ status'[d] = "IDLE" /\ done'[d] = 0 /\ resp'[d] = << >>
    BY ZenonT(40), <1>2 DEF Release, TypeOK
  <2>. QED  BY ZenonT(40), <2>1
<1>3. CASE Read(d)
  <2>1. /\ wpc[d] = "ready" /\ wpc'[d] = "ready" /\ status'[d] = status[d]
        /\ done'[d] = done[d] /\ resp'[d] = << >>
    BY ZenonT(40), <1>3 DEF Read, TypeOK
  <2>. QED  BY ZenonT(40), <2>1
<1>4. CASE Direct(d)
  <2>1. /\ wpc[d] = "ready" /\ wpc'[d] = "ready" /\ status'[d] = status[d]
        /\ done'[d] = done[d] /\ resp'[d] = <<cmd[d] + 1, "direct">>
        /\ cmd'[d] = cmd[d] + 1
    BY ZenonT(40), <1>4 DEF Direct, NewCommand, TypeOK
  <2>2. resp'[d][1] = cmd'[d] /\ resp'[d][2] = "direct"
    <3>. HIDE DEF Settled, AnswerFor
    <3>1. <<cmd[d] + 1, "direct">>[1] = cmd[d] + 1 /\ <<cmd[d] + 1, "direct">>[2] = "direct"
      BY Zenon, Pairs
    <3>. QED  BY Zenon, <2>1, <3>1
  <2>. QED  BY ZenonT(40), <2>1, <2>2
<1>5. CASE Submit(d)
  <2>1. /\ wpc[d] = "ready" /\ wpc'[d] = "publish" /\ status'[d] = status[d]
        /\ done'[d] = 0 /\ cmd'[d] = cmd[d] + 1 /\ exec'[d].cmd = cmd[d] + 1
    BY ZenonT(40), <1>5 DEF Submit, NewCommand, TypeOK
  <2>. QED  BY ZenonT(40), <2>1
<1>6. CASE Publish(d)
  <2>1. /\ wpc[d] = "publish" /\ wpc'[d] = "waiting" /\ status'[d] = "PENDING"
        /\ done'[d] = done[d] /\ cmd'[d] = cmd[d] /\ exec'[d] = exec[d]
    BY ZenonT(40), <1>6 DEF Publish, TypeOK
  <2>. QED  BY ZenonT(40), <2>1
<1>7. CASE Wake(d)
  <2>1. /\ wpc[d] = "waiting" /\ wpc'[d] = "ready" /\ status'[d] = status[d]
        /\ done[d] > 0 /\ done'[d] = done[d] - 1 /\ cmd'[d] = cmd[d]
        /\ exec'[d] = exec[d] /\ resp'[d] = <<cmd[d], exec[d].ret>> /\ alive' = alive
    BY ZenonT(40), <1>7 DEF Wake, TypeOK
  <2>2. status[d] = "IDLE" /\ done[d] = 1
    <3>1. done[d] # 0 /\ status[d] \in {"IDLE", "PENDING"}
      BY Zenon, <2>1, Counting DEF TypeOK
    <3>. QED  BY ZenonT(40), <2>1, <3>1
  <2>3. resp'[d][1] = cmd'[d] /\ resp'[d][2] = exec'[d].ret
    <3>. HIDE DEF Settled, AnswerFor
    <3>1. <<cmd[d], exec[d].ret>>[1] = cmd[d] /\ <<cmd[d], exec[d].ret>>[2] = exec[d].ret
      BY ZenonT(60), Pairs
    <3>. QED  BY Zenon, <2>1, <3>1
  <2>4. done'[d] = 0
    BY Zenon, <2>1, <2>2, Counting
  <2>. QED  BY ZenonT(40), <2>1, <2>2, <2>3, <2>4
<1>. QED
  BY ZenonT(20), <1>1, <1>2, <1>3, <1>4, <1>5, <1>6, <1>7

\* What another client does, and the end of a run, the clients' loop and the shutdown.
LEMMA SettledStep ==
    ASSUME DInv, Next, NEW d \in Clients \ late'
    PROVE  Settled(d)'
<1>0. TypeOK /\ RunInv /\ ListInv
  BY ZenonT(20) DEF DInv
<1>1. late \subseteq late'
  BY ZenonT(40), RunEndsFacts, <1>0
     DEF Next, Open, Release, Read, Direct, Submit, Write, Publish, Wake,
     Cancel, TimesOut, ProcStart, RunContinues, RunFinishes, Shutdown
<1>2. Settled(d) /\ d \in Clients /\ d \notin late
  BY <1>1 DEF DInv
<1>3. ASSUME NEW c \in Clients,
             \/ Open(c) \/ Release(c) \/ Read(c) \/ Direct(c) \/ Submit(c) \/ Write(c)
             \/ TimesOut(c)
      PROVE  Settled(d)'
  <2>1. CASE c = d
    <3>1. ~Cancel(d) /\ ~TimesOut(d)
      BY ZenonT(20), <1>0, <1>2 DEF Cancel, TimesOut, Settled
    <3>. QED  BY ZenonT(20), <1>0, <1>2, <1>3, <2>1, <3>1, SettledOwn DEF Write
  <2>2. CASE c # d
    <3>1. /\ wpc'[d] = wpc[d] /\ status'[d] = status[d] /\ done'[d] = done[d]
          /\ exec'[d] = exec[d] /\ cmd'[d] = cmd[d] /\ resp'[d] = resp[d] /\ alive' = alive
      <4>1. CASE Open(c) \/ TimesOut(c)
        BY ZenonT(60), <1>0, <1>2, <2>2, <4>1 DEF Open, TimesOut, TypeOK
      <4>2. CASE Release(c)
        BY ZenonT(60), <1>0, <1>2, <2>2, <4>2 DEF Release, TypeOK
      <4>3. CASE Read(c) \/ Direct(c)
        BY ZenonT(60), <1>0, <1>2, <2>2, <4>3 DEF Read, Direct, NewCommand, TypeOK
      <4>4. CASE Submit(c)
        BY ZenonT(60), <1>0, <1>2, <2>2, <4>4 DEF Submit, NewCommand, TypeOK
      <4>5. CASE Publish(c)
        BY ZenonT(60), <1>0, <1>2, <2>2, <4>5 DEF Publish, TypeOK
      <4>6. CASE Wake(c) \/ Cancel(c)
        BY ZenonT(60), <1>0, <1>2, <2>2, <4>6 DEF Wake, Cancel, TypeOK
      <4>. QED  BY Zenon, <1>3, <4>1, <4>2, <4>3, <4>4, <4>5, <4>6 DEF Write
    <3>. QED  BY ZenonT(20), <1>2, <3>1, SettledSame
  <2>. QED  BY <2>1, <2>2
<1>4. CASE ProcStart \/ RunContinues
  <2>1. /\ wpc'[d] = wpc[d] /\ status'[d] = status[d] /\ done'[d] = done[d]
        /\ exec'[d] = exec[d] /\ cmd'[d] = cmd[d] /\ resp'[d] = resp[d] /\ alive' = alive
    BY ZenonT(40), <1>4 DEF ProcStart, RunContinues
  <2>. QED  BY Zenon, <1>2, <2>1, SettledSame
<1>5. ASSUME NEW result \in {"ok", "error"}, RunEnds(result) PROVE Settled(d)'
  <2>1. /\ served \in Clients
        /\ exec' = [exec EXCEPT ![served] =
             [cmd |-> exec[served].cmd, ret |-> result,
              end |-> IF exec[served].cmd = runcmd THEN result ELSE exec[served].end]]
        /\ resp' = IF result = "error"
                   THEN [resp EXCEPT ![served] = <<cmd[served], "error">>] ELSE resp
        /\ status' = [status EXCEPT ![served] = "IDLE"]
        /\ done' = [done EXCEPT ![served] = @ + 1]
        /\ UNCHANGED <<list, wpc, cmd, rel, alive, late, budget>>
    BY <1>0, <1>5, RunEndsFacts, Zenon
  <2>2. CASE served # d
    <3>1. /\ exec'[d] = exec[d] /\ resp'[d] = resp[d] /\ status'[d] = status[d]
          /\ done'[d] = done[d]
      BY ZenonT(40), <1>0, <1>2, <2>1, <2>2 DEF TypeOK
    <3>. QED  BY ZenonT(40), <1>2, <2>1, <3>1, SettledSame
  <2>3. CASE served = d
    <3>1. status[d] = "PENDING" /\ exec[d].cmd = runcmd
      BY ZenonT(40), <1>0, <1>2, <2>3 DEF RunInv
    <3>2. wpc[d] = "waiting" /\ done[d] = 0
      BY ZenonT(40), <1>0, <1>2, <3>1 DEF Settled, TypeOK
    <3>3. /\ exec'[d].cmd = exec[d].cmd /\ exec'[d].ret = result /\ exec'[d].end = result
          /\ status'[d] = "IDLE" /\ done'[d] = 0 + 1
          /\ wpc'[d] = "waiting" /\ cmd'[d] = cmd[d]
      BY ZenonT(40), <1>0, <1>2, <2>1, <2>3, <3>1, <3>2 DEF TypeOK
    <3>4. done'[d] = 1
      BY Zenon, <3>3, Counting
    <3>. QED  BY ZenonT(40), <1>2, <3>2, <3>3, <3>4 DEF Settled, AnswerFor
  <2>. QED  BY <2>2, <2>3
<1>6. CASE Shutdown
  <2>1. /\ alive' = FALSE /\ wpc' = wpc /\ exec' = exec /\ cmd' = cmd /\ resp' = resp
        /\ \/ status'[d] = status[d] /\ done'[d] = done[d]
           \/ status[d] = "PENDING" /\ status'[d] = "IDLE" /\ done'[d] = done[d] + 1
    BY ZenonT(40), <1>0, <1>2, <1>6 DEF Shutdown, TypeOK
  <2>2. CASE status'[d] = status[d] /\ done'[d] = done[d]
    BY ZenonT(40), <1>2, <2>1, <2>2 DEF Settled, AnswerFor
  <2>3. CASE status[d] = "PENDING" /\ status'[d] = "IDLE" /\ done'[d] = done[d] + 1
    <3>1. wpc[d] = "waiting" /\ done[d] = 0
      BY ZenonT(40), <1>0, <1>2, <2>3 DEF Settled, TypeOK
    <3>2. done'[d] = 1
      BY Zenon, <2>3, <3>1, Counting
    <3>. QED  BY ZenonT(40), <1>2, <2>1, <2>3, <3>1, <3>2 DEF Settled, AnswerFor
  <2>. QED  BY ZenonT(40), <2>1, <2>2, <2>3
<1>. QED
  BY <1>3, <1>4, <1>5, <1>6 DEF Next, RunFinishes

-----------------------------------------------------------------------------
\* The client that is picked is PENDING, and comes after the one before it.
LEMMA ScanPicks ==
    ASSUME TypeOK, NEW i \in Nat \ {0}, ScanFrom(i, PendingFrom(i)), served' \in Clients
    PROVE  \E j \in i .. Len(list) :
              /\ served' = list[j] /\ status[list[j]] = "PENDING"
              /\ runcmd' = exec[list[j]].cmd
<1>1. PendingFrom(i) # {}
  BY DshellAssumption DEF ScanFrom
<1>2. PICK j \in PendingFrom(i) : served' = list[j] /\ runcmd' = exec[list[j]].cmd
  BY ZenonT(40), <1>1 DEF ScanFrom
<1>. QED  BY ZenonT(40), <1>2 DEF PendingFrom

\* The executor keeps working on the command it was given.
LEMMA RunStep ==
    ASSUME DInv, Next
    PROVE  RunInv'
<1>0. TypeOK /\ RunInv /\ ListInv
  BY DEF DInv
<1>. SUFFICES ASSUME served' \in Clients, served' \notin late'
              PROVE  status'[served'] = "PENDING" /\ exec'[served'].cmd = runcmd'
  BY ZenonT(20) DEF RunInv
<1>1. late \subseteq late'
  BY ZenonT(40), RunEndsFacts, <1>0
     DEF Next, Open, Release, Read, Direct, Submit, Write, Publish, Wake,
     Cancel, TimesOut, ProcStart, RunContinues, RunFinishes, Shutdown
<1>2. ASSUME NEW c \in Clients,
             \/ Open(c) \/ Release(c) \/ Read(c) \/ Direct(c) \/ Submit(c) \/ Write(c)
             \/ TimesOut(c)
      PROVE  status'[served'] = "PENDING" /\ exec'[served'].cmd = runcmd'
  <2>1. served' = served /\ runcmd' = runcmd
    BY ZenonT(20), <1>2 DEF Open, Release, Read, Direct, Submit, Write, Publish, Wake,
       Cancel, TimesOut
  <2>2. /\ status[served] = "PENDING" /\ exec[served].cmd = runcmd
        /\ served \in Clients /\ Settled(served)
    BY ZenonT(40), <1>0, <1>1, <2>1 DEF RunInv, DInv
  <2>3. wpc[served] = "waiting"
    BY ZenonT(40), <1>0, <2>2 DEF Settled, TypeOK
  <2>4. status'[served] = status[served] /\ exec'[served] = exec[served]
    <3>1. CASE Open(c) \/ Read(c) \/ Direct(c) \/ Wake(c) \/ TimesOut(c)
      BY ZenonT(20), <3>1 DEF Open, Read, Direct, Wake, TimesOut
    <3>2. CASE Release(c) \/ Submit(c) \/ Publish(c) \/ Cancel(c)
      <4>1. c # served
        BY ZenonT(40), <2>3, <3>2 DEF Release, Submit, NewCommand, Publish, Cancel
      <4>. QED  BY ZenonT(20), <1>0, <2>2, <3>2, <4>1
                   DEF Release, Submit, Publish, Cancel, TypeOK
    <3>. QED  BY ZenonT(20), <1>2, <3>1, <3>2 DEF Write
  <2>. QED  BY ZenonT(20), <2>1, <2>2, <2>4
<1>3. CASE ProcStart
  <2>1. ScanFrom(1, PendingFrom(1)) /\ status' = status /\ exec' = exec
    BY ZenonT(40), <1>3 DEF ProcStart
  <2>2. 1 \in Nat \ {0}
    BY Zenon, Counting
  <2>. QED  BY Zenon, <1>0, <2>1, <2>2, ScanPicks
<1>4. CASE RunContinues \/ Shutdown
  BY ZenonT(40), <1>4, DshellAssumption DEF RunContinues, Shutdown
<1>5. ASSUME NEW result \in {"ok", "error"}, RunEnds(result)
      PROVE  status'[served'] = "PENDING" /\ exec'[served'].cmd = runcmd'
  <2>1. PICK i \in 1 .. Len(list) :
          list[i] = served /\ ScanFrom(i + 1, PendingFrom(i + 1))
    BY <1>0, <1>5, RunEndsFacts, Zenon
  <2>2. /\ i + 1 \in Nat \ {0} /\ i \in DOMAIN list
        /\ Len(list) \in Nat /\ DOMAIN list = 1 .. Len(list)
    <3>1. list \in Seq(Clients)
      BY Zenon, <1>0 DEF TypeOK
    <3>2. Len(list) \in Nat /\ DOMAIN list = 1 .. Len(list)
      BY Zenon, <3>1, Indices
    <3>. QED  BY Zenon, <2>1, <3>2, Counting
  <2>3. PICK j \in i + 1 .. Len(list) :
          /\ served' = list[j] /\ status[list[j]] = "PENDING"
          /\ runcmd' = exec[list[j]].cmd
    BY ZenonT(40), <1>0, <2>1, <2>2, ScanPicks
  <2>4. j \in DOMAIN list /\ i # j
    BY Zenon, <2>1, <2>2, <2>3, Counting
  <2>5. served' # served
    BY ZenonT(40), <1>0, <2>1, <2>2, <2>3, <2>4 DEF ListInv, Distinct
  <2>6. /\ served \in Clients
        /\ exec' = [exec EXCEPT ![served] =
             [cmd |-> exec[served].cmd, ret |-> result,
              end |-> IF exec[served].cmd = runcmd THEN result ELSE exec[served].end]]
        /\ status' = [status EXCEPT ![served] = "IDLE"]
    BY <1>0, <1>5, RunEndsFacts, ZenonT(40)
  <2>7. exec'[served'] = exec[served'] /\ status'[served'] = status[served']
    BY SMTT(20), Z3T(20), <1>0, <2>5, <2>6 DEF TypeOK
  <2>. QED  BY <2>3, <2>7
<1>. QED
  BY SMTT(20), Z3T(20), <1>2, <1>3, <1>4, <1>5 DEF Next, RunFinishes

-----------------------------------------------------------------------------
(* What the clients' list, write(), the completion and the proc's loop     *)
(* keep up between them (dshell.c, "Execution model").                     *)
THEOREM DshellInvariant == Spec => []DInv
<1>1. Init => DInv
  BY DInvInit
<1>2. DInv /\ [Next]_vars => DInv'
  <2>. SUFFICES ASSUME DInv, [Next]_vars PROVE DInv'
    OBVIOUS
  <2>1. TypeOK /\ ListInv /\ RelInv
    BY DEF DInv
  <2>2. CASE Next
    <3>1. TypeOK'
      BY SMTT(20), Z3T(20), <2>1, TypeStep
    <3>2. ListInv' /\ RelInv'
      BY <2>1, <2>2, ListStep, RelStep
    <3>3. \A c \in Clients \ late' : Settled(c)'
      BY <2>2, SettledStep
    <3>4. RunInv'
      BY ZenonT(20), <2>2, RunStep
    <3>. QED  BY SMTT(20), Z3T(20), <3>1, <3>2, <3>3, <3>4 DEF DInv
  <2>3. CASE UNCHANGED vars
    <3>1. /\ list' = list /\ status' = status /\ done' = done /\ exec' = exec /\ resp' = resp
          /\ wpc' = wpc /\ cmd' = cmd /\ rel' = rel /\ served' = served /\ runcmd' = runcmd
          /\ alive' = alive /\ late' = late /\ opens' = opens
      BY Zenon, <2>3 DEF vars
    <3>2. TypeOK'
      BY Zenon, <2>1, <2>3, TypeStep
    <3>3. ListInv' /\ RelInv' /\ RunInv'
      BY ZenonT(40), <3>1 DEF DInv, ListInv, RelInv, RunInv
    <3>4. \A c \in Clients \ late' : Settled(c)'
      BY ZenonT(40), <3>1, SettledSame DEF DInv
    <3>. QED  BY Zenon, <3>2, <3>3, <3>4 DEF DInv
  <2>. QED  BY <2>2, <2>3
<1>. QED
  BY <1>1, <1>2, PTL DEF Spec

(* "one write() = one command, one read() = its response": a client that   *)
(* never ran into its timeout is answered as the executor's own run of its *)
(* command said, whatever the other clients and their timeouts do.         *)
THEOREM AnswersAreOwn == Spec => []AnswerIsOwn
<1>1. DInv => AnswerIsOwn
  BY ZenonT(20) DEF DInv, Settled, AnswerIsOwn
<1>. QED
  BY <1>1, DshellInvariant, PTL

(* kds_exec_run works without clients_lock only for a client that is open, *)
(* waits in write() and holds the relation that the executor points to.    *)
THEOREM ExecutorIsBacked == Spec => []ExecIsBacked
<1>1. DInv => ExecIsBacked
  <2>. SUFFICES ASSUME DInv, served \in Clients \ late
                PROVE  /\ served \in Range(list)
                       /\ wpc[served] = "waiting" /\ rel[served]
                       /\ exec[served].cmd = runcmd
    BY ZenonT(40) DEF DInv, ExecIsBacked
  <2>1. /\ TypeOK /\ status[served] = "PENDING" /\ exec[served].cmd = runcmd
        /\ Settled(served) /\ served \in Clients
    BY ZenonT(40) DEF DInv, RunInv
  <2>2. wpc[served] = "waiting"
    BY <2>1 DEF Settled, TypeOK
  <2>3. rel[served]
    BY <2>1, <2>2, Zenon DEF DInv, RelInv
  <2>5. served \in Range(list)
    BY ZenonT(40), <2>1, <2>2 DEF DInv, ListInv
  <2>. QED  BY ZenonT(20), <2>1, <2>2, <2>3, <2>5
<1>. QED
  BY <1>1, DshellInvariant, PTL
=============================================================================
