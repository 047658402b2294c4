-------------------------------- MODULE Proc --------------------------------
(***************************************************************************)
(* The proc scheduler of proc.c and the threads of main.c that drive it:   *)
(* one worker per CPU that runs kds_proc_schedule on the CPU's runqueue,   *)
(* and one load balancer that moves procs between runqueues.  A worker     *)
(* holds the runqueue's lock while it selects a proc and again after the   *)
(* proc's slice; the balancer holds the lock of one runqueue at a time.    *)
(*                                                                         *)
(* The procs are the three the system registers, all of kind               *)
(* KDS_PROC_SYSTEM and all allowed on every CPU.                           *)
(***************************************************************************)
EXTENDS Integers, Sequences, FiniteSets, Functions, Lists

CONSTANTS NCpus,    \* online CPUs, numbered from 0
          Procs,    \* registered procs
          NoProc,   \* NULL
          PrioMax,  \* INT_MAX: dynamic_prio is an int
          Prio0,    \* KDS_PROC_PRIORITY_SYSTEM_BACKGROUND
          MaxWait   \* bound: longer waits are not told apart

ASSUME ProcAssumption ==
  /\ NCpus \in Nat \ {0}
  /\ NoProc \notin Procs
  /\ PrioMax \in Nat
  /\ Prio0 \in 0 .. PrioMax
  /\ MaxWait \in Nat

Cpus == 0 .. NCpus - 1

(* INT_MIN *)
PrioMin == - PrioMax - 1

(* KDS_LOAD_BALANCE_THRESHOLD *)
Threshold == 2

VARIABLES queue,    \* rq->system_procs
          nr,       \* rq->nr_running
          curr,     \* rq->curr_proc
          best,     \* the proc a CPU's worker is running
          fast,     \* whether it was selected on the fast path
          last,     \* the proc each CPU ran last
          prio,     \* proc->dynamic_prio
          wait,     \* proc->wait_time_ns, in slices
          wrapped,  \* some priority has overflowed
          running,  \* procs with proc->running set
          home,     \* proc->cpu
          moving,   \* the proc the balancer has taken off a queue
          target,   \* the CPU it is moving it to
          broken,   \* the balancer unlinked a list head
          phase     \* boot, up, stopping

rqs == <<queue, nr>>
worker == <<curr, best, fast, last, running>>
ages == <<prio, wait, wrapped>>
balancer == <<moving, target, broken>>
schedVars == <<rqs, worker, ages, home, balancer, phase>>

ProcInit ==
  /\ queue = [c \in Cpus |-> <<>>]
  /\ nr = [c \in Cpus |-> 0]
  /\ curr = [c \in Cpus |-> NoProc]
  /\ best = [c \in Cpus |-> NoProc]
  /\ fast = [c \in Cpus |-> FALSE]
  /\ last = [c \in Cpus |-> NoProc]
  /\ prio = [p \in Procs |-> Prio0]
  /\ wait = [p \in Procs |-> 0]
  /\ wrapped = FALSE
  /\ running = {}
  /\ home = [p \in Procs |-> -1]
  /\ moving = NoProc
  /\ target = 0
  /\ broken = FALSE
  /\ phase = "boot"

Queued(p) == \E c \in Cpus : p \in Range(queue[c])

(***************************************************************************)
(* kds_proc_register, called by kds_bootstrap before the workers start.    *)
(***************************************************************************)
(* kds_select_cpu: the proc structs are zeroed, so preferred_cpu is 0, and *)
(* no load exceeds UINT_MAX.                                               *)
SelectCpu == 0

Register(p) ==
  /\ phase = "boot"
  /\ home[p] = -1
  /\ home' = [home EXCEPT ![p] = SelectCpu]
  /\ queue' = [queue EXCEPT ![SelectCpu] = Append(@, p)]
  /\ nr' = [nr EXCEPT ![SelectCpu] = @ + 1]
  /\ UNCHANGED <<worker, ages, balancer, phase>>

(* kds_main starts the workers and the balancer. *)
Start ==
  /\ phase = "boot"
  /\ \A p \in Procs : Queued(p)
  /\ phase' = "up"
  /\ UNCHANGED <<rqs, worker, ages, home, balancer>>

(***************************************************************************)
(* kds_proc_schedule on CPU c.                                             *)
(***************************************************************************)
FastPath(c) == nr[c] < NCpus /\ curr[c] # NoProc /\ curr[c] \notin running

(* The procs the scan considers: best_prio starts at INT_MIN. *)
Ready(c) ==
  {p \in Procs : p \in Range(queue[c]) /\ p \notin running /\ prio[p] > PrioMin}

Position(c, p) == CHOOSE i \in DOMAIN queue[c] : queue[c][i] = p

(* The first of those with the highest priority. *)
Best(c) ==
  {p \in Ready(c) :
    \A q \in Ready(c) \ {p} :
      \/ prio[p] > prio[q]
      \/ prio[p] = prio[q] /\ Position(c, p) < Position(c, q)}

(* Selection, under the lock; a CPU with nothing to run just returns. *)
Select(c) ==
  /\ phase = "up"
  /\ best[c] = NoProc
  /\ \E p \in IF FastPath(c) THEN {curr[c]} ELSE Best(c) :
       /\ best' = [best EXCEPT ![c] = p]
       /\ curr' = [curr EXCEPT ![c] = p]
       /\ last' = [last EXCEPT ![c] = p]
       /\ running' = running \union {p}
  /\ fast' = [fast EXCEPT ![c] = FastPath(c)]
  /\ UNCHANGED <<rqs, ages, home, balancer, phase>>

(* dynamic_prio += 1, in an int that wraps. *)
Boost(n) == IF n = PrioMax THEN PrioMin ELSE n + 1

Waiting(c, p) == p \in Range(queue[c]) /\ p # best[c]

Waits(c) ==
  [p \in Procs |-> IF p = best[c] THEN 0
                  ELSE IF Waiting(c, p) /\ wait[p] < MaxWait THEN wait[p] + 1
                  ELSE wait[p]]

AgeNothing(c) == wait' = Waits(c) /\ UNCHANGED <<prio, wrapped>>

(* kds_update_wait_time: everything on the queue but the proc that ran.   *)
Age(c) ==
  /\ prio' = [p \in Procs |-> IF Waiting(c, p) THEN Boost(prio[p]) ELSE prio[p]]
  /\ wait' = Waits(c)
  /\ wrapped' = (wrapped \/ \E p \in Procs : Waiting(c, p) /\ prio[p] = PrioMax)

(* The slice is over: ageing, then the flag and curr_proc are cleared. *)
EndSlice(c) ==
  /\ best[c] # NoProc
  /\ Age(c)
  /\ running' = running \ {best[c]}
  /\ best' = [best EXCEPT ![c] = NoProc]
  /\ curr' = IF fast[c] THEN curr ELSE [curr EXCEPT ![c] = NoProc]
  /\ UNCHANGED <<rqs, fast, last, home, balancer, phase>>

(***************************************************************************)
(* kds_load_balance.                                                       *)
(***************************************************************************)
(* max_cpu and min_cpu: the first CPUs with the most and the fewest procs. *)
MaxCpu(c) == \A d \in Cpus : nr[c] > nr[d] \/ (nr[c] = nr[d] /\ c <= d)

MinCpu(c) == \A d \in Cpus : nr[c] < nr[d] \/ (nr[c] = nr[d] /\ c <= d)

Unbalanced(src, dst) ==
  MaxCpu(src) /\ MinCpu(dst) /\ nr[src] - nr[dst] > Threshold

MovableAny(c) == DOMAIN queue[c]

(* What the search over the queue stops at: procs that are not running. *)
Movable(c) == {i \in DOMAIN queue[c] : queue[c][i] \notin running}

(* The first such proc is taken off the longest queue.  When there is none *)
(* the search's cursor is left at the list head, which is not NULL: the    *)
(* head is unlinked.                                                       *)
BalanceTake(src, dst) ==
  /\ phase = "up"
  /\ moving = NoProc
  /\ Unbalanced(src, dst)
  /\ IF Movable(src) = {}
     THEN broken' = TRUE /\ UNCHANGED <<queue, moving>>
     ELSE \E i \in Movable(src) :
            /\ \A j \in Movable(src) : i <= j
            /\ moving' = queue[src][i]
            /\ queue' = [queue EXCEPT ![src] = ListDel(@, i)]
            /\ UNCHANGED broken
  /\ nr' = [nr EXCEPT ![src] = @ - 1]
  /\ target' = dst
  /\ UNCHANGED <<worker, ages, home, phase>>

BalancePutUncounted ==
  /\ moving # NoProc
  /\ queue' = [queue EXCEPT ![target] = Append(@, moving)]
  /\ home' = [home EXCEPT ![moving] = target]
  /\ moving' = NoProc
  /\ UNCHANGED <<nr, worker, ages, target, broken, phase>>

(* and put at the end of the shortest. *)
BalancePut ==
  /\ moving # NoProc
  /\ queue' = [queue EXCEPT ![target] = Append(@, moving)]
  /\ nr' = [nr EXCEPT ![target] = @ + 1]
  /\ home' = [home EXCEPT ![moving] = target]
  /\ moving' = NoProc
  /\ UNCHANGED <<worker, ages, target, broken, phase>>

(***************************************************************************)
(* kds_cleanup: the balancer and the workers are stopped, each at the end  *)
(* of what it is doing, and then the procs are unregistered.               *)
(***************************************************************************)
Stop ==
  /\ phase = "up"
  /\ moving = NoProc
  /\ \A c \in Cpus : best[c] = NoProc
  /\ phase' = "stopping"
  /\ UNCHANGED <<rqs, worker, ages, home, balancer>>

(* kds_proc_unregister trusts proc->cpu to name the queue the proc is on. *)
Unregister(p) ==
  /\ phase = "stopping"
  /\ \E c \in Cpus : \E i \in DOMAIN queue[c] :
       queue[c][i] = p /\ queue' = [queue EXCEPT ![c] = ListDel(@, i)]
  /\ nr' = [nr EXCEPT ![home[p]] = @ - 1]
  /\ UNCHANGED <<worker, ages, home, balancer, phase>>

Workers == \E c \in Cpus : Select(c) \/ EndSlice(c)

Balance == BalancePut \/ \E src, dst \in Cpus : BalanceTake(src, dst)

ProcNext ==
  \/ \E p \in Procs : Register(p) \/ Unregister(p)
  \/ Start \/ Workers \/ Balance \/ Stop

ProcSpec == ProcInit /\ [][ProcNext]_schedVars

-----------------------------------------------------------------------------
ProcTypeOK ==
  /\ \A c \in Cpus :
       /\ queue[c] \in Seq(Procs)
       /\ nr[c] \in 0 .. Len(queue[c]) + 1
       /\ {curr[c], best[c], last[c]} \subseteq Procs \union {NoProc}
  /\ prio \in [Procs -> PrioMin .. PrioMax]
  /\ wait \in [Procs -> 0 .. MaxWait]
  /\ running \subseteq Procs
  /\ home \in [Procs -> Cpus \union {-1}]
  /\ moving \in Procs \union {NoProc}
  /\ phase \in {"boot", "up", "stopping"}

(* No proc is run by two workers at once, and a proc that is being run is  *)
(* on the queue of the CPU that runs it: its slice ends with the ageing of *)
(* that queue.  The balancer and the workers see to it through             *)
(* proc->running and the queue's lock.                                     *)
RunsAtHome ==
  \A c \in Cpus : best[c] # NoProc =>
    /\ best[c] \in Range(queue[c])
    /\ home[best[c]] = c
    /\ best[c] \in running
    /\ \A d \in Cpus \ {c} : best[d] # best[c]

(* The balancer loses and duplicates nothing: every registered proc is on  *)
(* exactly one queue or in the balancer's hands, nr_running is the length  *)
(* of its queue, and proc->cpu, which kds_proc_unregister relies on, is    *)
(* right whenever the balancer is not at work.  Its search never runs off  *)
(* the end of the list: with one worker per queue, a queue long enough to  *)
(* be relieved holds a proc that is not running.                           *)
QueuesAccounted ==
  /\ ProcTypeOK
  /\ ~ broken
  /\ \A c \in Cpus : nr[c] = Len(queue[c])
  /\ \A p \in Procs :
       Queued(p) => /\ p # moving
                    /\ \A c \in Cpus : p \in Range(queue[c]) => c = home[p]
                    /\ \E i \in DOMAIN queue[home[p]] :
                         \A j \in DOMAIN queue[home[p]] \ {i} : queue[home[p]][j] # p

(* Until a priority overflows, the ageing of kds_update_wait_time makes    *)
(* the queues round robin: between two slices of a proc, fewer slices go   *)
(* to others on its queue than there are procs, load balancing included.   *)
WaitIsBounded ==
  ~ wrapped => \A p \in Procs : wait[p] < Cardinality(Procs)
=============================================================================
