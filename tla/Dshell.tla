------------------------------- MODULE Dshell ------------------------------
(***************************************************************************)
(* The command shell of kernel/kds/dshell.c: /dev/kds clients whose        *)
(* write() hands an insert to the scheduler's dshell proc through          *)
(* exec_status, exec_buf and a completion, and waits at most five seconds. *)
(*                                                                         *)
(* clients_lock is held except while kds_exec_run works on a client's      *)
(* exec_buf, so a step of the proc reaches from one such run to the next.  *)
(* Parsing, the other commands (which run inside write()) and the executor *)
(* itself appear only through what they leave behind.                      *)
(***************************************************************************)
EXTENDS Integers, Sequences, Functions, Lists

CONSTANTS
    Clients,        \* open() calls
    NoClient,
    MaxCmds,        \* bound on the commands of one client
    MaxTimeouts,    \* bound on the waits that time out
    MaxClients      \* bound on the open() calls

ASSUME DshellAssumption ==
    /\ NoClient \notin Clients
    /\ MaxCmds \in Nat /\ MaxTimeouts \in Nat /\ MaxClients \in Nat

VARIABLES
    list,       \* kds_dshell_clients, in the order of open()
    status,     \* client -> exec_status
    done,       \* client -> count of the completion
    exec,       \* client -> exec_buf: command, base.ret, how its run ended
    resp,       \* client -> resp_buf: <<command, text>>, or << >> if empty
    wpc,        \* client -> where its write() is
    cmd,        \* client -> number of its current command
    rel,        \* client -> its write() has a relation open
    served,     \* the client whose exec_buf kds_exec_run works on
    runcmd,     \* the command that was in it when the run began
    alive,      \* the proc is registered
    late,       \* clients that have had a timeout
    timeouts, opens

procVars == <<served, runcmd, alive>>
budget == <<timeouts, opens>>
vars == <<list, status, done, exec, resp, wpc, cmd, rel, procVars, late, budget>>

Blank == [cmd |-> 0, ret |-> "ok", end |-> "none"]

Init ==
    /\ list = << >>
    /\ status = [c \in Clients |-> "IDLE"]
    /\ done = [c \in Clients |-> 0]
    /\ exec = [c \in Clients |-> Blank]
    /\ resp = [c \in Clients |-> << >>]
    /\ wpc = [c \in Clients |-> "closed"]
    /\ cmd = [c \in Clients |-> 0]
    /\ rel = [c \in Clients |-> FALSE]
    /\ served = NoClient /\ runcmd = 0 /\ alive = TRUE
    /\ late = {} /\ timeouts = 0 /\ opens = 0

Goto(c, label) == wpc' = [wpc EXCEPT ![c] = label]

Respond(c, text) == resp' = [resp EXCEPT ![c] = <<cmd[c], text>>]

\* kds_dshell_open.
Open(c) ==
    /\ wpc[c] = "closed"
    /\ opens < MaxClients
    /\ opens' = opens + 1
    /\ list' = Append(list, c)
    /\ Goto(c, "ready")
    /\ UNCHANGED <<status, done, exec, resp, cmd, rel, procVars, late, timeouts>>

\* kds_dshell_release: off the list, then freed. write() is over by then.
Release(c) ==
    /\ wpc[c] = "ready"
    /\ \E i \in DOMAIN list : list[i] = c /\ list' = ListDel(list, i)
    /\ status' = [status EXCEPT ![c] = "IDLE"]
    /\ done' = [done EXCEPT ![c] = 0]
    /\ exec' = [exec EXCEPT ![c] = Blank]
    /\ resp' = [resp EXCEPT ![c] = << >>]
    /\ cmd' = [cmd EXCEPT ![c] = 0]
    /\ Goto(c, "closed")
    /\ UNCHANGED <<rel, procVars, late, budget>>

\* kds_dshell_read: the staged response, to its end.
Read(c) ==
    /\ wpc[c] = "ready"
    /\ resp[c] # << >>
    /\ resp' = [resp EXCEPT ![c] = << >>]
    /\ UNCHANGED <<list, status, done, exec, wpc, cmd, rel, procVars, late, budget>>

\* kds_dshell_write: resp_buf is reset for the new command.
NewCommand(c) ==
    /\ wpc[c] = "ready"
    /\ cmd[c] < MaxCmds
    /\ cmd' = [cmd EXCEPT ![c] = @ + 1]

\* A command that is answered within write(): a parse error, SELECT, SHOW...
Direct(c) ==
    /\ NewCommand(c)
    /\ resp' = [resp EXCEPT ![c] = <<cmd[c] + 1, "direct">>]
    /\ UNCHANGED <<list, status, done, exec, wpc, rel, procVars, late, budget>>

(* kds_cmd_insert_row: the relation is opened, the executor copied into    *)
(* exec_buf with ret 0, and the completion reset.                          *)
Submit(c) ==
    /\ NewCommand(c)
    /\ rel' = [rel EXCEPT ![c] = TRUE]
    /\ exec' = [exec EXCEPT ![c] = [cmd |-> cmd[c] + 1, ret |-> "ok", end |-> "none"]]
    /\ resp' = [resp EXCEPT ![c] = << >>]
    /\ done' = [done EXCEPT ![c] = 0]
    /\ Goto(c, "publish")
    /\ UNCHANGED <<list, status, procVars, late, budget>>

\* Mutation of Publish: write() does not wait.
PublishReturns(c) ==
    /\ wpc[c] = "publish"
    /\ status' = [status EXCEPT ![c] = "PENDING"]
    /\ rel' = [rel EXCEPT ![c] = FALSE]
    /\ Goto(c, "ready")
    /\ UNCHANGED <<list, done, exec, resp, cmd, procVars, late, budget>>

\* WRITE_ONCE(exec_status, PENDING), without the lock; then the wait.
Publish(c) ==
    /\ wpc[c] = "publish"
    /\ status' = [status EXCEPT ![c] = "PENDING"]
    /\ Goto(c, "waiting")
    /\ UNCHANGED <<list, done, exec, resp, cmd, rel, procVars, late, budget>>

\* The wait is over: the relation is closed, the outcome read from exec_buf.
Wake(c) ==
    /\ wpc[c] = "waiting"
    /\ done[c] > 0
    /\ done' = [done EXCEPT ![c] = @ - 1]
    /\ rel' = [rel EXCEPT ![c] = FALSE]
    /\ Respond(c, exec[c].ret)
    /\ Goto(c, "ready")
    /\ UNCHANGED <<list, status, exec, cmd, procVars, late, budget>>

\* wait_for_completion_timeout returns 0; the lock is still to be taken.
TimesOut(c) ==
    /\ wpc[c] = "waiting"
    /\ done[c] = 0
    /\ timeouts < MaxTimeouts
    /\ timeouts' = timeouts + 1
    /\ late' = late \cup {c}
    /\ Goto(c, "cancel")
    /\ UNCHANGED <<list, status, done, exec, resp, cmd, rel, procVars, opens>>

\* The time is up: IDLE under the lock, the relation closed, -ETIMEDOUT.
Cancel(c) ==
    /\ wpc[c] = "cancel"
    /\ status' = [status EXCEPT ![c] = "IDLE"]
    /\ rel' = [rel EXCEPT ![c] = FALSE]
    /\ Respond(c, "timeout")
    /\ Goto(c, "ready")
    /\ UNCHANGED <<list, done, exec, cmd, procVars, late, budget>>

-----------------------------------------------------------------------------
\* The clients of the list at and after index i that are PENDING.
PendingFrom(i) == {j \in i..Len(list) : status[list[j]] = "PENDING"}

\* The loop goes on at index i: unlock and run, or the end of the list.
ScanFrom(i, pending) ==
    IF pending = {}
    THEN served' = NoClient /\ runcmd' = 0
    ELSE \E j \in pending :
           /\ \A k \in pending : j <= k
           /\ served' = list[j]
           /\ runcmd' = exec[list[j]].cmd

\* kds_dshell_proc_run is called, and finds a client that is PENDING.
ProcStart ==
    /\ alive
    /\ served = NoClient
    /\ PendingFrom(1) # {}
    /\ ScanFrom(1, PendingFrom(1))
    /\ UNCHANGED <<list, status, done, exec, resp, wpc, cmd, rel, alive, late, budget>>

\* Mutation of RunContinues: the client is woken after its first slice.
RunContinuesWakes ==
    /\ served # NoClient
    /\ served' = NoClient /\ runcmd' = 0
    /\ status' = [status EXCEPT ![served] = "IDLE"]
    /\ done' = [done EXCEPT ![served] = @ + 1]
    /\ UNCHANGED <<list, exec, resp, wpc, cmd, rel, alive, late, budget>>

\* KDS_EXEC_CONTINUE: the slice is spent, the next call starts at the head.
RunContinues ==
    /\ served # NoClient
    /\ served' = NoClient /\ runcmd' = 0
    /\ UNCHANGED <<list, status, done, exec, resp, wpc, cmd, rel, alive, late, budget>>

(* KDS_EXEC_DONE or KDS_EXEC_ERROR: the result is in exec_buf, whoever's   *)
(* command is there by now; IDLE, complete(), and on to the next client.   *)
(* A client that was freed meanwhile is not defined and not followed.      *)
RunEnds(result) ==
    LET c == served
        i == CHOOSE k \in 1..Len(list) : list[k] = c
    IN  /\ c # NoClient
        /\ c \in Range(list)
        /\ exec' = [exec EXCEPT ![c] =
              [cmd |-> exec[c].cmd, ret |-> result,
               end |-> IF exec[c].cmd = runcmd THEN result ELSE exec[c].end]]
        /\ resp' = IF result = "error"
                   THEN [resp EXCEPT ![c] = <<cmd[c], "error">>] ELSE resp
        /\ status' = [status EXCEPT ![c] = "IDLE"]
        /\ done' = [done EXCEPT ![c] = @ + 1]
        /\ ScanFrom(i + 1, PendingFrom(i + 1))
        /\ UNCHANGED <<list, wpc, cmd, rel, alive, late, budget>>

\* Mutation of Shutdown: the writers that wait are forgotten.
ShutdownSilent ==
    /\ alive
    /\ served = NoClient
    /\ alive' = FALSE
    /\ UNCHANGED <<list, status, done, exec, resp, wpc, cmd, rel, served, runcmd,
                   late, budget>>

(* kds_shutdown_dshell_system, after the workers have stopped: the proc is *)
(* gone, and every write() that waits is woken.                            *)
Shutdown ==
    LET waiting == {c \in Range(list) : status[c] = "PENDING"}
    IN  /\ alive
        /\ served = NoClient
        /\ alive' = FALSE
        /\ status' = [c \in Clients |-> IF c \in waiting THEN "IDLE" ELSE status[c]]
        /\ done' = [c \in Clients |-> IF c \in waiting THEN done[c] + 1 ELSE done[c]]
        /\ UNCHANGED <<list, exec, resp, wpc, cmd, rel, served, runcmd, late, budget>>

Write(c) == Publish(c) \/ Wake(c) \/ Cancel(c)

RunFinishes == \E result \in {"ok", "error"} : RunEnds(result)

Next ==
    \/ \E c \in Clients :
          \/ Open(c)
          \/ Release(c)
          \/ Read(c)
          \/ Direct(c)
          \/ Submit(c)
          \/ Write(c)
          \/ TimesOut(c)
    \/ ProcStart
    \/ RunContinues
    \/ RunFinishes
    \/ Shutdown

Spec == Init /\ [][Next]_vars

(* write() goes on when it can, the scheduler calls the dshell proc again  *)
(* and again, and an executor that is given slice after slice ends.        *)
Fairness ==
    /\ \A c \in Clients : WF_vars(Write(c))
    /\ WF_vars(ProcStart)
    /\ WF_vars(RunContinues \/ RunFinishes)
    /\ \A c \in Clients : SF_vars(RunFinishes /\ served = c)

FairSpec == Spec /\ Fairness

-----------------------------------------------------------------------------
TypeOK ==
    /\ list \in Seq(Clients) /\ Len(list) <= MaxClients
    /\ status \in [Clients -> {"IDLE", "PENDING"}]
    /\ done \in [Clients -> Nat]
    /\ exec \in [Clients -> [cmd : 0..MaxCmds, ret : {"ok", "error"},
                             end : {"none", "ok", "error"}]]
    /\ resp \in [Clients -> {<< >>} \cup
                    ((0..MaxCmds) \X {"ok", "error", "direct", "timeout"})]
    /\ wpc \in [Clients -> {"closed", "ready", "publish", "waiting", "cancel"}]
    /\ cmd \in [Clients -> 0..MaxCmds]
    /\ rel \in [Clients -> BOOLEAN]
    /\ served \in Clients \cup {NoClient} /\ runcmd \in 0..MaxCmds
    /\ alive \in BOOLEAN
    /\ late \subseteq Clients /\ timeouts \in 0..MaxTimeouts /\ opens \in 0..MaxClients

\* What is staged for c answers its command, as the executor's own run said.
AnswerFor(c) ==
    alive /\ wpc[c] = "ready" /\ resp[c] # << >> =>
        /\ resp[c][1] = cmd[c]
        /\ resp[c][2] \in {"ok", "error"} =>
              exec[c].cmd = cmd[c] /\ exec[c].end = resp[c][2]

(* dshell.c: "one write() = one command, one read() = its response". The   *)
(* response that is staged when write() is over answers that command, and  *)
(* says of an insert what the executor's own run of it said. (Writers that *)
(* the shutdown sent home are not answered.) A client that ran into its    *)
(* timeout may get the late answer to the command before; it is the only   *)
(* one: "Multiple clients are independent".                                *)
AnswerIsOwn == \A c \in Clients \ late : AnswerFor(c)

(* While kds_exec_run works for a client without clients_lock, the client  *)
(* is open, waits in write() and keeps the relation open that the executor *)
(* points to, unless its own timeout has sent write() home meanwhile.      *)
ExecIsBacked ==
    /\ TypeOK
    /\ served \in Clients \ late =>
          /\ served \in Range(list)
          /\ wpc[served] = "waiting" /\ rel[served]
          /\ exec[served].cmd = runcmd

(* No wakeup is lost: every write() that waits while there is a proc comes *)
(* back, by the proc or by the shutdown, without the help of the timeout.  *)
InsertReturns ==
    \A c \in Clients : wpc[c] = "waiting" /\ alive ~> wpc[c] = "ready"
============================================================================
