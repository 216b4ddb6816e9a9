---------------------------- MODULE PrioInversion ----------------------------
(***************************************************************************)
(* The loops of logger, payment and health (src/C/logger.c, payment.c,     *)
(* health.c) after their start, on one CPU under strict priorities, with   *)
(* the semaphore of src/C/pi_sem.h: the priority inversion example of the  *)
(* repository.  health (SCHED_FIFO 90 or SCHED_DEADLINE, by the script) is *)
(* before payment (SCHED_FIFO 50), and both are before the logger, which   *)
(* has no real time priority (SCHED_BATCH); with PiMutex the holder of the *)
(* lock inherits the priority of who waits for it.                         *)
(*                                                                         *)
(* The world outside is not scheduled: FIFO writers (echo, epoll_server),  *)
(* the sender of payments, health's client and the timer act at any time.  *)
(***************************************************************************)
EXTENDS Integers, Sequences

CONSTANTS
    BusyTurns,  \* how often payment calls busy_wait_ms for one read (20)
    MaxFifo,    \* bound: messages in the log FIFO
    MaxPay,     \* bound: payments on their socket
    MaxCmds     \* bound: commands on health's socket

ASSUME InversionAssumption ==
    BusyTurns \in Nat \ {0}
    /\ MaxFifo \in Nat \ {0} /\ MaxPay \in Nat \ {0} /\ MaxCmds \in Nat \ {0}

Procs == {"logger", "payment", "health"}
Nobody == "nobody"
Commands == {"START", "STOP"}
Events == {"timer", "client"}

VARIABLES
    PiMutex,    \* TRUE: built with -DUSE_PI_SEM
    pc,         \* where each process is in its loop
    holder,     \* who holds the semaphore
    fifo,       \* number of messages in the log FIFO
    writer,     \* is the FIFO open for writing somewhere
    hup,        \* between poll and read: did poll report a hangup, no data
    pays,       \* number of payments on the socket
    payEof,     \* the sender of payments is gone
    turns,      \* busy turns payment has left
    tick,       \* health's timer expired since its last read
    cmds,       \* commands on health's socket, oldest first
    cmdEof,     \* health's client is gone
    events,     \* events health still has to handle
    got,        \* the commands health read last
    running,    \* health's flag of that name
    last        \* the last command sent (history)

loggerVars  == <<fifo, writer, hup>>
paymentVars == <<pays, payEof, turns>>
healthVars  == <<tick, cmds, cmdEof, events, got, running, last>>
vars == <<PiMutex, pc, holder, loggerVars, paymentVars, healthVars>>

Label == [logger  |-> {"open", "poll", "wait", "read", "post"},
          payment |-> {"read", "busy", "done"},
          health  |-> {"epoll", "dispatch", "twait", "check", "cwait", "apply"}]

TypeOK == /\ PiMutex \in BOOLEAN
          /\ DOMAIN pc = Procs /\ \A p \in Procs : pc[p] \in Label[p]
          /\ holder \in {"logger", "health", Nobody}
          /\ fifo \in 0 .. MaxFifo /\ writer \in BOOLEAN /\ hup \in BOOLEAN
          /\ pays \in 0 .. MaxPay /\ payEof \in BOOLEAN /\ turns \in 0 .. BusyTurns
          /\ tick \in BOOLEAN /\ cmdEof \in BOOLEAN /\ running \in BOOLEAN
          /\ cmds \in Seq(Commands) /\ Len(cmds) <= MaxCmds
          /\ got \in Seq(Commands)
          /\ events \in Seq(Events)
          /\ last \in Commands \cup {"none"}

Init == /\ PiMutex \in BOOLEAN
        /\ pc = [logger |-> "open", payment |-> "read", health |-> "epoll"]
        /\ holder = Nobody
        /\ fifo = 0 /\ writer = FALSE /\ hup = FALSE
        /\ pays = 0 /\ payEof = FALSE /\ turns = 0
        /\ tick = FALSE /\ cmds = <<>> /\ cmdEof = FALSE
        /\ events = <<>> /\ got = <<>> /\ running = FALSE
        /\ last = "none"

Goto(p, l) == pc' = [pc EXCEPT ![p] = l]

-----------------------------------------------------------------------------
(* The scheduler. *)

(* A process is runnable unless it is blocked in a system call. *)
LoggerRunnable ==
    CASE pc["logger"] = "open" -> writer
      [] pc["logger"] = "wait" -> holder = Nobody
      [] pc["logger"] = "read" -> fifo > 0 \/ ~writer
      [] OTHER                 -> TRUE

PaymentRunnable ==
    CASE pc["payment"] = "read" -> pays > 0 \/ payEof
      [] pc["payment"] = "busy" -> TRUE
      [] OTHER                  -> FALSE

HealthRunnable ==
    CASE pc["health"] = "epoll"             -> tick \/ cmds # <<>> \/ cmdEof
      [] pc["health"] \in {"twait", "cwait"} -> holder = Nobody
      [] OTHER                              -> TRUE

HealthBlocked == pc["health"] \in {"twait", "cwait"} /\ holder # Nobody

PriorityNotInherited == [logger |-> 1, payment |-> 2, health |-> 3]  \* mutant

(* The scripts' priorities, and the inheritance of the PI mutex. *)
Priority == [logger  |-> IF PiMutex /\ holder = "logger" /\ HealthBlocked
                         THEN 3 ELSE 1,
             payment |-> 2,
             health  |-> 3]

LoggerRuns == /\ LoggerRunnable
              /\ PaymentRunnable => Priority["payment"] < Priority["logger"]
              /\ HealthRunnable => Priority["health"] < Priority["logger"]
PaymentRuns == /\ PaymentRunnable
               /\ LoggerRunnable => Priority["logger"] < Priority["payment"]
               /\ HealthRunnable => Priority["health"] < Priority["payment"]
HealthRuns == HealthRunnable

Acquire(p, l) == holder = Nobody /\ holder' = p /\ Goto(p, l)
Release(p, l) == holder' = Nobody /\ Goto(p, l)

-----------------------------------------------------------------------------
(* logger.c *)

(* open(O_RDONLY) returns once there is a writer. *)
LoggerOpen ==
    /\ pc["logger"] = "open"
    /\ Goto("logger", "poll")
    /\ UNCHANGED <<holder, loggerVars>>

LoggerNoPoll ==                 \* mutant: no poll before the lock is taken
    /\ pc["logger"] = "poll"
    /\ hup' = FALSE
    /\ Goto("logger", "wait")
    /\ UNCHANGED <<holder, fifo, writer>>

(* poll with timeout 0: there is data, or the last writer has gone (POLLHUP *)
(* counts as an event too).  Otherwise the loop spins.                      *)
LoggerPoll ==
    /\ pc["logger"] = "poll"
    /\ fifo > 0 \/ ~writer
    /\ hup' = (fifo = 0)
    /\ Goto("logger", "wait")
    /\ UNCHANGED <<holder, fifo, writer>>

LoggerWait ==
    /\ pc["logger"] = "wait"
    /\ Acquire("logger", "read")
    /\ UNCHANGED loggerVars

LoggerReadLeaks ==              \* mutant: no pi_sem_post when read gives 0
    /\ pc["logger"] = "read"
    /\ fifo' = 0
    /\ hup' = FALSE
    /\ Goto("logger", IF fifo > 0 THEN "post" ELSE "poll")
    /\ UNCHANGED <<holder, writer>>

(* read takes what is there, or returns 0 if there is no writer; else it is *)
(* not runnable.  A log line is written when something was read.            *)
LoggerRead ==
    /\ pc["logger"] = "read"
    /\ fifo' = 0
    /\ hup' = FALSE
    /\ Goto("logger", "post")
    /\ UNCHANGED <<holder, writer>>

LoggerPost ==
    /\ pc["logger"] = "post"
    /\ Release("logger", "poll")
    /\ UNCHANGED loggerVars

Logger == /\ LoggerRuns
          /\ LoggerOpen \/ LoggerPoll \/ LoggerWait \/ LoggerRead \/ LoggerPost
          /\ UNCHANGED <<PiMutex, paymentVars, healthVars>>

-----------------------------------------------------------------------------
(* payment.c: it never takes the lock. *)

(* One read takes all the payments that are there; 0 bytes end the loop. *)
PaymentRead ==
    /\ pc["payment"] = "read"
    /\ IF pays > 0
       THEN Goto("payment", "busy") /\ turns' = BusyTurns
       ELSE Goto("payment", "done") /\ UNCHANGED turns
    /\ pays' = 0
    /\ UNCHANGED payEof

(* busy_wait_ms *)
PaymentBusy ==
    /\ pc["payment"] = "busy"
    /\ turns' = turns - 1
    /\ IF turns = 1 THEN Goto("payment", "read") ELSE UNCHANGED pc
    /\ UNCHANGED <<pays, payEof>>

Payment == /\ PaymentRuns
           /\ PaymentRead \/ PaymentBusy
           /\ UNCHANGED <<PiMutex, holder, loggerVars, healthVars>>

-----------------------------------------------------------------------------
(* health.c *)

(* epoll_wait returns what is ready, in either order. *)
HealthPoll ==
    /\ pc["health"] = "epoll"
    /\ \E seq \in {<<"timer", "client">>, <<"client", "timer">>,
                   <<"timer">>, <<"client">>} :
          /\ tick <=> \E i \in DOMAIN seq : seq[i] = "timer"
          /\ (cmds # <<>> \/ cmdEof) <=> \E i \in DOMAIN seq : seq[i] = "client"
          /\ events' = seq
    /\ Goto("health", "dispatch")
    /\ UNCHANGED <<holder, tick, cmds, cmdEof, got, running, last>>

HealthBatchDone ==
    /\ pc["health"] = "dispatch" /\ events = <<>>
    /\ Goto("health", "epoll")
    /\ UNCHANGED <<holder, healthVars>>

(* The timer event: the expirations so far are read as one; a check follows *)
(* if running.                                                              *)
HealthTimer ==
    /\ pc["health"] = "dispatch" /\ events # <<>> /\ Head(events) = "timer"
    /\ events' = Tail(events)
    /\ tick' = FALSE
    /\ IF running THEN Goto("health", "twait") ELSE UNCHANGED pc
    /\ UNCHANGED <<holder, cmds, cmdEof, got, running, last>>

HealthClientNoWait ==           \* mutant: commands handled without the lock
    /\ pc["health"] = "dispatch" /\ events # <<>> /\ Head(events) = "client"
    /\ events' = Tail(events)
    /\ got' = cmds
    /\ cmds' = <<>>
    /\ IF cmds # <<>> THEN Goto("health", "apply") ELSE UNCHANGED pc
    /\ UNCHANGED <<holder, tick, cmdEof, running, last>>

(* The client event: one read takes every command there is.  0 bytes are   *)
(* ignored, and the socket stays ready for ever.                           *)
HealthClient ==
    /\ pc["health"] = "dispatch" /\ events # <<>> /\ Head(events) = "client"
    /\ events' = Tail(events)
    /\ got' = cmds
    /\ cmds' = <<>>
    /\ IF cmds # <<>> THEN Goto("health", "cwait") ELSE UNCHANGED pc
    /\ UNCHANGED <<holder, tick, cmdEof, running, last>>

HealthWait ==
    /\ \/ pc["health"] = "twait" /\ Acquire("health", "check")
       \/ pc["health"] = "cwait" /\ Acquire("health", "apply")
    /\ UNCHANGED healthVars

(* The check's log line; then the lock is released. *)
HealthCheck ==
    /\ pc["health"] = "check"
    /\ Release("health", "dispatch")
    /\ UNCHANGED healthVars

Has(text, word) == \E i \in DOMAIN text : text[i] = word

HealthApplyStartFirst ==        \* mutant: START is looked for before STOP
    /\ pc["health"] = "apply"
    /\ running' = IF Has(got, "START") THEN TRUE
                  ELSE IF Has(got, "STOP") THEN FALSE ELSE running
    /\ Release("health", "dispatch")
    /\ got' = <<>>
    /\ UNCHANGED <<tick, cmds, cmdEof, events, last>>

(* strstr looks for STOP first, then for START.  The buffer is not looked at *)
(* again (got is emptied).                                                  *)
HealthApply ==
    /\ pc["health"] = "apply"
    /\ running' = IF Has(got, "STOP") THEN FALSE
                  ELSE IF Has(got, "START") THEN TRUE ELSE running
    /\ Release("health", "dispatch")
    /\ got' = <<>>
    /\ UNCHANGED <<tick, cmds, cmdEof, events, last>>

Health == /\ HealthRuns
          /\ HealthPoll \/ HealthBatchDone \/ HealthTimer \/ HealthClient
             \/ HealthWait \/ HealthCheck \/ HealthApply
          /\ UNCHANGED <<PiMutex, loggerVars, paymentVars>>

-----------------------------------------------------------------------------
(* The world outside. *)

FifoOpen ==
    /\ ~writer /\ writer' = TRUE
    /\ UNCHANGED <<PiMutex, pc, holder, fifo, hup, paymentVars, healthVars>>

FifoWrite ==
    /\ writer /\ fifo < MaxFifo /\ fifo' = fifo + 1
    /\ UNCHANGED <<PiMutex, pc, holder, writer, hup, paymentVars, healthVars>>

FifoClose ==
    /\ writer /\ writer' = FALSE
    /\ UNCHANGED <<PiMutex, pc, holder, fifo, hup, paymentVars, healthVars>>

Pay == /\ ~payEof /\ pays < MaxPay /\ pays' = pays + 1
       /\ UNCHANGED <<PiMutex, pc, holder, loggerVars, payEof, turns, healthVars>>

PayClose == /\ ~payEof /\ payEof' = TRUE
            /\ UNCHANGED <<PiMutex, pc, holder, loggerVars, pays, turns, healthVars>>

Tick == /\ ~tick /\ tick' = TRUE
        /\ UNCHANGED <<PiMutex, pc, holder, loggerVars, paymentVars,
                       cmds, cmdEof, events, got, running, last>>

Command(c) ==
    /\ ~cmdEof /\ Len(cmds) < MaxCmds
    /\ cmds' = Append(cmds, c)
    /\ last' = c
    /\ UNCHANGED <<PiMutex, pc, holder, loggerVars, paymentVars,
                   tick, cmdEof, events, got, running>>

CommandClose ==
    /\ ~cmdEof /\ cmdEof' = TRUE
    /\ UNCHANGED <<PiMutex, pc, holder, loggerVars, paymentVars,
                   tick, cmds, events, got, running, last>>

World == FifoOpen \/ FifoWrite \/ FifoClose \/ Pay \/ PayClose \/ Tick
         \/ CommandClose \/ \E c \in Commands : Command(c)

Cpu == Logger \/ Payment \/ Health

Next == Cpu \/ World

(* The CPU does not idle while a process is runnable; a logger that a       *)
(* leaving writer wakes again and again runs before a new writer comes at   *)
(* last; and whoever has the FIFO open for writing goes on to write or to   *)
(* close it, as echo does.                                                  *)
Fairness == /\ WF_vars(Cpu)
            /\ SF_vars(Logger)
            /\ WF_vars(FifoWrite \/ FifoClose)

Spec == Init /\ [][Next]_vars /\ Fairness

-----------------------------------------------------------------------------
(* What priority inheritance is for: while health waits for a lock whose    *)
(* holder, the logger, can run, payment gets no CPU (payment.c's comment on *)
(* the classic three process inversion).                                    *)
NoInversion ==
    [][PiMutex /\ HealthBlocked /\ LoggerRunnable => ~Payment]_vars

(* Under priority inheritance health gets the lock it waits for, however    *)
(* many payments arrive.                                                    *)
HealthServed == PiMutex /\ HealthBlocked ~> ~HealthBlocked

(* With the plain semaphore health waits as long as there are payments to    *)
(* process, and no longer: when they end, it is served.                      *)
ServedWhenPaymentsEnd == <>[](~PaymentRunnable) => (HealthBlocked ~> ~HealthBlocked)

(* STOP is never lost: if it is the last command sent, health is not        *)
(* running once it has handled what it was sent, even when it read several  *)
(* commands at once.                                                        *)
StopWins ==
    (last = "STOP" /\ cmds = <<>> /\ pc["health"] \notin {"cwait", "apply"})
        => ~running

(* The logger sleeps in read, lock in hand, only when its poll reported a   *)
(* hangup and a new writer came before the read.                            *)
BlocksOnlyAfterHangup ==
    pc["logger"] = "read" /\ ~LoggerRunnable => hup

(* logger and health implement one critical section. *)
Inside == {p \in {"logger", "health"} : pc[p] \in {"read", "post", "check", "apply"}}
Section == INSTANCE CriticalSection WITH Procs <- {"logger", "health"},
                                         inside <- Inside
ImplementsSection == Section!Spec
=============================================================================
