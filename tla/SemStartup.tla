------------------------------ MODULE SemStartup ------------------------------
(***************************************************************************)
(* How logger, health and payment come to share one semaphore: the open or *)
(* create of src/C/pi_sem.h in its two builds, the start of the three      *)
(* programs (src/C/logger.c, health.c, payment.c), the two launch scripts  *)
(* (src/C/run_poll.sh, run_poll_fifo.sh) and src/C/kill_poll.sh, after     *)
(* which the name and the object of the last run stay in /dev/shm.         *)
(*                                                                         *)
(* One step per system call that other processes can tell apart.  The      *)
(* `sleep 1` of the scripts is taken to be long enough for the programs    *)
(* already started to finish their start or give up; that they start       *)
(* epoll_server last changes nothing here: logger locks whenever anybody   *)
(* writes to its FIFO, health whenever its timer or a client wakes it.     *)
(***************************************************************************)
EXTENDS Integers, Sequences

CONSTANTS
    MaxTries,   \* how often a client tries to open (20 in the source)
    MaxRound    \* bound: how often the programs are launched

ASSUME StartAssumption == /\ MaxTries \in Nat \ {0}
                          /\ MaxRound \in Nat \ {0}

Clients == {"health", "payment"}
Procs == Clients \cup {"logger"}
Users == {"logger", "health"}       \* payment opens the semaphore, no more

None == 0                           \* no object; nobody

VARIABLES
    PiSem,      \* TRUE: built with -DUSE_PI_SEM (cc_poll_pi.sh)
    Fifo,       \* TRUE: launched by run_poll_fifo.sh; FALSE: by run_poll.sh
    name,       \* the object SEM_NAME is bound to in /dev/shm, or None
    obj,        \* every object made so far: has it a size, is its mutex
                \* initialised, who holds it (a process and its round)
    sem,        \* the object each process mapped
    pc,         \* where each process is
    tries,      \* how many opens of a client failed
    script,     \* where the launch script is
    round       \* how many times the programs were launched

setup == <<PiSem, Fifo>>
vars == <<setup, name, obj, sem, pc, tries, script, round>>

Label == {"off", "unlink", "semopen", "excl", "trunc", "init",
          "openold", "usleep", "loop", "wait", "inside", "exited"}

Starting == {"unlink", "semopen", "excl", "trunc", "init", "openold", "usleep"}
InLoop == {"loop", "wait", "inside"}

NobodyHolds == <<"nobody", 0>>
Object == [sized : BOOLEAN, init : BOOLEAN,
           holder : {NobodyHolds} \cup (Users \X (1 .. MaxRound))]

TypeOK == /\ PiSem \in BOOLEAN /\ Fifo \in BOOLEAN
          /\ obj \in Seq(Object)
          /\ name \in {None} \cup (1 .. Len(obj))
          /\ sem \in [Procs -> {None} \cup (1 .. Len(obj))]
          /\ pc \in [Procs -> Label]
          /\ tries \in [Clients -> 0 .. MaxTries]
          /\ script \in {"idle", "sleep", "up"}
          /\ round \in 0 .. MaxRound

Init == /\ PiSem \in BOOLEAN /\ Fifo \in BOOLEAN
        /\ name = None
        /\ obj = <<>>
        /\ sem = [p \in Procs |-> None]
        /\ pc = [p \in Procs |-> "off"]
        /\ tries = [c \in Clients |-> 0]
        /\ script = "idle"
        /\ round = 0

Goto(p, l) == pc' = [pc EXCEPT ![p] = l]
OpenEntry == IF PiSem THEN "excl" ELSE "semopen"

-----------------------------------------------------------------------------
(* The shell. *)

(* run_poll.sh starts the logger and sleeps. *)
LaunchLogger ==
    /\ ~Fifo /\ script = "idle" /\ round < MaxRound
    /\ round' = round + 1
    /\ Goto("logger", "unlink")
    /\ script' = "sleep"
    /\ UNCHANGED <<setup, name, obj, sem, tries>>

LaunchClientsAtOnce ==          \* mutant: no sleep after the logger
    /\ script = "sleep"
    /\ pc' = [pc EXCEPT !["health"] = OpenEntry, !["payment"] = OpenEntry]
    /\ script' = "up"
    /\ UNCHANGED <<setup, name, obj, sem, tries, round>>

(* ... then starts payment and health. *)
LaunchClients ==
    /\ script = "sleep" /\ pc["logger"] \notin Starting
    /\ pc' = [pc EXCEPT !["health"] = OpenEntry, !["payment"] = OpenEntry]
    /\ script' = "up"
    /\ UNCHANGED <<setup, name, obj, sem, tries, round>>

LaunchAllWithoutRm ==           \* mutant: the rm lines are missing
    /\ Fifo /\ script = "idle" /\ round < MaxRound
    /\ round' = round + 1
    /\ pc' = [p \in Procs |-> IF p = "logger" THEN "unlink" ELSE OpenEntry]
    /\ script' = "up"
    /\ UNCHANGED <<setup, name, obj, sem, tries>>

(* run_poll_fifo.sh removes both names and starts all three at once. *)
LaunchAll ==
    /\ Fifo /\ script = "idle" /\ round < MaxRound
    /\ round' = round + 1
    /\ name' = None
    /\ pc' = [p \in Procs |-> IF p = "logger" THEN "unlink" ELSE OpenEntry]
    /\ script' = "up"
    /\ UNCHANGED <<setup, obj, sem, tries>>

(* kill_poll.sh, and the interrupt of a script that still sleeps.  Nobody  *)
(* unlinks or unlocks anything.                                            *)
KillAll ==
    /\ script # "idle"
    /\ pc' = [p \in Procs |-> "off"]
    /\ sem' = [p \in Procs |-> None]
    /\ tries' = [c \in Clients |-> 0]
    /\ script' = "idle"
    /\ UNCHANGED <<setup, name, obj, round>>

-----------------------------------------------------------------------------
(* pi_sem_open_or_create. *)

NewObject(ready) == Append(obj, [sized |-> ready, init |-> ready,
                                 holder |-> NobodyHolds])

(* What a client does with NULL: it sleeps 1 ms and tries again, MaxTries   *)
(* times in all.  (The logger would exit, but only it removes the name, and *)
(* its open creates: it never gets NULL here.)                              *)
OpenFailed(p) ==
    /\ tries' = [tries EXCEPT ![p] = @ + 1]
    /\ Goto(p, IF tries[p] + 1 = MaxTries THEN "exited" ELSE "usleep")

Opened(p, o) == sem' = [sem EXCEPT ![p] = o] /\ Goto(p, "loop")

(* The plain build: sem_open, with O_CREAT for the logger only.  The C     *)
(* library links a new semaphore under its name when it is initialised.    *)
SemOpen(p) ==
    /\ pc[p] = "semopen"
    /\ \/ /\ name # None
          /\ Opened(p, name)
          /\ UNCHANGED <<name, obj, tries>>
       \/ /\ name = None /\ p = "logger"
          /\ obj' = NewObject(TRUE)
          /\ name' = Len(obj')
          /\ Opened(p, Len(obj'))
          /\ UNCHANGED tries
       \/ /\ name = None /\ p # "logger"
          /\ OpenFailed(p)
          /\ UNCHANGED <<name, obj, sem>>
    /\ UNCHANGED <<setup, script, round>>

(* The build with priority inheritance: shm_open(O_CREAT | O_EXCL). *)
OpenExcl(p) ==
    /\ pc[p] = "excl"
    /\ IF name = None
       THEN /\ obj' = NewObject(FALSE)
            /\ name' = Len(obj')
            /\ sem' = [sem EXCEPT ![p] = Len(obj')]
            /\ Goto(p, "trunc")
       ELSE /\ Goto(p, "openold")
            /\ UNCHANGED <<name, obj, sem>>
    /\ UNCHANGED <<setup, tries, script, round>>

Truncate(p) ==
    /\ pc[p] = "trunc"
    /\ obj' = [obj EXCEPT ![sem[p]].sized = TRUE]
    /\ Goto(p, "init")
    /\ UNCHANGED <<setup, name, sem, tries, script, round>>

(* pi_sem_init overwrites the mutex, whoever holds it. *)
InitMutex(p) ==
    /\ pc[p] = "init"
    /\ obj' = [obj EXCEPT ![sem[p]].init = TRUE, ![sem[p]].holder = NobodyHolds]
    /\ Goto(p, "loop")
    /\ UNCHANGED <<setup, name, sem, tries, script, round>>

(* The second shm_open, then mmap.  The name may be gone by now. *)
OpenExisting(p) ==
    /\ pc[p] = "openold"
    /\ \/ name # None /\ Opened(p, name) /\ UNCHANGED tries
       \/ name = None /\ OpenFailed(p) /\ UNCHANGED sem
    /\ UNCHANGED <<setup, name, obj, script, round>>

-----------------------------------------------------------------------------
(* The three programs. *)

UnlinkSkipped(p) ==             \* mutant: the logger trusts what it finds
    /\ p = "logger" /\ pc[p] = "unlink"
    /\ Goto(p, OpenEntry)
    /\ UNCHANGED <<setup, name, obj, sem, tries, script, round>>

(* The logger starts with pi_sem_unlink. *)
Unlink(p) ==
    /\ p = "logger" /\ pc[p] = "unlink"
    /\ name' = None
    /\ Goto(p, OpenEntry)
    /\ UNCHANGED <<setup, obj, sem, tries, script, round>>

Usleep(p) ==
    /\ pc[p] = "usleep"
    /\ Goto(p, OpenEntry)
    /\ UNCHANGED <<setup, name, obj, sem, tries, script, round>>

(* There is something to log, or a message or a timer tick for health: once *)
(* the process has its loop nothing else is waited for.                     *)
Work(p) ==
    /\ p \in Users /\ pc[p] = "loop"
    /\ Goto(p, "wait")
    /\ UNCHANGED <<setup, name, obj, sem, tries, script, round>>

(* A lock in memory its creator has not sized yet: SIGBUS. *)
BusError(p) ==
    /\ pc[p] = "wait" /\ ~obj[sem[p]].sized
    /\ Goto(p, "exited")
    /\ UNCHANGED <<setup, name, obj, sem, tries, script, round>>

(* pi_sem_wait returns.  Sized but not initialised the memory is all zeros, *)
(* which is a mutex that is free.                                           *)
Acquire(p) ==
    /\ pc[p] = "wait" /\ obj[sem[p]].sized
    /\ obj[sem[p]].holder = NobodyHolds
    /\ obj' = [obj EXCEPT ![sem[p]].holder = <<p, round>>]
    /\ Goto(p, "inside")
    /\ UNCHANGED <<setup, name, sem, tries, script, round>>

(* pi_sem_post.  A mutex initialised under its holder refuses the unlock if *)
(* it is somebody else's by now.                                            *)
Release(p) ==
    /\ pc[p] = "inside"
    /\ obj' = [obj EXCEPT ![sem[p]].holder =
                   IF @ = <<p, round>> THEN NobodyHolds ELSE @]
    /\ Goto(p, "loop")
    /\ UNCHANGED <<setup, name, sem, tries, script, round>>

Open(p) == SemOpen(p) \/ OpenExcl(p) \/ Truncate(p) \/ InitMutex(p)
           \/ OpenExisting(p)

Step(p) == \/ Unlink(p) \/ Open(p) \/ Usleep(p)
           \/ BusError(p) \/ Acquire(p) \/ Release(p)

Shell == LaunchLogger \/ LaunchClients \/ LaunchAll

Next == Shell \/ KillAll \/ \E p \in Procs : Step(p) \/ Work(p)

Spec == Init /\ [][Next]_vars

(* The build with priority inheritance needs the order of run_poll.sh.      *)
InOrder == ~(PiSem /\ Fifo)

-----------------------------------------------------------------------------
(* All programs in their loops mapped the same semaphore.  health.c and      *)
(* payment.c say so where they open it: they open the one the logger made.   *)
OneSemaphore ==
    \A p, q \in Procs : pc[p] \in InLoop /\ pc[q] \in InLoop => sem[p] = sem[q]

(* Launched in order, or in the plain build, nobody locks a semaphore whose  *)
(* memory has no size yet (a bus error) or that its creator has still to     *)
(* initialise, not even one a killed launch left half made.                  *)
TouchesReadySemaphore == InOrder =>
    \A p \in Users : pc[p] \in {"wait", "inside"} =>
        obj[sem[p]].sized /\ obj[sem[p]].init

(* Whoever waits, waits for a living process that is inside: kill_poll.sh    *)
(* may kill a program that holds the lock, and the next launch must not wait *)
(* for the dead one.                                                         *)
HolderLives ==
    \A p \in Users : pc[p] = "wait" =>
        LET h == obj[sem[p]].holder IN
        h # NobodyHolds => h[2] = round /\ pc[h[1]] = "inside" /\ sem[h[1]] = sem[p]

(* Under run_poll.sh nobody gives up: the logger made the semaphore before   *)
(* the clients look for it.                                                  *)
NobodyGivesUp == ~Fifo => \A p \in Procs : pc[p] # "exited"

(* Over all launches and kills, logger and health implement one critical     *)
(* section if launched in order, or in the plain build.                      *)
Inside == {p \in Users : pc[p] = "inside"}
Section == INSTANCE CriticalSection WITH Procs <- Users,
                                         inside <- IF InOrder THEN Inside ELSE {}
ImplementsSection == Section!Spec
=============================================================================
