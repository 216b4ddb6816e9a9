------------------------------- MODULE SysvSem -------------------------------
(***************************************************************************)
(* src/C/shm.c: processes that share a System V memory segment under a     *)
(* System V semaphore.  Every process runs main() once: it gets the        *)
(* semaphore, sets its value to 1, attaches the segment, locks, writes,    *)
(* sleeps, unlocks and exits; a signal may kill it at any point.  The      *)
(* kernel's SEM_UNDO adjustments are part of the state, because lock and   *)
(* unlock ask for them and SETVAL clears them.                             *)
(***************************************************************************)
EXTENDS Integers, FiniteSets

CONSTANTS
    Procs,      \* the processes that run shm.c
    NoOne       \* not a process: the writer of the empty segment

ASSUME SysvAssumption == /\ IsFiniteSet(Procs)
                         /\ NoOne \notin Procs

VARIABLES
    pc,         \* where each process is in main()
    semval,     \* the value of the semaphore; -1 while the set does not exist
    undo,       \* each process's SEM_UNDO adjustment of it
    shm,        \* the process whose text is in the segment, or NoOne
    overlapped  \* a process set the value while another was inside (history)

vars == <<pc, semval, undo, shm, overlapped>>

Label == {"semget", "setval", "attach", "lock", "crit", "sleep", "detach", "gone"}

TypeOK == /\ pc \in [Procs -> Label]
          /\ semval \in -1 .. Cardinality(Procs)
          /\ undo \in [Procs -> -1 .. 1]
          /\ shm \in Procs \cup {NoOne}
          /\ overlapped \in BOOLEAN

Init == /\ pc = [p \in Procs |-> "semget"]
        /\ semval = -1
        /\ undo = [p \in Procs |-> 0]
        /\ shm = NoOne
        /\ overlapped = FALSE

Inside == {p \in Procs : pc[p] \in {"crit", "sleep"}}

Goto(p, l) == pc' = [pc EXCEPT ![p] = l]

-----------------------------------------------------------------------------
(* semget(IPC_CREAT): the first call makes the set, whose value is 0. *)
Semget(p) ==
    /\ pc[p] = "semget"
    /\ semval' = IF semval = -1 THEN 0 ELSE semval
    /\ Goto(p, "setval")
    /\ UNCHANGED <<undo, shm, overlapped>>

(* semctl(SETVAL, 1), whoever made the set.  The kernel forgets every      *)
(* process's adjustment of the semaphore.                                  *)
Setval(p) ==
    /\ pc[p] = "setval"
    /\ overlapped' = (overlapped \/ Inside # {})
    /\ semval' = 1
    /\ undo' = [q \in Procs |-> 0]
    /\ Goto(p, "attach")
    /\ UNCHANGED shm

(* shmget and shmat: the segment outlives every process. *)
Attach(p) ==
    /\ pc[p] = "attach"
    /\ Goto(p, "lock")
    /\ UNCHANGED <<semval, undo, shm, overlapped>>

LockWithoutUndo(p) ==           \* mutant: lock without SEM_UNDO
    /\ pc[p] = "lock"
    /\ semval > 0
    /\ semval' = semval - 1
    /\ Goto(p, "crit")
    /\ UNCHANGED <<undo, shm, overlapped>>

(* lock_semaphore *)
Lock(p) ==
    /\ pc[p] = "lock"
    /\ semval > 0
    /\ semval' = semval - 1
    /\ undo' = [undo EXCEPT ![p] = @ + 1]
    /\ Goto(p, "crit")
    /\ UNCHANGED <<shm, overlapped>>

(* The access to the segment, then sleep(2). *)
Write(p) ==
    /\ pc[p] = "crit"
    /\ shm' = p
    /\ Goto(p, "sleep")
    /\ UNCHANGED <<semval, undo, overlapped>>

UnlockWithoutUndo(p) ==         \* mutant: unlock without SEM_UNDO
    /\ pc[p] = "sleep"
    /\ semval' = semval + 1
    /\ Goto(p, "detach")
    /\ UNCHANGED <<undo, shm, overlapped>>

(* unlock_semaphore *)
Unlock(p) ==
    /\ pc[p] = "sleep"
    /\ semval' = semval + 1
    /\ undo' = [undo EXCEPT ![p] = @ - 1]
    /\ Goto(p, "detach")
    /\ UNCHANGED <<shm, overlapped>>

(* What the kernel does when a process ends: it applies the adjustment, and *)
(* stops at 0.                                                              *)
ApplyUndo(p) ==
    /\ semval' = IF semval + undo[p] < 0 THEN 0 ELSE semval + undo[p]
    /\ undo' = [undo EXCEPT ![p] = 0]

Exit(p) ==
    /\ pc[p] = "detach"
    /\ Goto(p, "gone")
    /\ ApplyUndo(p)
    /\ UNCHANGED <<shm, overlapped>>

Killed(p) ==
    /\ pc[p] \notin {"semget", "gone"}
    /\ Goto(p, "gone")
    /\ ApplyUndo(p)
    /\ UNCHANGED <<shm, overlapped>>

Step(p) == Semget(p) \/ Setval(p) \/ Attach(p) \/ Lock(p)
           \/ Write(p) \/ Unlock(p) \/ Exit(p)

Next == \E p \in Procs : Step(p) \/ Killed(p)

Spec == Init /\ [][Next]_vars

-----------------------------------------------------------------------------
(* At most one process is between lock_semaphore and unlock_semaphore.      *)
(* create_semaphore's comment (the value is set when the semaphore is newly *)
(* created) promises it however the starts of the processes are spread.     *)
MutualExclusion == \A p, q \in Inside : p = q

(* It is so as long as processes start when nobody is inside.               *)
StaggeredExclusion == ~overlapped => MutualExclusion

(* From its sprintf to its unlock a process finds its own text in the       *)
(* segment: nobody else wrote while it slept.                               *)
TextIntact == ~overlapped => \A p \in Procs : pc[p] = "sleep" => shm = p

(* Whatever was killed where, and whatever SETVAL forgot: when nobody is    *)
(* inside, a process that calls lock_semaphore gets the lock.               *)
FreeWhenEmpty ==
    (Inside = {} /\ \E p \in Procs : pc[p] = "lock") => semval > 0

(* Until starts overlap, the processes implement one critical section.      *)
Section == INSTANCE CriticalSection WITH inside <- IF overlapped THEN {} ELSE Inside
ImplementsSection == Section!Spec
=============================================================================
