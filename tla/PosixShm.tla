------------------------------- MODULE PosixShm -------------------------------
(***************************************************************************)
(* src/C/posix_shm_init.c, posix_shm_worker.c and posix_shm_cleanup.c:     *)
(* one program makes a shared memory segment and a semaphore, workers      *)
(* find both by name and count in the segment under the semaphore, a third *)
(* program removes the names.  Names and objects are separate: an object   *)
(* lives on in the processes that opened it.                               *)
(*                                                                         *)
(* Any of them may be started at any moment, so old and new objects exist  *)
(* side by side, and a worker may find one of each.  A worker may be       *)
(* killed anywhere; a POSIX semaphore it holds is not given back.          *)
(***************************************************************************)
EXTENDS Integers, Sequences

CONSTANTS
    Workers,    \* the worker processes
    MaxRuns,    \* bound: how often worker programs are started
    MaxInit     \* bound: how often init is started (one init and one cleanup
                \* run at a time)

ASSUME ShmAssumption == MaxRuns \in Nat /\ MaxInit \in Nat

Unbound == 0

VARIABLES
    shmName,    \* the segment SHM_NAME is bound to
    semName,    \* the semaphore SEM_NAME is bound to
    segs,       \* every segment: is it sized and cleared, its count, and
                \* (history) the increments since it was cleared
    sems,       \* the value of every semaphore
    init,       \* where init is
    initSeg,    \* the segment it opened
    cleanup,    \* where cleanup is
    pc,         \* where each worker is
    sem, seg,   \* the objects each worker opened
    count,      \* the count each worker loaded
    runs, inits,\* programs started so far
    lost,       \* the semaphores a worker was killed with (history)
    torn        \* has one of the things happened that nothing prevents and
                \* that make segment and semaphore part (history): init and
                \* cleanup at once; the names changed between the two opens
                \* of a worker; init over a segment somebody is inside with

namesVars  == <<shmName, semName, segs, sems, init, initSeg, cleanup, inits>>
workerVars == <<pc, sem, seg, count, runs, lost>>
vars == <<namesVars, workerVars, torn>>

TypeOK == /\ shmName \in 0 .. Len(segs) /\ semName \in 0 .. Len(sems)
          /\ segs \in Seq([sized : BOOLEAN, cleared : BOOLEAN,
                           count : 0 .. MaxRuns, adds : 0 .. MaxRuns])
          /\ sems \in Seq({0, 1})
          /\ init \in {"off", "ftruncate", "clear", "sem_open"}
          /\ initSeg \in 0 .. Len(segs)
          /\ torn \in BOOLEAN
          /\ cleanup \in {"off", "sem_unlink"}
          /\ pc \in [Workers -> {"off", "sem_open", "shm_open", "sem_wait",
                                 "load", "store", "sem_post"}]
          /\ sem \in [Workers -> 0 .. Len(sems)]
          /\ seg \in [Workers -> 0 .. Len(segs)]
          /\ count \in [Workers -> 0 .. MaxRuns]
          /\ runs \in 0 .. MaxRuns /\ inits \in 0 .. MaxInit
          /\ lost \subseteq DOMAIN sems

Init == /\ shmName = Unbound /\ semName = Unbound
        /\ segs = <<>> /\ sems = <<>>
        /\ init = "off" /\ initSeg = 0 /\ cleanup = "off"
        /\ pc = [w \in Workers |-> "off"]
        /\ sem = [w \in Workers |-> 0] /\ seg = [w \in Workers |-> 0]
        /\ count = [w \in Workers |-> 0]
        /\ runs = 0 /\ inits = 0 /\ lost = {} /\ torn = FALSE

Inside == {w \in Workers : pc[w] \in {"load", "store", "sem_post"}}

Tears(condition) == torn' = (torn \/ condition)

-----------------------------------------------------------------------------
(* posix_shm_init.c *)

NewSeg == [sized |-> FALSE, cleared |-> FALSE, count |-> 0, adds |-> 0]

InitMakesBoth ==                \* mutant: the semaphore is made first
    /\ init = "off" /\ inits < MaxInit
    /\ inits' = inits + 1
    /\ IF shmName = Unbound THEN segs' = Append(segs, NewSeg) /\ shmName' = Len(segs')
                            ELSE UNCHANGED <<segs, shmName>>
    /\ IF semName = Unbound THEN sems' = Append(sems, 1) /\ semName' = Len(sems')
                            ELSE UNCHANGED <<sems, semName>>
    /\ init' = "ftruncate" /\ initSeg' = shmName'
    /\ Tears(cleanup # "off")
    /\ UNCHANGED <<cleanup, workerVars>>

(* shm_open(O_CREAT): a new segment has no size. *)
InitShmOpen ==
    /\ init = "off" /\ inits < MaxInit
    /\ inits' = inits + 1
    /\ IF shmName = Unbound THEN segs' = Append(segs, NewSeg) /\ shmName' = Len(segs')
                            ELSE UNCHANGED <<segs, shmName>>
    /\ init' = "ftruncate" /\ initSeg' = shmName'
    /\ Tears(cleanup # "off")
    /\ UNCHANGED <<semName, sems, cleanup, workerVars>>

InitTruncate ==
    /\ init = "ftruncate" /\ init' = "clear"
    /\ segs' = [segs EXCEPT ![initSeg].sized = TRUE]
    /\ UNCHANGED <<shmName, semName, sems, initSeg, cleanup, inits, workerVars, torn>>

(* count = 0 and an empty text, whether or not the segment is new, and       *)
(* without the semaphore.                                                    *)
InitClear ==
    /\ init = "clear" /\ init' = "sem_open"
    /\ segs' = [segs EXCEPT ![initSeg].cleared = TRUE, ![initSeg].count = 0,
                            ![initSeg].adds = 0]
    /\ Tears(\E w \in Inside : seg[w] = initSeg)
    /\ UNCHANGED <<shmName, semName, sems, initSeg, cleanup, inits, workerVars>>

InitSemOpenResets ==            \* mutant: a semaphore that is there is set to 1 too
    /\ init = "sem_open" /\ init' = "off" /\ initSeg' = 0
    /\ IF semName = Unbound THEN sems' = Append(sems, 1) /\ semName' = Len(sems')
                            ELSE sems' = [sems EXCEPT ![semName] = 1] /\ UNCHANGED semName
    /\ UNCHANGED <<shmName, segs, cleanup, inits, workerVars, torn>>

(* sem_open(O_CREAT, 1): the value is for a new semaphore only. *)
InitSemOpen ==
    /\ init = "sem_open" /\ init' = "off" /\ initSeg' = 0
    /\ IF semName = Unbound THEN sems' = Append(sems, 1) /\ semName' = Len(sems')
                            ELSE UNCHANGED <<sems, semName>>
    /\ UNCHANGED <<shmName, segs, cleanup, inits, workerVars, torn>>

-----------------------------------------------------------------------------
(* posix_shm_cleanup.c *)

(* The results of the two unlinks are not looked at. *)
CleanupShm ==
    /\ cleanup = "off" /\ cleanup' = "sem_unlink"
    /\ shmName' = Unbound
    /\ Tears(init # "off")
    /\ UNCHANGED <<semName, segs, sems, init, initSeg, inits, workerVars>>

CleanupSem ==
    /\ cleanup = "sem_unlink" /\ cleanup' = "off"
    /\ semName' = Unbound
    /\ UNCHANGED <<shmName, segs, sems, init, initSeg, inits, workerVars, torn>>

-----------------------------------------------------------------------------
(* posix_shm_worker.c *)

Goto(w, l) == pc' = [pc EXCEPT ![w] = l]

(* The process is gone, and what it had open. *)
Ends(w) == /\ Goto(w, "off")
           /\ sem' = [sem EXCEPT ![w] = 0]
           /\ seg' = [seg EXCEPT ![w] = 0]
           /\ count' = [count EXCEPT ![w] = 0]

Start(w) ==
    /\ pc[w] = "off" /\ runs < MaxRuns
    /\ runs' = runs + 1
    /\ Goto(w, "sem_open")
    /\ UNCHANGED <<namesVars, sem, seg, count, lost, torn>>

(* Without the name the worker exits. *)
SemOpen(w) ==
    /\ pc[w] = "sem_open"
    /\ \/ /\ semName = Unbound
          /\ Ends(w)
       \/ /\ semName # Unbound
          /\ sem' = [sem EXCEPT ![w] = semName]
          /\ Goto(w, "shm_open")
          /\ UNCHANGED <<seg, count>>
    /\ UNCHANGED <<namesVars, runs, lost, torn>>

ShmOpen(w) ==
    /\ pc[w] = "shm_open"
    /\ \/ /\ shmName = Unbound
          /\ Ends(w)
          /\ UNCHANGED torn
       \/ /\ shmName # Unbound
          /\ seg' = [seg EXCEPT ![w] = shmName]
          /\ Goto(w, "sem_wait")
          /\ Tears(sem[w] # semName)
          /\ UNCHANGED <<sem, count>>
    /\ UNCHANGED <<namesVars, runs, lost>>

SemWaitNoDecrement(w) ==        \* mutant: the semaphore is only looked at
    /\ pc[w] = "sem_wait" /\ sems[sem[w]] > 0
    /\ Goto(w, "load")
    /\ UNCHANGED <<namesVars, sem, seg, count, runs, lost, torn>>

SemWait(w) ==
    /\ pc[w] = "sem_wait" /\ sems[sem[w]] > 0
    /\ sems' = [sems EXCEPT ![sem[w]] = @ - 1]
    /\ Goto(w, "load")
    /\ UNCHANGED <<shmName, semName, segs, init, initSeg, cleanup, inits, sem, seg,
                   count, runs, lost, torn>>

(* The text and count++, which is a load and a store. *)
Load(w) ==
    /\ pc[w] = "load" /\ segs[seg[w]].sized
    /\ count' = [count EXCEPT ![w] = segs[seg[w]].count]
    /\ Goto(w, "store")
    /\ UNCHANGED <<namesVars, sem, seg, runs, lost, torn>>

Store(w) ==
    /\ pc[w] = "store"
    /\ segs' = [segs EXCEPT ![seg[w]].count = count[w] + 1, ![seg[w]].adds = @ + 1]
    /\ Goto(w, "sem_post")
    /\ UNCHANGED <<shmName, semName, sems, init, initSeg, cleanup, inits, sem, seg,
                   count, runs, lost, torn>>

SemPost(w) ==
    /\ pc[w] = "sem_post"
    /\ sems' = [sems EXCEPT ![sem[w]] = @ + 1]
    /\ Ends(w)
    /\ UNCHANGED <<shmName, semName, segs, init, initSeg, cleanup, inits, runs, lost, torn>>

(* A worker is killed, or dies of a bus error: the segment has no size. *)
Kill(w) ==
    /\ pc[w] # "off" /\ Ends(w)
    /\ lost' = IF w \in Inside THEN lost \cup {sem[w]} ELSE lost
    /\ UNCHANGED <<namesVars, runs, torn>>

Next == \/ InitShmOpen \/ InitTruncate \/ InitClear \/ InitSemOpen
        \/ CleanupShm \/ CleanupSem
        \/ \E w \in Workers : \/ Start(w) \/ SemOpen(w) \/ ShmOpen(w) \/ SemWait(w)
                              \/ Load(w) \/ Store(w) \/ SemPost(w) \/ Kill(w)

Spec == Init /\ [][Next]_vars

-----------------------------------------------------------------------------
(* A worker that found both names may use the segment, also while cleanup    *)
(* and init make them anew: init sizes and clears a segment before it makes  *)
(* the semaphore, and cleanup takes the segment's name away first.           *)
ReadyWhenFound ==
    ~torn => \A w \in Workers : pc[w] \in {"sem_wait", "load", "store", "sem_post"} =>
                segs[seg[w]].sized /\ segs[seg[w]].cleared

(* No increment is lost, though workers of an earlier init, with its segment *)
(* and its semaphore, may be at work beside those of a later one.            *)
CountExact ==
    ~torn => \A i \in DOMAIN segs : segs[i].count = segs[i].adds

(* A semaphore is at 0 exactly while a worker is inside with it or after one *)
(* was killed inside with it, at 1 otherwise: nothing else, and no init run   *)
(* again, takes it or gives it back.                                          *)
ZeroOnlyInsideOrLost ==
    \A s \in DOMAIN sems :
        sems[s] = IF s \in lost \/ \E w \in Inside : sem[w] = s THEN 0 ELSE 1

(* Each semaphore guards a critical section, in whatever order and however   *)
(* often init, cleanup and workers run, several of them at once.             *)
Sections == INSTANCE CriticalSections
            WITH Procs <- Workers, Locks <- 1 .. MaxInit,
                 inside <- [s \in 1 .. MaxInit |-> {w \in Inside : sem[w] = s}]
ImplementsSections == Sections!Spec
=============================================================================
