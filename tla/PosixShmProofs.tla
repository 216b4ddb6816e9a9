---------------------------- MODULE PosixShmProofs ----------------------------
(***************************************************************************)
(* Proofs about PosixShm, for any set of workers and any number of starts  *)
(* of the three programs, which may all run at once: each semaphore guards *)
(* a critical section, and unless something has torn the names apart, who  *)
(* found both may use the segment, and no increment is lost.               *)
(*                                                                         *)
(* The heart of the second argument is that segments and semaphores are    *)
(* made in pairs: without the torn cases the k-th semaphore is that of the *)
(* k-th segment, and a worker that has opened both names has such a pair,  *)
(* though it need not be the one the names are bound to now.               *)
(***************************************************************************)
EXTENDS PosixShm, SequenceTheorems, TLAPS

Segment == [sized : BOOLEAN, cleared : BOOLEAN, count : Nat, adds : Nat]

Place == {"off", "sem_open", "shm_open", "sem_wait", "load", "store", "sem_post"}

(* The types the argument needs; the bounds of the counts are not among them. *)
Typed == /\ segs \in Seq(Segment)
         /\ sems \in Seq({0, 1})
         /\ shmName \in 0 .. Len(segs) /\ semName \in 0 .. Len(sems)
         /\ init \in {"off", "ftruncate", "clear", "sem_open"}
         /\ initSeg \in 0 .. Len(segs)
         /\ cleanup \in {"off", "sem_unlink"}
         /\ pc \in [Workers -> Place]
         /\ sem \in [Workers -> 0 .. Len(sems)]
         /\ seg \in [Workers -> 0 .. Len(segs)]
         /\ count \in [Workers -> Nat]
         /\ lost \subseteq 1 .. Len(sems)
         /\ torn \in BOOLEAN

(* Every init makes at most one semaphore. *)
Counts == /\ inits \in 0 .. MaxInit
          /\ Len(sems) <= inits
          /\ init # "off" => Len(sems) < inits

IsInside(w) == pc[w] \in {"load", "store", "sem_post"}
HasBoth(w)  == pc[w] = "sem_wait" \/ IsInside(w)

(* What is worked with was opened. *)
Opened == /\ init # "off" => initSeg # 0
          /\ \A w \in Workers : /\ pc[w] = "shm_open" \/ HasBoth(w) => sem[w] # 0
                                /\ HasBoth(w) => seg[w] # 0

(* A worker inside is alone with its semaphore, which is not one of the lost. *)
Alone == /\ \A v, w \in Workers : IsInside(v) /\ IsInside(w) /\ sem[v] = sem[w] => v = w
         /\ \A w \in Workers : IsInside(w) => sem[w] \notin lost
         /\ \A s \in 1 .. Len(sems) :
               sems[s] = IF s \in lost \/ \E w \in Workers : IsInside(w) /\ sem[w] = s
                         THEN 0 ELSE 1

(* Segments and semaphores come in pairs, but for the segment of an init     *)
(* that has not made its semaphore yet, and the names are those of the last. *)
Paired ==
    /\ Len(segs) = Len(sems) + (IF init # "off" /\ semName = 0 THEN 1 ELSE 0)
    /\ shmName \in {0, Len(segs)} /\ semName \in {0, Len(sems)}
    /\ init = "off" /\ cleanup = "off" => (shmName = 0 <=> semName = 0)
    /\ init # "off" => cleanup = "off" /\ initSeg = shmName
    /\ cleanup # "off" => shmName = 0

(* A segment that has its semaphore is ready. *)
Ready ==
    \A i \in 1 .. Len(segs) :
        /\ i <= Len(sems) \/ init = "sem_open" => segs[i].sized /\ segs[i].cleared
        /\ i = initSeg /\ init = "clear" => segs[i].sized

(* Who has opened both names has a pair. *)
Same == \A w \in Workers : HasBoth(w) => seg[w] = sem[w]

(* Between load and store nobody changes the count. *)
Counted == /\ \A i \in 1 .. Len(segs) : segs[i].count = segs[i].adds
           /\ \A w \in Workers : pc[w] = "store" => count[w] = segs[seg[w]].count

Whole == Paired /\ Ready /\ Same /\ Counted

IInv == Typed /\ Counts /\ Opened /\ Alone /\ (~torn => Whole)
-----------------------------------------------------------------------------
LEMMA InitInv == Init => IInv
<1> SUFFICES ASSUME Init PROVE IInv
    OBVIOUS
<1>1. segs = <<>> /\ sems = <<>> /\ shmName = 0 /\ semName = 0 /\ lost = {}
      /\ Len(segs) = 0 /\ Len(sems) = 0
      /\ 1 .. Len(segs) = {} /\ 1 .. Len(sems) = {}
  BY EmptySeq DEF Init, Unbound
<1>2. init = "off" /\ initSeg = 0 /\ cleanup = "off" /\ torn = FALSE /\ inits = 0
      /\ \A w \in Workers : pc[w] = "off"
  BY DEF Init
<1>3. Typed
  <2>1. <<>> \in Seq(Segment) /\ <<>> \in Seq({0, 1})
    BY EmptySeq
  <2>2. pc \in [Workers -> Place] /\ sem \in [Workers -> {0}] /\ seg \in [Workers -> {0}]
    BY DEF Init, Place
  <2>3. count \in [Workers -> Nat] /\ 0 .. Len(segs) = {0} /\ 0 .. Len(sems) = {0}
    BY <1>1 DEF Init
  <2> QED
    BY <1>1, <1>2, <2>1, <2>2, <2>3 DEF Typed
<1>4. Counts
  BY <1>1, <1>2, ShmAssumption DEF Counts
<1>5. Opened /\ Alone /\ Whole
  BY <1>1, <1>2 DEF Opened, Alone, Whole, Paired, Ready, Same, Counted, HasBoth, IsInside
<1> QED
  BY <1>3, <1>4, <1>5 DEF IInv

(* What the steps of init and of a worker's store make of a segment. *)
LEMMA Changed ==
    ASSUME Typed, NEW i \in 1 .. Len(segs), NEW e \in Segment,
           segs' = [segs EXCEPT ![i] = e]
    PROVE  /\ segs' \in Seq(Segment)
           /\ Len(segs') = Len(segs)
           /\ segs'[i] = e
           /\ \A j \in 1 .. Len(segs) : j # i => segs'[j] = segs[j]
BY ExceptSeq DEF Typed

LEMMA Made ==
    ASSUME Typed, segs' = Append(segs, NewSeg)
    PROVE  /\ segs' \in Seq(Segment)
           /\ Len(segs') = Len(segs) + 1
           /\ segs'[Len(segs) + 1] = NewSeg
           /\ \A j \in 1 .. Len(segs) : segs'[j] = segs[j]
<1>1. NewSeg \in Segment
  BY DEF NewSeg, Segment
<1> QED
  BY <1>1, AppendProperties DEF Typed

LEMMA SemMade ==
    ASSUME Typed, sems' = Append(sems, 1)
    PROVE  /\ sems' \in Seq({0, 1})
           /\ Len(sems') = Len(sems) + 1
           /\ sems'[Len(sems) + 1] = 1
           /\ \A j \in 1 .. Len(sems) : sems'[j] = sems[j]
BY AppendProperties DEF Typed

LEMMA SemChanged ==
    ASSUME Typed, NEW i \in 1 .. Len(sems), NEW v \in {0, 1},
           sems' = [sems EXCEPT ![i] = v]
    PROVE  /\ sems' \in Seq({0, 1})
           /\ Len(sems') = Len(sems)
           /\ sems'[i] = v
           /\ \A j \in 1 .. Len(sems) : j # i => sems'[j] = sems[j]
BY ExceptSeq DEF Typed

LEMMA Lengths == Typed => Len(segs) \in Nat /\ Len(sems) \in Nat
BY LenProperties DEF Typed
-----------------------------------------------------------------------------
(* The steps of init and of cleanup. *)

LEMMA InitShmOpenInv == IInv /\ InitShmOpen => IInv'
<1> SUFFICES ASSUME IInv, InitShmOpen PROVE IInv'
    OBVIOUS
<1> USE DEF IInv
<1>1. /\ UNCHANGED <<semName, sems, cleanup, pc, sem, seg, count, lost>>
      /\ init = "off" /\ init' = "ftruncate" /\ initSeg' = shmName'
      /\ inits < MaxInit /\ inits' = inits + 1
      /\ torn' = (torn \/ cleanup # "off")
  BY DEF InitShmOpen, Tears, workerVars
<1>2. /\ segs' \in Seq(Segment) /\ Len(segs') >= Len(segs)
      /\ Len(segs') = Len(segs) + (IF shmName = 0 THEN 1 ELSE 0)
      /\ \A j \in 1 .. Len(segs) : segs'[j] = segs[j]
      /\ \A j \in 1 .. Len(segs') : j > Len(segs) => segs'[j].count = segs'[j].adds
      /\ shmName' \in 1 .. Len(segs')
      /\ shmName' = IF shmName = 0 THEN Len(segs') ELSE shmName
  <2>1. CASE shmName = Unbound
    <3>1. segs' = Append(segs, NewSeg) /\ shmName' = Len(segs')
      BY <2>1 DEF InitShmOpen
    <3> QED
      BY <2>1, <3>1, Made, Lengths DEF NewSeg, Unbound
  <2>2. CASE shmName # Unbound
    BY <2>2, Lengths DEF InitShmOpen, Typed, Unbound
  <2> QED
    BY <2>1, <2>2
<1>3. Typed'
  <2>1. 0 .. Len(segs) \subseteq 0 .. Len(segs')
    BY <1>2, Lengths
  <2>2. /\ shmName' \in 0 .. Len(segs')
        /\ seg \in [Workers -> 0 .. Len(segs')]
    BY <1>2, <2>1 DEF Typed
  <2>3. torn' \in BOOLEAN
    BY <1>1
  <2> QED
    BY <1>1, <1>2, <2>2, <2>3 DEF Typed
<1>4. Counts'
  BY <1>1, Lengths, ShmAssumption DEF Counts
<1>5. Opened' /\ Alone'
  BY <1>1, <1>2 DEF Opened, Alone, HasBoth, IsInside
<1>6. ASSUME ~torn' PROVE Whole'
  <2>0. Whole /\ cleanup = "off"
    BY <1>1, <1>6, Zenon
  <2>1. Whole /\ cleanup = "off" /\ (shmName = 0 <=> semName = 0) /\ Len(segs) = Len(sems)
    BY <1>1, <2>0, Lengths DEF Whole, Paired
  <2>2. Paired'
    BY <1>1, <1>2, <2>1, Lengths DEF Whole, Paired
  <2>3. Ready'
    BY <1>1, <1>2, <2>1, Lengths DEF Whole, Ready
  <2>4. Same'
    BY <1>1, <2>1 DEF Whole, Same, HasBoth, IsInside
  <2>5. Counted'
    <3>1. \A w \in Workers : pc[w] = "store" => seg[w] \in 1 .. Len(segs)
      BY Lengths DEF Typed, Opened, HasBoth, IsInside
    <3> QED
      BY <1>1, <1>2, <2>1, <3>1, Lengths DEF Whole, Counted
  <2> QED
    BY <2>2, <2>3, <2>4, <2>5 DEF Whole
<1> QED
  BY <1>3, <1>4, <1>5, <1>6

LEMMA InitWritesInv == IInv /\ (InitTruncate \/ InitClear) => IInv'
<1> SUFFICES ASSUME IInv, InitTruncate \/ InitClear PROVE IInv'
    OBVIOUS
<1> USE DEF IInv
<1>1. /\ UNCHANGED <<shmName, semName, sems, initSeg, cleanup, inits, pc, sem, seg, count, lost>>
      /\ init # "off" /\ init' # "off" /\ initSeg \in 1 .. Len(segs)
      /\ init' \in {"clear", "sem_open"}
      /\ torn' = torn \/ torn' = (torn \/ \E w \in Inside : seg[w] = initSeg)
  BY Lengths DEF InitTruncate, InitClear, Tears, Opened, Typed, workerVars
<1>2. PICK e \in Segment :
         /\ segs' = [segs EXCEPT ![initSeg] = e]
         /\ segs[initSeg].count = segs[initSeg].adds => e.count = e.adds
         /\ segs[initSeg].sized => e.sized
         /\ segs[initSeg].cleared => e.cleared
         /\ init = "ftruncate" => /\ init' = "clear" /\ e.sized
                                  /\ e.count = segs[initSeg].count
         /\ init # "ftruncate" => /\ init = "clear" /\ init' = "sem_open" /\ e.cleared
                                  /\ torn' = (torn \/ \E w \in Inside : seg[w] = initSeg)
  <2>1. segs[initSeg] \in Segment
    BY <1>1, ElementOfSeq DEF Typed
  <2>2. CASE InitTruncate
    <3> DEFINE e == [segs[initSeg] EXCEPT !.sized = TRUE]
    <3>1. /\ e \in Segment /\ e.sized /\ e.cleared = segs[initSeg].cleared
          /\ e.count = segs[initSeg].count /\ e.adds = segs[initSeg].adds
      BY <2>1 DEF Segment
    <3> QED
      BY <2>2, <3>1 DEF InitTruncate
  <2>3. CASE InitClear
    <3> DEFINE e == [segs[initSeg] EXCEPT !.cleared = TRUE, !.count = 0, !.adds = 0]
    <3>1. segs' = [segs EXCEPT ![initSeg] = e]
      BY <1>1, <2>3 DEF InitClear, Typed
    <3>2. e \in Segment /\ e.sized = segs[initSeg].sized /\ e.cleared /\ e.count = e.adds
      BY <2>1 DEF Segment
    <3> QED
      BY <2>3, <3>1, <3>2 DEF InitClear, Tears
  <2> QED
    BY <2>2, <2>3
<1>3. /\ segs' \in Seq(Segment) /\ Len(segs') = Len(segs) /\ segs'[initSeg] = e
      /\ \A j \in 1 .. Len(segs) : j # initSeg => segs'[j] = segs[j]
  BY <1>1, <1>2, Changed
<1>4. Typed' /\ Counts'
  BY <1>1, <1>3 DEF Typed, Counts
<1>5. Opened' /\ Alone'
  BY <1>1 DEF Opened, Alone, HasBoth, IsInside
<1>6. ASSUME ~torn' PROVE Whole'
  <2>0. ~torn
    BY <1>1, <1>6 DEF Typed
  <2>1. Whole
    BY <2>0
  <2>2. Paired' /\ Same'
    BY <1>1, <1>3, <2>1 DEF Whole, Paired, Same, HasBoth, IsInside
  <2>3. Ready'
    <3>1. init = "clear" => \A j \in 1 .. Len(segs) : j # initSeg => j <= Len(sems)
      BY <1>1, <2>1, Lengths DEF Whole, Paired
    <3> QED
      BY <1>1, <1>2, <1>3, <2>1, <3>1 DEF Whole, Ready
  <2>4. Counted'
    <3>1. \A w \in Workers : pc[w] = "store" => seg[w] \in 1 .. Len(segs) /\ w \in Inside
      BY Lengths DEF Typed, Opened, HasBoth, IsInside, Inside
    <3>2. init # "ftruncate" => \A w \in Workers : pc[w] = "store" => seg[w] # initSeg
      BY <1>2, <1>6, <3>1
    <3> QED
      BY <1>1, <1>2, <1>3, <2>1, <3>1, <3>2 DEF Whole, Counted
  <2> QED
    BY <2>1, <2>2, <2>3, <2>4 DEF Whole
<1> QED
  BY <1>4, <1>5, <1>6

LEMMA InitSemOpenInv == IInv /\ InitSemOpen => IInv'
<1> SUFFICES ASSUME IInv, InitSemOpen PROVE IInv'
    OBVIOUS
<1> USE DEF IInv
<1>1. /\ UNCHANGED <<shmName, segs, cleanup, inits, pc, sem, seg, count, lost, torn>>
      /\ init = "sem_open" /\ init' = "off" /\ initSeg' = 0
  BY DEF InitSemOpen, workerVars
<1>2. /\ sems' \in Seq({0, 1}) /\ Len(sems') >= Len(sems)
      /\ Len(sems') = Len(sems) + (IF semName = 0 THEN 1 ELSE 0)
      /\ \A s \in 1 .. Len(sems) : sems'[s] = sems[s]
      /\ \A s \in 1 .. Len(sems') : s > Len(sems) => sems'[s] = 1
      /\ semName' \in 0 .. Len(sems')
      /\ semName' = IF semName = 0 THEN Len(sems') ELSE semName
  <2>1. CASE semName = Unbound
    <3>1. sems' = Append(sems, 1) /\ semName' = Len(sems')
      BY <2>1 DEF InitSemOpen
    <3> QED
      BY <2>1, <3>1, SemMade, Lengths DEF Unbound
  <2>2. CASE semName # Unbound
    BY <2>2, Lengths DEF InitSemOpen, Typed, Unbound
  <2> QED
    BY <2>1, <2>2
<1>3. Typed'
  <2>1. 0 .. Len(sems) \subseteq 0 .. Len(sems') /\ 1 .. Len(sems) \subseteq 1 .. Len(sems')
        /\ 0 \in 0 .. Len(segs)
    BY <1>2, Lengths
  <2> QED
    BY <1>1, <1>2, <2>1 DEF Typed
<1>4. Counts'
  BY <1>1, <1>2, Lengths DEF Counts
<1>5. Opened'
  BY <1>1 DEF Opened, HasBoth, IsInside
<1>6. Alone'
  <2>1. \A s \in 1 .. Len(sems') : s > Len(sems) =>
            s \notin lost /\ \A w \in Workers : sem[w] # s
    BY Lengths DEF Typed
  <2>2. \A s \in 1 .. Len(sems') : s > Len(sems) \/ s \in 1 .. Len(sems)
    BY <1>2, Lengths
  <2> QED
    BY <1>1, <1>2, <2>1, <2>2 DEF Alone, IsInside
<1>7. ASSUME ~torn' PROVE Whole'
  <2>1. Whole
    BY <1>1, <1>7
  <2>2. Paired' /\ Len(segs) = Len(sems')
    BY <1>1, <1>2, <2>1, Lengths DEF Whole, Paired, Opened
  <2>3. Ready' /\ Same' /\ Counted'
    BY <1>1, <2>1, <2>2 DEF Whole, Ready, Same, Counted, HasBoth, IsInside
  <2> QED
    BY <2>2, <2>3 DEF Whole
<1> QED
  BY <1>3, <1>4, <1>5, <1>6, <1>7

LEMMA CleanupInv == IInv /\ (CleanupShm \/ CleanupSem) => IInv'
<1> SUFFICES ASSUME IInv, CleanupShm \/ CleanupSem PROVE IInv'
    OBVIOUS
<1> USE DEF IInv
<1>1. UNCHANGED <<segs, sems, init, initSeg, inits, pc, sem, seg, count, lost>>
  BY DEF CleanupShm, CleanupSem, workerVars
<1>2. Typed' /\ Counts' /\ Opened' /\ Alone'
  <2>1. Typed'
    <3>1. torn' \in BOOLEAN
      BY DEF CleanupShm, CleanupSem, Tears, Typed
    <3>2. shmName' \in 0 .. Len(segs) /\ semName' \in 0 .. Len(sems)
          /\ cleanup' \in {"off", "sem_unlink"}
      BY Lengths DEF CleanupShm, CleanupSem, Typed, Unbound
    <3> QED
      BY <1>1, <3>1, <3>2 DEF Typed
  <2> QED
    BY <1>1, <2>1 DEF Counts, Opened, Alone, HasBoth, IsInside
<1>3. ASSUME ~torn' PROVE Whole'
  <2>1. Whole
    BY <1>3 DEF CleanupShm, CleanupSem, Tears
  <2>2. Paired'
    <3>1. CASE CleanupShm
      BY <1>1, <1>3, <2>1, <3>1, Lengths DEF CleanupShm, Tears, Whole, Paired, Unbound
    <3>2. CASE CleanupSem
      BY <1>1, <2>1, <3>2, Lengths DEF CleanupSem, Whole, Paired, Unbound
    <3> QED
      BY <3>1, <3>2
  <2>3. Ready' /\ Same' /\ Counted'
    BY <1>1, <2>1 DEF Whole, Ready, Same, Counted, HasBoth, IsInside
  <2> QED
    BY <2>2, <2>3 DEF Whole
<1> QED
  BY <1>2, <1>3
-----------------------------------------------------------------------------
(* The steps of a worker. *)

(* A worker that is gone or has just come has nothing. *)
LEMMA AwayInv ==
    ASSUME NEW w \in Workers, NEW l \in {"off", "sem_open"}, IInv, ~IsInside(w), Goto(w, l),
           UNCHANGED <<namesVars, lost, torn>>,
           sem' \in [Workers -> 0 .. Len(sems)], seg' \in [Workers -> 0 .. Len(segs)],
           count' \in [Workers -> Nat],
           \A v \in Workers : v # w => sem'[v] = sem[v] /\ seg'[v] = seg[v]
                                        /\ count'[v] = count[v]
    PROVE  IInv'
<1> USE DEF IInv
<1>1. pc \in [Workers -> Place] /\ pc' = [pc EXCEPT ![w] = l] /\ l \in Place
  BY DEF Typed, Goto, Place
<1>2. \A v \in Workers : /\ IsInside(v)' <=> IsInside(v)
                         /\ HasBoth(v)' => v # w /\ HasBoth(v)
                         /\ pc'[v] \in {"shm_open", "store"} => v # w /\ pc'[v] = pc[v]
                         /\ IsInside(v) => v # w /\ sem'[v] = sem[v]
  BY <1>1 DEF HasBoth, IsInside
<1>3. Typed' /\ Counts'
  BY <1>1 DEF Typed, Counts, namesVars
<1>4. Opened'
  BY <1>2 DEF Opened, namesVars
<1>5. Alone'
  <2>1. UNCHANGED <<sems, lost>>
    BY DEF namesVars
  <2>2. \A s : (\E v \in Workers : IsInside(v)' /\ sem'[v] = s)
                 <=> \E v \in Workers : IsInside(v) /\ sem[v] = s
    BY <1>2
  <2>3. \A v \in Workers : IsInside(v)' => IsInside(v) /\ sem'[v] = sem[v]
    BY <1>2
  <2> QED
    <3>1. ASSUME NEW v \in Workers, NEW u \in Workers,
                 IsInside(v)', IsInside(u)', sem'[v] = sem'[u]
          PROVE  v = u
      <4>1. IsInside(v) /\ IsInside(u) /\ sem[v] = sem[u]
        BY <2>3, <3>1
      <4> QED
        BY <4>1 DEF Alone
    <3>2. \A v \in Workers : IsInside(v)' => sem'[v] \notin lost
      BY <2>3 DEF Alone
    <3>3. \A s \in 1 .. Len(sems) :
             sems[s] = IF s \in lost \/ \E v \in Workers : IsInside(v)' /\ sem'[v] = s
                       THEN 0 ELSE 1
      BY <2>2 DEF Alone
    <3> QED
      BY <2>1, <3>1, <3>2, <3>3 DEF Alone
<1>6. ASSUME ~torn' PROVE Whole'
  <2>1. Paired' /\ Ready'
    BY <1>6 DEF Whole, Paired, Ready, namesVars
  <2>2. Same'
    BY <1>2, <1>6 DEF Whole, Same, namesVars
  <2>3. Counted'
    BY <1>2, <1>6 DEF Whole, Counted, namesVars
  <2> QED
    BY <2>1, <2>2, <2>3 DEF Whole
<1> QED
  BY <1>3, <1>4, <1>5, <1>6

LEMMA EndsTypes ==
    ASSUME Typed, NEW w \in Workers, Ends(w)
    PROVE  /\ sem' \in [Workers -> 0 .. Len(sems)] /\ seg' \in [Workers -> 0 .. Len(segs)]
           /\ count' \in [Workers -> Nat]
           /\ \A v \in Workers : v # w => sem'[v] = sem[v] /\ seg'[v] = seg[v]
                                        /\ count'[v] = count[v]
           /\ pc' = [pc EXCEPT ![w] = "off"] /\ pc' \in [Workers -> Place]
<1>1. 0 \in 0 .. Len(sems) /\ 0 \in 0 .. Len(segs) /\ "off" \in Place
  BY Lengths DEF Place
<1> QED
  BY <1>1 DEF Ends, Goto, Typed

LEMMA StartInv == ASSUME NEW w \in Workers, IInv, Start(w) PROVE IInv'
<1>1. /\ Goto(w, "sem_open") /\ ~IsInside(w)
      /\ UNCHANGED <<namesVars, lost, torn>> /\ UNCHANGED <<sem, seg, count>>
  BY DEF Start, IsInside
<1> QED
  BY <1>1, AwayInv DEF IInv, Typed

(* A worker that opens a name, or ends. *)
LEMMA SemOpenInv == ASSUME NEW w \in Workers, IInv, SemOpen(w) PROVE IInv'
<1> USE DEF IInv
<1>1. UNCHANGED <<namesVars, lost, torn>> /\ pc[w] = "sem_open" /\ ~IsInside(w)
  BY DEF SemOpen, IsInside
<1>2. CASE semName = Unbound
  BY <1>1, <1>2, EndsTypes, AwayInv DEF SemOpen, Ends
<1>3. CASE semName # Unbound
  <2>1. /\ pc' = [pc EXCEPT ![w] = "shm_open"] /\ sem' = [sem EXCEPT ![w] = semName]
        /\ UNCHANGED <<seg, count>> /\ semName # 0
    BY <1>3 DEF SemOpen, Goto, Unbound
  <2>2. \A v \in Workers : /\ IsInside(v)' <=> IsInside(v)
                           /\ HasBoth(v)' <=> HasBoth(v)
                           /\ pc'[v] = "shm_open" => v = w \/ pc[v] = "shm_open"
                           /\ pc'[v] = "store" => pc[v] = "store"
                           /\ HasBoth(v) => v # w
                           /\ IsInside(v) => v # w
                           /\ sem'[v] = IF v = w THEN semName ELSE sem[v]
    BY <1>1, <2>1 DEF Typed, HasBoth, IsInside
  <2>3. Typed' /\ Counts'
    BY <1>1, <2>1 DEF Typed, Counts, Place, namesVars
  <2>4. Opened'
    BY <1>1, <2>1, <2>2 DEF Opened, namesVars
  <2>5. Alone'
    BY <1>1, <2>2 DEF Alone, namesVars
  <2>6. ASSUME ~torn' PROVE Whole'
    <3>1. Paired' /\ Ready'
      BY <1>1, <2>6 DEF Whole, Paired, Ready, namesVars
    <3>2. Same' /\ Counted'
      BY <1>1, <2>1, <2>2, <2>6 DEF Whole, Same, Counted, namesVars
    <3> QED
      BY <3>1, <3>2 DEF Whole
  <2> QED
    BY <2>3, <2>4, <2>5, <2>6
<1> QED
  BY <1>2, <1>3

LEMMA ShmOpenInv == ASSUME NEW w \in Workers, IInv, ShmOpen(w) PROVE IInv'
<1> USE DEF IInv
<1>1. UNCHANGED <<namesVars, lost>> /\ pc[w] = "shm_open" /\ ~IsInside(w)
  BY DEF ShmOpen, IsInside
<1>2. CASE shmName = Unbound
  <2>1. Ends(w) /\ UNCHANGED torn
    BY <1>2 DEF ShmOpen
  <2> QED
    BY <1>1, <2>1, EndsTypes, AwayInv DEF Ends
<1>3. CASE shmName # Unbound
  <2>1. /\ pc' = [pc EXCEPT ![w] = "sem_wait"] /\ seg' = [seg EXCEPT ![w] = shmName]
        /\ UNCHANGED <<sem, count>> /\ shmName # 0
        /\ torn' = (torn \/ sem[w] # semName)
    BY <1>3 DEF ShmOpen, Goto, Tears, Unbound
  <2>2. \A v \in Workers : /\ IsInside(v)' <=> IsInside(v)
                           /\ HasBoth(v)' <=> v = w \/ HasBoth(v)
                           /\ pc'[v] = "shm_open" => pc[v] = "shm_open"
                           /\ pc'[v] = "store" => pc[v] = "store" /\ v # w
                           /\ seg'[v] = IF v = w THEN shmName ELSE seg[v]
    BY <1>1, <2>1 DEF Typed, HasBoth, IsInside
  <2>3. Typed' /\ Counts'
    BY <1>1, <2>1 DEF Typed, Counts, Place, namesVars
  <2>4. Opened'
    BY <1>1, <2>1, <2>2 DEF Opened, namesVars
  <2>5. Alone'
    BY <1>1, <2>1, <2>2 DEF Alone, namesVars
  <2>6. ASSUME ~torn' PROVE Whole'
    <3>0. Whole /\ sem[w] = semName
      BY <2>1, <2>6, Zenon
    <3>1. Paired' /\ Ready' /\ Counted'
      BY <1>1, <2>1, <2>2, <3>0 DEF Whole, Paired, Ready, Counted, namesVars
    <3>2. shmName = sem[w]
      <4>1. sem[w] # 0
        BY <1>1 DEF Opened
      <4> QED
        BY <2>1, <3>0, <4>1, Lengths DEF Whole, Paired
    <3>3. Same'
      BY <2>1, <2>2, <3>0, <3>2 DEF Whole, Same
    <3> QED
      BY <3>1, <3>3 DEF Whole
  <2> QED
    BY <2>3, <2>4, <2>5, <2>6
<1> QED
  BY <1>2, <1>3

(* What a worker that has opened both names has. *)
LEMMA HasBothFacts ==
    ASSUME NEW w \in Workers, IInv, HasBoth(w)
    PROVE  /\ sem[w] \in 1 .. Len(sems) /\ seg[w] \in 1 .. Len(segs)
           /\ ~torn => segs[seg[w]].sized /\ segs[seg[w]].cleared
<1> USE DEF IInv
<1>1. sem[w] \in 1 .. Len(sems) /\ seg[w] \in 1 .. Len(segs)
  BY Lengths DEF Opened, Typed
<1>2. ASSUME ~torn PROVE segs[seg[w]].sized /\ segs[seg[w]].cleared
  <2>1. seg[w] <= Len(sems)
    BY <1>1, <1>2, Lengths DEF Whole, Same
  <2> QED
    BY <1>1, <1>2, <2>1 DEF Whole, Ready
<1> QED
  BY <1>1, <1>2

LEMMA SemWaitInv == ASSUME NEW w \in Workers, IInv, SemWait(w) PROVE IInv'
<1> USE DEF IInv
<1>1. HasBoth(w) /\ sem[w] \in 1 .. Len(sems)
  BY HasBothFacts DEF SemWait, HasBoth
<1>2. sems[sem[w]] = 1 /\ sem[w] \notin lost
  BY <1>1, ElementOfSeq DEF SemWait, Typed, Alone
<1>3. \A v \in Workers : IsInside(v) => sem[v] # sem[w]
  BY <1>1, <1>2 DEF Alone
<1>4. /\ UNCHANGED <<shmName, semName, segs, init, initSeg, cleanup, inits, sem, seg,
                     count, lost, torn>>
      /\ pc' = [pc EXCEPT ![w] = "load"] /\ pc[w] = "sem_wait"
      /\ sems' = [sems EXCEPT ![sem[w]] = 0]
  BY <1>1, <1>2 DEF SemWait, Goto, Typed
<1>5. /\ sems' \in Seq({0, 1}) /\ Len(sems') = Len(sems) /\ sems'[sem[w]] = 0
      /\ \A s \in 1 .. Len(sems) : s # sem[w] => sems'[s] = sems[s]
  BY <1>1, <1>4, SemChanged
<1>6. \A v \in Workers : /\ IsInside(v)' <=> v = w \/ IsInside(v)
                         /\ HasBoth(v)' <=> HasBoth(v)
                         /\ pc'[v] \in {"shm_open", "store"} => pc'[v] = pc[v]
                         /\ IsInside(v) => v # w
  BY <1>4 DEF IsInside, HasBoth, Typed
<1>7. Typed' /\ Counts'
  BY <1>4, <1>5 DEF Typed, Counts, Place
<1>8. Opened'
  BY <1>4, <1>6 DEF Opened
<1>9. Alone'
  BY <1>1, <1>2, <1>3, <1>4, <1>5, <1>6 DEF Alone
<1>10. ASSUME ~torn' PROVE Whole'
  <2>1. Paired' /\ Ready'
    BY <1>4, <1>5, <1>10 DEF Whole, Paired, Ready
  <2>2. Same' /\ Counted'
    BY <1>4, <1>6, <1>10 DEF Whole, Same, Counted
  <2> QED
    BY <2>1, <2>2 DEF Whole
<1> QED
  BY <1>7, <1>8, <1>9, <1>10

LEMMA LoadInv == ASSUME NEW w \in Workers, IInv, Load(w) PROVE IInv'
<1> USE DEF IInv
<1>1. HasBoth(w) /\ IsInside(w) /\ seg[w] \in 1 .. Len(segs)
  BY HasBothFacts DEF Load, HasBoth, IsInside
<1>2. /\ UNCHANGED <<shmName, semName, segs, sems, init, initSeg, cleanup, inits, sem, seg,
                     lost, torn>>
      /\ pc' = [pc EXCEPT ![w] = "store"] /\ pc[w] = "load"
      /\ count' = [count EXCEPT ![w] = segs[seg[w]].count]
  BY DEF Load, Goto, namesVars
<1>3. segs[seg[w]].count \in Nat
  <2>1. segs[seg[w]] \in Segment
    BY <1>1, ElementOfSeq DEF Typed
  <2> QED
    BY <2>1 DEF Segment
<1>4. \A v \in Workers : /\ IsInside(v)' <=> IsInside(v)
                         /\ HasBoth(v)' <=> HasBoth(v)
                         /\ pc'[v] = "shm_open" => pc[v] = "shm_open"
                         /\ pc'[v] = "store" => \/ pc[v] = "store" /\ count'[v] = count[v]
                                                \/ count'[v] = segs[seg[v]].count
  BY <1>2 DEF IsInside, HasBoth, Typed
<1>5. Typed' /\ Counts'
  BY <1>2, <1>3 DEF Typed, Counts, Place
<1>6. Opened'
  BY <1>2, <1>4 DEF Opened
<1>7. Alone'
  BY <1>2, <1>4 DEF Alone
<1>8. ASSUME ~torn' PROVE Whole'
  <2>1. Paired' /\ Ready'
    BY <1>2, <1>8 DEF Whole, Paired, Ready
  <2>2. Same' /\ Counted'
    BY <1>2, <1>4, <1>8 DEF Whole, Same, Counted
  <2> QED
    BY <2>1, <2>2 DEF Whole
<1> QED
  BY <1>5, <1>6, <1>7, <1>8

LEMMA Incremented ==
    ASSUME NEW s \in Segment, NEW n \in Nat
    PROVE  LET e == [s EXCEPT !.count = n + 1, !.adds = @ + 1] IN
           /\ e \in Segment /\ e.sized = s.sized /\ e.cleared = s.cleared
           /\ n = s.count /\ s.count = s.adds => e.count = e.adds
<1> DEFINE e == [s EXCEPT !.count = n + 1, !.adds = @ + 1]
<1>1. n + 1 \in Nat /\ s.adds + 1 \in Nat
  BY DEF Segment
<1>2. e.count = n + 1 /\ e.adds = s.adds + 1 /\ e.sized = s.sized /\ e.cleared = s.cleared
  BY DEF Segment
<1>3. ASSUME NEW c \in Nat, NEW a \in Nat
      PROVE  [s EXCEPT !.count = c, !.adds = a] \in Segment
  BY DEF Segment
<1> QED
  BY <1>1, <1>2, <1>3

LEMMA StoreInv == ASSUME NEW w \in Workers, IInv, Store(w) PROVE IInv'
<1> USE DEF IInv
<1>1. HasBoth(w) /\ IsInside(w) /\ seg[w] \in 1 .. Len(segs)
  BY HasBothFacts DEF Store, HasBoth, IsInside
<1>2. /\ UNCHANGED <<shmName, semName, sems, init, initSeg, cleanup, inits, sem, seg, count,
                     lost, torn>>
      /\ pc' = [pc EXCEPT ![w] = "sem_post"] /\ pc[w] = "store"
  BY DEF Store, Goto
<1> DEFINE e == [segs[seg[w]] EXCEPT !.count = count[w] + 1, !.adds = @ + 1]
<1>3. segs' = [segs EXCEPT ![seg[w]] = e]
  BY <1>1 DEF Store, Typed
<1>4. segs[seg[w]] \in Segment /\ count[w] \in Nat
  BY <1>1, ElementOfSeq DEF Typed
<1>5. /\ e \in Segment /\ e.sized = segs[seg[w]].sized /\ e.cleared = segs[seg[w]].cleared
      /\ count[w] = segs[seg[w]].count /\ segs[seg[w]].count = segs[seg[w]].adds
            => e.count = e.adds
  BY <1>4, Incremented
<1> HIDE DEF e
<1>6. /\ segs' \in Seq(Segment) /\ Len(segs') = Len(segs) /\ segs'[seg[w]] = e
      /\ \A j \in 1 .. Len(segs) : j # seg[w] => segs'[j] = segs[j]
  BY <1>1, <1>3, <1>5, Changed
<1>7. \A v \in Workers : /\ IsInside(v)' <=> IsInside(v)
                         /\ HasBoth(v)' <=> HasBoth(v)
                         /\ pc'[v] = "shm_open" => pc[v] = "shm_open"
                         /\ pc'[v] = "store" => pc[v] = "store" /\ v # w
  BY <1>2 DEF IsInside, HasBoth, Typed
<1>8. Typed' /\ Counts'
  BY <1>2, <1>6 DEF Typed, Counts, Place
<1>9. Opened'
  BY <1>2, <1>7 DEF Opened
<1>10. Alone'
  BY <1>2, <1>7 DEF Alone
<1>11. ASSUME ~torn' PROVE Whole'
  <2>1. Paired' /\ Same'
    BY <1>2, <1>6, <1>7, <1>11 DEF Whole, Paired, Same
  <2>2. Ready'
    BY <1>1, <1>2, <1>5, <1>6, <1>11 DEF Whole, Ready
  <2>3. Counted'
    <3>1. ASSUME NEW v \in Workers, pc'[v] = "store" PROVE count[v] = segs'[seg[v]].count
      <4>1. pc[v] = "store" /\ v # w /\ IsInside(v) /\ HasBoth(v)
        BY <1>7, <3>1 DEF IsInside, HasBoth
      <4>2. seg[v] # seg[w] /\ seg[v] \in 1 .. Len(segs)
        BY <1>1, <1>2, <1>11, <4>1, HasBothFacts DEF Whole, Same, Alone
      <4> QED
        BY <1>2, <1>6, <1>11, <4>1, <4>2 DEF Whole, Counted
    <3> QED
      BY <1>1, <1>2, <1>5, <1>6, <1>11, <3>1 DEF Whole, Counted
  <2> QED
    BY <2>1, <2>2, <2>3 DEF Whole
<1> QED
  BY <1>8, <1>9, <1>10, <1>11

(* A worker that leaves the section, and gives its semaphore back or loses it. *)
LEMMA LeaveInv ==
    ASSUME NEW w \in Workers, IInv, IsInside(w), Ends(w),
           UNCHANGED <<shmName, semName, segs, init, initSeg, cleanup, inits, torn>>,
           \/ sems' = [sems EXCEPT ![sem[w]] = 1] /\ lost' = lost
           \/ sems' = sems /\ lost' = lost \cup {sem[w]}
    PROVE  IInv'
<1> USE DEF IInv
<1>1. sem[w] \in 1 .. Len(sems)
  BY HasBothFacts DEF HasBoth
<1>2. sems[sem[w]] = 0 /\ sem[w] \notin lost
  BY <1>1 DEF Alone
<1>3. /\ sems' \in Seq({0, 1}) /\ Len(sems') = Len(sems)
      /\ sems'[sem[w]] = IF sem[w] \in lost' THEN 0 ELSE 1
      /\ \A s \in 1 .. Len(sems) : s # sem[w] => sems'[s] = sems[s] /\ (s \in lost' <=> s \in lost)
      /\ lost' \subseteq 1 .. Len(sems)
  BY <1>1, <1>2, SemChanged DEF Typed
<1>9. pc' = [pc EXCEPT ![w] = "off"] /\ pc \in [Workers -> Place]
  BY EndsTypes DEF Typed
<1>10. \A v \in Workers : v # w /\ IsInside(v) => sem[v] # sem[w]
  BY DEF Alone
<1>4. \A v \in Workers : /\ IsInside(v)' <=> v # w /\ IsInside(v)
                         /\ HasBoth(v)' => v # w /\ HasBoth(v)
                         /\ pc'[v] \in {"shm_open", "store"} => v # w /\ pc'[v] = pc[v]
                         /\ v # w /\ IsInside(v) => sem[v] # sem[w]
  BY <1>9, <1>10 DEF IsInside, HasBoth
<1>5. Typed' /\ Counts'
  BY <1>3, EndsTypes DEF Typed, Counts
<1>6. Opened'
  BY <1>4, EndsTypes DEF Opened
<1>7. Alone'
  <2>1. \A v \in Workers : IsInside(v)' => IsInside(v) /\ sem'[v] = sem[v] /\ sem[v] # sem[w]
                                           /\ sem[v] \in 1 .. Len(sems)
    BY <1>4, EndsTypes, HasBothFacts DEF HasBoth
  <2>2. \A s \in 1 .. Len(sems) : s # sem[w] =>
            ((\E v \in Workers : IsInside(v)' /\ sem'[v] = s)
               <=> \E v \in Workers : IsInside(v) /\ sem[v] = s)
    BY <1>4, EndsTypes
  <2>3. ~ \E v \in Workers : IsInside(v)' /\ sem'[v] = sem[w]
    BY <2>1
  <2> QED
    BY <1>3, <2>1, <2>2, <2>3 DEF Alone
<1>8. ASSUME ~torn' PROVE Whole'
  <2>1. Paired' /\ Ready'
    BY <1>3, <1>8 DEF Whole, Paired, Ready
  <2>2. Same' /\ Counted'
    BY <1>4, <1>8, EndsTypes DEF Whole, Same, Counted
  <2> QED
    BY <2>1, <2>2 DEF Whole
<1> QED
  BY <1>5, <1>6, <1>7, <1>8

LEMMA SemPostInv == ASSUME NEW w \in Workers, IInv, SemPost(w) PROVE IInv'
<1>1. IsInside(w) /\ HasBoth(w)
  BY DEF SemPost, IsInside, HasBoth
<1>2. sem[w] \in 1 .. Len(sems)
  BY <1>1, HasBothFacts
<1>3. sems[sem[w]] = 0
  BY <1>1, <1>2 DEF IInv, Alone
<1>4. sems' = [sems EXCEPT ![sem[w]] = 1]
  BY <1>2, <1>3 DEF SemPost, IInv, Typed
<1> QED
  BY <1>1, <1>4, LeaveInv DEF SemPost

LEMMA KillInv == ASSUME NEW w \in Workers, IInv, Kill(w) PROVE IInv'
<1>1. Ends(w) /\ UNCHANGED <<namesVars, torn>>
      /\ lost' = IF IsInside(w) THEN lost \cup {sem[w]} ELSE lost
  BY DEF Kill, Inside, IsInside
<1>2. CASE IsInside(w)
  BY <1>1, <1>2, LeaveInv DEF namesVars
<1>3. CASE ~IsInside(w)
  BY <1>1, <1>3, EndsTypes, AwayInv DEF Ends, IInv
<1> QED
  BY <1>2, <1>3

LEMMA NextInv == IInv /\ [Next]_vars => IInv'
<1> SUFFICES ASSUME IInv, [Next]_vars PROVE IInv'
    OBVIOUS
<1>1. CASE UNCHANGED vars
  <2>1. UNCHANGED <<shmName, semName, segs, sems, init, initSeg, cleanup, inits,
                    pc, sem, seg, count, lost, torn>>
    BY <1>1 DEF vars, namesVars, workerVars
  <2> QED
    BY <2>1 DEF IInv, Typed, Counts, Opened, Alone, Whole, Paired, Ready, Same, Counted,
                HasBoth, IsInside
<1> QED
  BY <1>1, InitShmOpenInv, InitWritesInv, InitSemOpenInv, CleanupInv, StartInv,
     SemOpenInv, ShmOpenInv, SemWaitInv, LoadInv, StoreInv, SemPostInv, KillInv
     DEF Next

LEMMA Invariant == Spec => []IInv
BY InitInv, NextInv, PTL DEF Spec

(* A worker that found both names uses a segment that is sized and cleared,  *)
(* though the names may be removed and made anew while it does.              *)
THEOREM ReadyFound == Spec => []ReadyWhenFound
<1>1. IInv => ReadyWhenFound
  BY HasBothFacts DEF ReadyWhenFound, HasBoth, IsInside
<1> QED
  BY Invariant, <1>1, PTL

(* No increment is lost, wherever workers are killed and whatever is removed *)
(* and made anew while they run, unless one opened both names across that or *)
(* init reset a count in use.                                                *)
THEOREM Exact == Spec => []CountExact
<1>1. IInv => CountExact
  <2>1. Typed => DOMAIN segs = 1 .. Len(segs)
    BY LenProperties DEF Typed
  <2> QED
    BY <2>1 DEF IInv, Whole, Counted, CountExact
<1> QED
  BY Invariant, <1>1, PTL

(* Only a worker inside, or one killed there, keeps a semaphore at 0. *)
THEOREM ZeroForAReason == Spec => []ZeroOnlyInsideOrLost
<1>1. IInv => ZeroOnlyInsideOrLost
  <2>1. Typed => DOMAIN sems = 1 .. Len(sems)
    BY LenProperties DEF Typed
  <2> QED
    BY <2>1 DEF IInv, Alone, ZeroOnlyInsideOrLost, IsInside, Inside
<1> QED
  BY Invariant, <1>1, PTL
-----------------------------------------------------------------------------
InsideWith == [s \in 1 .. MaxInit |-> {w \in Inside : sem[w] = s}]

(* A worker that goes nowhere near a section leaves it as it is. *)
LEMMA SameInside ==
    ASSUME \A v \in Workers : IsInside(v)' <=> IsInside(v),
           \A v \in Workers : IsInside(v) => sem'[v] = sem[v]
    PROVE  UNCHANGED InsideWith
<1>1. Inside' = Inside /\ \A v \in Inside : sem'[v] = sem[v]
  BY DEF IsInside, Inside
<1>2. \A s \in 1 .. MaxInit : {w \in Inside' : sem'[w] = s} = {w \in Inside : sem[w] = s}
  BY <1>1
<1> QED
  BY <1>2 DEF InsideWith

(* Each semaphore is one of the family's locks. *)
LEMMA ItsLock == ASSUME NEW w \in Workers, IInv, HasBoth(w) PROVE sem[w] \in 1 .. MaxInit
<1>1. sem[w] \in 1 .. Len(sems)
  BY HasBothFacts
<1> QED
  BY <1>1, Lengths, ShmAssumption DEF IInv, Counts

LEMMA Enters ==
    ASSUME NEW w \in Workers, IInv, SemWait(w), NEW l \in 1 .. MaxInit, l = sem[w]
    PROVE  Sections!Enter(w, l)
<1>1. HasBoth(w) /\ sem[w] \in 1 .. Len(sems) /\ sem[w] \in 1 .. MaxInit
  BY HasBothFacts, ItsLock DEF SemWait, HasBoth
<1>2. \A v \in Workers : IsInside(v) => sem[v] # sem[w]
  BY <1>1 DEF SemWait, IInv, Alone
<1>3. Inside' = Inside \cup {w} /\ sem' = sem
  BY DEF SemWait, Goto, Inside, IInv, Typed
<1>4. \A s \in 1 .. MaxInit :
         {v \in Inside' : sem'[v] = s} =
            IF s = sem[w] THEN {w} ELSE {v \in Inside : sem[v] = s}
  BY <1>2, <1>3 DEF Inside, IsInside
<1>5. InsideWith[sem[w]] = {}
  BY <1>1, <1>2 DEF InsideWith, Inside, IsInside
<1>6. InsideWith' = [InsideWith EXCEPT ![sem[w]] = {w}]
  BY <1>1, <1>4 DEF InsideWith
<1> QED
  BY <1>5, <1>6 DEF Sections!Enter, InsideWith

(* Who leaves was there. *)
LEMMA Leaves ==
    ASSUME NEW w \in Workers, IInv, IsInside(w), Ends(w), NEW l \in 1 .. MaxInit, l = sem[w]
    PROVE  Sections!Leave(w, l)
<1>1. sem[w] \in 1 .. MaxInit
  BY ItsLock DEF HasBoth
<1>2. Inside' = Inside \ {w} /\ w \in Inside /\ \A v \in Inside' : sem'[v] = sem[v]
  BY EndsTypes DEF Inside, IsInside, IInv, Typed
<1>3. \A s \in 1 .. MaxInit :
         {v \in Inside' : sem'[v] = s} =
            IF s = sem[w] THEN {v \in Inside : sem[v] = s} \ {w} ELSE {v \in Inside : sem[v] = s}
  BY <1>2
<1>4. w \in InsideWith[sem[w]] /\ InsideWith[sem[w]] = {v \in Inside : sem[v] = sem[w]}
  BY <1>1, <1>2 DEF InsideWith
<1>5. InsideWith' = [InsideWith EXCEPT ![sem[w]] = InsideWith[sem[w]] \ {w}]
  <2>1. InsideWith' = [s \in 1 .. MaxInit |->
           IF s = sem[w] THEN {v \in Inside : sem[v] = s} \ {w} ELSE {v \in Inside : sem[v] = s}]
    BY <1>3 DEF InsideWith
  <2>2. \A s \in 1 .. MaxInit : InsideWith[s] = {v \in Inside : sem[v] = s}
    BY DEF InsideWith
  <2>3. InsideWith = [s \in 1 .. MaxInit |-> InsideWith[s]]
    BY DEF InsideWith
  <2> HIDE DEF InsideWith
  <2> QED
    BY <1>1, <2>1, <2>2, <2>3
<1> QED
  BY <1>4, <1>5 DEF Sections!Leave, InsideWith

LEMMA StepRefines == IInv /\ [Next]_vars => [Sections!Next]_InsideWith
<1> SUFFICES ASSUME IInv, [Next]_vars PROVE Sections!Next \/ UNCHANGED InsideWith
    OBVIOUS
<1>1. ASSUME UNCHANGED <<pc, sem>> PROVE UNCHANGED InsideWith
  BY <1>1, SameInside DEF IsInside
<1>2. CASE InitShmOpen \/ InitTruncate \/ InitClear \/ InitSemOpen \/ CleanupShm \/ CleanupSem
  BY <1>1, <1>2 DEF InitShmOpen, InitTruncate, InitClear, InitSemOpen, CleanupShm, CleanupSem,
                    workerVars
<1>3. ASSUME NEW w \in Workers, ~IsInside(w), NEW l \in Place, Goto(w, l),
             l \notin {"load", "store", "sem_post"},
             \A v \in Workers : v # w => sem'[v] = sem[v]
      PROVE  UNCHANGED InsideWith
  <2>1. \A v \in Workers : (IsInside(v)' <=> IsInside(v)) /\ (IsInside(v) => v # w)
    BY <1>3 DEF Goto, IsInside, IInv, Typed
  <2> QED
    BY <1>3, <2>1, SameInside
<1>4. ASSUME NEW w \in Workers, Start(w) \/ SemOpen(w) \/ ShmOpen(w)
      PROVE  UNCHANGED InsideWith
  <2>1. ~IsInside(w)
    BY <1>4 DEF Start, SemOpen, ShmOpen, IsInside
  <2>2. \A v \in Workers : v # w => sem'[v] = sem[v]
    BY <1>4 DEF Start, SemOpen, ShmOpen, Ends, IInv, Typed
  <2>3. PICK l \in Place : Goto(w, l) /\ l \notin {"load", "store", "sem_post"}
    BY <1>4 DEF Start, SemOpen, ShmOpen, Ends, Place
  <2> QED
    BY <1>3, <2>1, <2>2, <2>3
<1>5. ASSUME NEW w \in Workers, Load(w) \/ Store(w) PROVE UNCHANGED InsideWith
  <2>1. sem' = sem /\ \A v \in Workers : IsInside(v)' <=> IsInside(v)
    BY <1>5 DEF Load, Store, Goto, IsInside, IInv, Typed
  <2> QED
    BY <2>1, SameInside
<1>6. ASSUME NEW w \in Workers, SemWait(w) PROVE Sections!Next
  <2>1. sem[w] \in 1 .. MaxInit
    BY <1>6, ItsLock DEF SemWait, HasBoth
  <2> QED
    <3>1. PICK s \in 1 .. MaxInit : s = sem[w]
      BY <2>1
    <3>2. Sections!Enter(w, s)
      BY <1>6, <3>1, Enters
    <3> QED
      BY <3>2, Zenon DEF Sections!Next
<1>7. ASSUME NEW w \in Workers, IsInside(w), Ends(w) PROVE Sections!Next
  <2>1. sem[w] \in 1 .. MaxInit
    BY <1>7, ItsLock DEF HasBoth
  <2> QED
    <3>1. PICK s \in 1 .. MaxInit : s = sem[w]
      BY <2>1
    <3>2. Sections!Leave(w, s)
      BY <1>7, <3>1, Leaves
    <3> QED
      BY <3>2, Zenon DEF Sections!Next
<1>8. ASSUME NEW w \in Workers, SemPost(w) PROVE Sections!Next
  BY <1>7, <1>8 DEF SemPost, IsInside
<1>9. ASSUME NEW w \in Workers, Kill(w) PROVE Sections!Next \/ UNCHANGED InsideWith
  <2>1. Ends(w)
    BY <1>9 DEF Kill
  <2>2. CASE ~IsInside(w)
    <3>1. Goto(w, "off") /\ \A v \in Workers : v # w => sem'[v] = sem[v]
      BY <2>1, EndsTypes DEF Ends, IInv
    <3> QED
      BY <1>3, <2>2, <3>1 DEF Place
  <2> QED
    BY <1>7, <2>1, <2>2
<1>10. CASE UNCHANGED vars
  BY <1>1, <1>10 DEF vars, workerVars
<1> QED
  BY <1>2, <1>4, <1>5, <1>6, <1>8, <1>9, <1>10 DEF Next

(* Each semaphore guards a critical section, in whatever order the three     *)
(* programs are started, and while the objects of several inits exist.       *)
THEOREM Implements == Spec => ImplementsSections
<1>1. Init => Sections!Init
  BY DEF Init, Sections!Init, Inside
<1>2. Init /\ [][Next]_vars => [][Sections!Next]_InsideWith
  BY InitInv, NextInv, StepRefines, PTL
<1> QED
  BY <1>1, <1>2, PTL DEF ImplementsSections, Sections!Spec, Spec, InsideWith
=============================================================================
