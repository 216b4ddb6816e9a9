---------------------------- MODULE SysvSemProofs ----------------------------
(***************************************************************************)
(* Proofs about SysvSem, for any finite set of processes: as long as no    *)
(* process sets the value while another is inside, the processes exclude   *)
(* one another and implement one critical section, wherever they are       *)
(* killed.                                                                 *)
(*                                                                         *)
(* Mutual exclusion is not inductive: it rests on the value of the         *)
(* semaphore and on what the kernel would add to it for each process.      *)
(* Once starts overlap only Ledger is left: value and adjustments balance. *)
(* That is enough for the semaphore to be free when nobody is inside.      *)
(***************************************************************************)
EXTENDS SysvSem, FiniteSetTheorems, TLAPS

(* The types the argument needs; the bound of semval is not among them. *)
Typed == /\ pc \in [Procs -> Label]
         /\ semval \in Int
         /\ undo \in [Procs -> Int]
         /\ overlapped \in BOOLEAN

IsInside(p) == pc[p] \in {"crit", "sleep"}

(* The kernel would give back exactly the lock of a process that is inside, *)
(* which is the only one, and then the value is 0.                          *)
Orderly == /\ \A p, q \in Procs : IsInside(p) /\ IsInside(q) => p = q
           /\ \A p \in Procs : undo[p] = IF IsInside(p) THEN 1 ELSE 0
           /\ \A p \in Procs : IsInside(p) => semval = 0
           /\ \A p \in Procs : pc[p] = "sleep" => shm = p
           /\ semval <= 1

IInv == Typed /\ (~overlapped => Orderly)

LEMMA InitInv == Init => IInv
<1> SUFFICES ASSUME Init PROVE IInv
    OBVIOUS
<1>1. pc \in [Procs -> Label] /\ semval \in Int /\ undo \in [Procs -> Int]
  BY DEF Init, Label
<1>2. overlapped \in BOOLEAN
  BY DEF Init
<1>3. Orderly
  BY DEF Init, Orderly, IsInside
<1> QED
  BY <1>1, <1>2, <1>3 DEF IInv, Typed

(* What a process adds to the value when it ends outside the section. *)
LEMMA EndsOutside ==
    ASSUME IInv, NEW p \in Procs, ~IsInside(p), ApplyUndo(p), Goto(p, "gone"),
           UNCHANGED <<shm, overlapped>>
    PROVE  IInv'
<1>1. Typed'
  BY DEF IInv, Typed, ApplyUndo, Goto, Label
<1>2. ASSUME ~overlapped PROVE Orderly'
  <2>1. Orderly /\ undo[p] = 0
    BY <1>2 DEF IInv, Orderly
  <2>2. \A q \in Procs : IsInside(q)' <=> IsInside(q)
    BY DEF IInv, Typed, Goto, IsInside
  <2>3. \A q \in Procs : undo'[q] = undo[q]
    BY <2>1 DEF IInv, Typed, ApplyUndo
  <2>4. semval' = IF semval < 0 THEN 0 ELSE semval
    BY <2>1 DEF IInv, Typed, ApplyUndo
  <2>5. \A q \in Procs : pc'[q] = "sleep" => pc[q] = "sleep"
    BY DEF IInv, Typed, Goto
  <2> QED
    BY <2>1, <2>2, <2>3, <2>4, <2>5 DEF Orderly, IInv, Typed
<1> QED
  BY <1>1, <1>2 DEF IInv

(* A process that ends inside gives the lock back. *)
LEMMA EndsInside ==
    ASSUME IInv, NEW p \in Procs, IsInside(p), ApplyUndo(p), Goto(p, "gone"),
           UNCHANGED <<shm, overlapped>>
    PROVE  IInv'
<1>1. Typed'
  BY DEF IInv, Typed, ApplyUndo, Goto, Label
<1>2. ASSUME ~overlapped PROVE Orderly'
  <2>1. Orderly /\ undo[p] = 1 /\ semval = 0
    BY <1>2 DEF IInv, Orderly
  <2>2. \A q \in Procs : ~IsInside(q)'
    BY <2>1 DEF IInv, Typed, Goto, IsInside, Orderly
  <2>3. \A q \in Procs : undo'[q] = 0
    BY <2>1 DEF IInv, Typed, ApplyUndo, Orderly
  <2>4. semval' = 1
    BY <2>1 DEF ApplyUndo
  <2> QED
    BY <2>2, <2>3, <2>4 DEF Orderly, IsInside
<1> QED
  BY <1>1, <1>2 DEF IInv

LEMMA NextInv == IInv /\ [Next]_vars => IInv'
<1> SUFFICES ASSUME IInv, [Next]_vars PROVE IInv'
    OBVIOUS
<1>1. ASSUME NEW p \in Procs, Semget(p) PROVE IInv'
  BY <1>1 DEF Semget, Goto, IInv, Typed, Orderly, IsInside, Label
<1>2. ASSUME NEW p \in Procs, Setval(p) PROVE IInv'
  <2>1. Typed'
    BY <1>2 DEF Setval, Goto, IInv, Typed, Label
  <2>2. ASSUME ~overlapped' PROVE Orderly'
    <3>1. \A q \in Procs : ~IsInside(q)
      BY <1>2, <2>2 DEF Setval, Inside, IsInside
    <3>2. \A q \in Procs : ~IsInside(q)'
      BY <1>2, <3>1 DEF Setval, Goto, IsInside, IInv, Typed
    <3> QED
      BY <1>2, <3>2 DEF Setval, Orderly, IsInside
  <2> QED
    BY <2>1, <2>2 DEF IInv
<1>3. ASSUME NEW p \in Procs, Attach(p) PROVE IInv'
  BY <1>3 DEF Attach, Goto, IInv, Typed, Orderly, IsInside, Label
<1>4. ASSUME NEW p \in Procs, Lock(p) PROVE IInv'
  <2>1. Typed'
    BY <1>4 DEF Lock, Goto, IInv, Typed, Label
  <2>2. ASSUME ~overlapped PROVE Orderly'
    <3>1. Orderly /\ semval = 1 /\ \A q \in Procs : ~IsInside(q)
      BY <1>4, <2>2 DEF Lock, IInv, Typed, Orderly
    <3>2. \A q \in Procs : IsInside(q)' <=> q = p
      BY <1>4, <3>1 DEF Lock, Goto, IsInside, IInv, Typed
    <3>3. \A q \in Procs : undo'[q] = IF q = p THEN 1 ELSE 0
      BY <1>4, <3>1 DEF Lock, IInv, Typed, Orderly
    <3>4. semval' = 0 /\ \A q \in Procs : pc'[q] # "sleep"
      BY <1>4, <3>1 DEF Lock, Goto, IInv, Typed, IsInside
    <3> QED
      BY <3>2, <3>3, <3>4 DEF Orderly
  <2> QED
    BY <1>4, <2>1, <2>2 DEF IInv, Lock
<1>5. ASSUME NEW p \in Procs, Write(p) PROVE IInv'
  BY <1>5 DEF Write, Goto, IInv, Typed, Orderly, IsInside, Label
<1>6. ASSUME NEW p \in Procs, Unlock(p) PROVE IInv'
  <2>1. Typed'
    BY <1>6 DEF Unlock, Goto, IInv, Typed, Label
  <2>2. ASSUME ~overlapped PROVE Orderly'
    <3>1. Orderly /\ IsInside(p) /\ semval = 0 /\ undo[p] = 1
      BY <1>6, <2>2 DEF Unlock, IInv, Orderly, IsInside
    <3>2. \A q \in Procs : ~IsInside(q)'
      BY <1>6, <3>1 DEF Unlock, Goto, IsInside, IInv, Typed, Orderly
    <3>3. \A q \in Procs : undo'[q] = 0
      BY <1>6, <3>1 DEF Unlock, IInv, Typed, Orderly
    <3> QED
      BY <1>6, <3>1, <3>2, <3>3 DEF Unlock, Orderly, IsInside
  <2> QED
    BY <1>6, <2>1, <2>2 DEF IInv, Unlock
<1>7. ASSUME NEW p \in Procs, Exit(p) PROVE IInv'
  BY <1>7, EndsOutside DEF Exit, IsInside
<1>8. ASSUME NEW p \in Procs, Killed(p) PROVE IInv'
  BY <1>8, EndsOutside, EndsInside DEF Killed
<1>9. CASE UNCHANGED vars
  BY <1>9 DEF vars, IInv, Typed, Orderly, IsInside
<1> QED
  BY <1>1, <1>2, <1>3, <1>4, <1>5, <1>6, <1>7, <1>8, <1>9 DEF Next, Step

(* Until starts overlap, whoever is between lock and unlock of shm.c is      *)
(* alone there and the kernel holds its adjustment, and no other.            *)
THEOREM Invariant == Spec => []IInv
BY InitInv, NextInv, PTL DEF Spec

(* Two processes are never both between lock and unlock unless one started   *)
(* while the other was inside: semop and SEM_UNDO alone keep them apart,     *)
(* however many there are and wherever they are killed.                      *)
THEOREM Staggered == Spec => []StaggeredExclusion
<1>1. IInv => StaggeredExclusion
  BY DEF IInv, Orderly, IsInside, StaggeredExclusion, MutualExclusion, Inside
<1> QED
  BY Invariant, <1>1, PTL

(* The text a process wrote is in the segment until it unlocks. *)
THEOREM TextStays == Spec => []TextIntact
<1>1. IInv => TextIntact
  BY DEF IInv, Orderly, TextIntact
<1> QED
  BY Invariant, <1>1, PTL
-----------------------------------------------------------------------------
(* The processes inside, as CriticalSection sees them. *)
Seen == IF overlapped THEN {} ELSE Inside

(* A step that moves nobody into or out of the section is a stutter. *)
LEMMA SameInside ==
    ASSUME Typed, NEW p \in Procs, NEW l \in Label, Goto(p, l),
           IsInside(p) <=> l \in {"crit", "sleep"}
    PROVE  Inside' = Inside
BY DEF Typed, Goto, IsInside, Inside

(* Whoever leaves was the only one inside. *)
LEMMA LeavesAlone ==
    ASSUME IInv, NEW p \in Procs, NEW l \in Label \ {"crit", "sleep"}, Goto(p, l),
           IsInside(p), UNCHANGED overlapped
    PROVE  UNCHANGED Seen \/ Section!Leave(p)
<1>1. Inside' = Inside \ {p}
  BY DEF IInv, Typed, Goto, IsInside, Inside
<1>2. p \in Inside
  BY DEF Inside, IsInside
<1>3. CASE overlapped
  BY <1>3 DEF Seen
<1>4. CASE ~overlapped
  BY <1>1, <1>2, <1>4 DEF Seen, Section!Leave
<1> QED
  BY <1>3, <1>4

(* Every step is a step of the critical section, or a stutter. *)
LEMMA StepRefines == IInv /\ [Next]_vars => [Section!Next]_Seen
<1> SUFFICES ASSUME IInv, [Next]_vars PROVE Section!Next \/ UNCHANGED Seen
    OBVIOUS
<1> USE DEF IInv
<1>1. ASSUME NEW p \in Procs, Semget(p) \/ Attach(p) \/ Write(p) \/ Exit(p)
      PROVE  UNCHANGED Seen
  <2>1. PICK l \in Label : Goto(p, l) /\ (IsInside(p) <=> l \in {"crit", "sleep"})
    BY <1>1 DEF Semget, Attach, Write, Exit, IsInside, Label
  <2>2. UNCHANGED overlapped
    BY <1>1 DEF Semget, Attach, Write, Exit
  <2> QED
    BY <2>1, <2>2, SameInside DEF Seen
<1>2. ASSUME NEW p \in Procs, Setval(p) PROVE Section!Next \/ UNCHANGED Seen
  <2>1. Inside' = Inside
    BY <1>2, SameInside DEF Setval, IsInside, Label
  <2>2. CASE overlapped \/ Inside = {}
    <3>1. Inside = {} => Seen = {} /\ Seen' = {}
      BY <2>1 DEF Seen
    <3>2. overlapped => Seen = {} /\ Seen' = {}
      BY <1>2 DEF Seen, Setval
    <3> QED
      BY <2>2, <3>1, <3>2
  <2>3. CASE ~overlapped /\ Inside # {}
    <3>1. PICK q \in Procs : q \in Inside
      BY <2>3 DEF Inside
    <3>2. Inside = {q}
      BY <2>3, <3>1 DEF Orderly, Inside, IsInside
    <3>3. Seen = {q} /\ Seen' = {}
      BY <1>2, <2>3, <3>2 DEF Seen, Setval
    <3> QED
      BY <3>1, <3>3 DEF Section!Next, Section!Leave, Seen
  <2> QED
    BY <2>2, <2>3
<1>3. ASSUME NEW p \in Procs, Lock(p) PROVE Section!Next \/ UNCHANGED Seen
  <2>1. CASE overlapped
    BY <1>3, <2>1 DEF Lock, Seen
  <2>2. CASE ~overlapped
    <3>1. Inside = {}
      BY <1>3, <2>2 DEF Lock, Typed, Orderly, Inside, IsInside
    <3>2. Inside' = {p}
      BY <1>3, <3>1 DEF Lock, Goto, Typed, Inside
    <3> QED
      BY <1>3, <2>2, <3>1, <3>2 DEF Lock, Seen, Section!Next, Section!Enter
  <2> QED
    BY <2>1, <2>2
<1>4. ASSUME NEW p \in Procs, Unlock(p) PROVE Section!Next \/ UNCHANGED Seen
  BY <1>4, LeavesAlone DEF Unlock, IsInside, Label, Section!Next
<1>5. ASSUME NEW p \in Procs, Killed(p) PROVE Section!Next \/ UNCHANGED Seen
  <2>1. CASE IsInside(p)
    BY <1>5, <2>1, LeavesAlone DEF Killed, Label, Section!Next
  <2>2. CASE ~IsInside(p)
    BY <1>5, <2>2, SameInside DEF Killed, Label, Seen
  <2> QED
    BY <2>1, <2>2
<1>6. CASE UNCHANGED vars
  BY <1>6 DEF vars, Seen, Inside
<1> QED
  BY <1>1, <1>2, <1>3, <1>4, <1>5, <1>6 DEF Next, Step

(* Until starts overlap, shm.c implements the critical section: a process    *)
(* enters only when nobody is inside, and leaves by unlocking or by dying.   *)
THEOREM Implements == Spec => ImplementsSection
<1>1. Init => Section!Init
  BY DEF Init, Section!Init, Inside
<1>2. [Section!Next]_Seen <=> [Section!Next]_(IF overlapped THEN {} ELSE Inside)
  BY DEF Seen
<1> QED
  BY Invariant, StepRefines, <1>1, <1>2, PTL DEF ImplementsSection, Section!Spec, Spec

-----------------------------------------------------------------------------
(* Also when starts overlap and processes are inside together the books are  *)
(* kept: what the semaphore has, and what the kernel would take back from    *)
(* it or give back to it, is at least 1 since the first SETVAL.  It may be   *)
(* more, because an adjustment stops at 0.                                   *)
Lent == {p \in Procs : undo[p] = 1}
Owed == {p \in Procs : undo[p] = -1}

Counts(l) == IF l \in {"crit", "sleep"} THEN 1 ELSE 0

Fits(v, l) == IF l \in {"crit", "sleep"} THEN v \in {0, 1}
              ELSE IF l = "detach" THEN v \in {0, -1} ELSE v = 0

Adjusted == \A p \in Procs : Fits(undo[p], pc[p])

WasSet == \E p \in Procs : pc[p] \in {"attach", "lock", "crit", "sleep", "detach"}

Made == semval >= 0 \/ (semval = -1 /\ \A p \in Procs : pc[p] = "semget")

Books == WasSet => semval + Cardinality(Lent) - Cardinality(Owed) >= 1

(* Whoever sets the value is not inside. *)
Bounded == semval + Cardinality(Inside) <= Cardinality(Procs)

Ledger == Typed /\ shm \in Procs \cup {NoOne} /\ Adjusted /\ Made /\ Books /\ Bounded

One(b) == IF b THEN 1 ELSE 0

LEMMA Finite ==
    /\ IsFiniteSet(Lent) /\ Cardinality(Lent) \in Nat
    /\ IsFiniteSet(Owed) /\ Cardinality(Owed) \in Nat
    /\ IsFiniteSet(Inside) /\ Cardinality(Inside) \in Nat
    /\ Cardinality(Procs) \in Nat
<1>1. IsFiniteSet(Procs)
  BY SysvAssumption
<1>2. Lent \in SUBSET Procs /\ Owed \in SUBSET Procs /\ Inside \in SUBSET Procs
  BY DEF Lent, Owed, Inside
<1>3. IsFiniteSet(Lent) /\ IsFiniteSet(Owed) /\ IsFiniteSet(Inside)
  BY <1>1, <1>2, FS_Subset
<1> QED
  BY <1>1, <1>3, FS_CardinalityType

(* Putting p into a finite set, or taking it out. *)
LEMMA PutOrTake ==
    ASSUME NEW S, IsFiniteSet(S), NEW p, NEW b \in BOOLEAN
    PROVE  Cardinality(IF b THEN S \cup {p} ELSE S \ {p})
             = Cardinality(S) - One(p \in S) + One(b)
<1>1. Cardinality(S) \in Nat
  BY FS_CardinalityType
<1>2. CASE b
  <2>1. Cardinality(S \cup {p}) = IF p \in S THEN Cardinality(S) ELSE Cardinality(S) + 1
    BY FS_AddElement
  <2> QED
    BY <1>1, <1>2, <2>1 DEF One
<1>3. CASE ~b
  <2>1. Cardinality(S \ {p}) = IF p \in S THEN Cardinality(S) - 1 ELSE Cardinality(S)
    BY FS_RemoveElement
  <2> QED
    BY <1>1, <1>3, <2>1 DEF One
<1> QED
  BY <1>2, <1>3

(* The balance changes as p's adjustment does. *)
LEMMA BalanceStep ==
    ASSUME Typed, NEW p \in Procs, undo[p] \in {-1, 0, 1}, NEW v \in {-1, 0, 1},
           undo' = [undo EXCEPT ![p] = v]
    PROVE  Cardinality(Lent') - Cardinality(Owed')
             = Cardinality(Lent) - Cardinality(Owed) + v - undo[p]
<1>1. \A q \in Procs : undo'[q] = IF q = p THEN v ELSE undo[q]
  BY DEF Typed
<1>2. Lent' = IF v = 1 THEN Lent \cup {p} ELSE Lent \ {p}
  BY <1>1 DEF Lent
<1>3. Owed' = IF v = -1 THEN Owed \cup {p} ELSE Owed \ {p}
  BY <1>1 DEF Owed
<1>4. Cardinality(Lent') = Cardinality(Lent) - One(p \in Lent) + One(v = 1)
  BY <1>2, Finite, PutOrTake
<1>5. Cardinality(Owed') = Cardinality(Owed) - One(p \in Owed) + One(v = -1)
  BY <1>3, Finite, PutOrTake
<1>6. (p \in Lent <=> undo[p] = 1) /\ (p \in Owed <=> undo[p] = -1)
  BY DEF Lent, Owed
<1> QED
  BY <1>4, <1>5, <1>6, Finite DEF One

LEMMA InsideStep ==
    ASSUME Typed, NEW p \in Procs, NEW l \in Label, Goto(p, l)
    PROVE  Cardinality(Inside') = Cardinality(Inside) - Counts(pc[p]) + Counts(l)
<1>1. \A q \in Procs : pc'[q] = IF q = p THEN l ELSE pc[q]
  BY DEF Typed, Goto
<1>2. p \in Inside <=> pc[p] \in {"crit", "sleep"}
  BY DEF Inside
<1>3. CASE l \in {"crit", "sleep"}
  <2>1. Inside' = Inside \cup {p}
    BY <1>1, <1>3 DEF Inside
  <2>2. Cardinality(Inside') = IF p \in Inside THEN Cardinality(Inside) ELSE Cardinality(Inside) + 1
    BY <2>1, Finite, FS_AddElement
  <2> QED
    BY <1>2, <1>3, <2>2, Finite DEF Counts
<1>4. CASE l \notin {"crit", "sleep"}
  <2>1. Inside' = Inside \ {p}
    BY <1>1, <1>4 DEF Inside
  <2>2. Cardinality(Inside') = IF p \in Inside THEN Cardinality(Inside) - 1 ELSE Cardinality(Inside)
    BY <2>1, Finite, FS_RemoveElement
  <2> QED
    BY <1>2, <1>4, <2>2, Finite DEF Counts
<1> QED
  BY <1>3, <1>4

(* Somebody is not inside, so that there is room for one more. *)
LEMMA NotAllInside ==
    ASSUME NEW p \in Procs, p \notin Inside
    PROVE  Cardinality(Inside) + 1 <= Cardinality(Procs)
<1>1. Inside \in SUBSET Procs /\ Inside # Procs /\ IsFiniteSet(Procs)
  BY SysvAssumption DEF Inside
<1>2. Cardinality(Inside) <= Cardinality(Procs) /\ Cardinality(Inside) # Cardinality(Procs)
  BY <1>1, FS_Subset
<1> QED
  BY <1>2, Finite

LEMMA InitLedger == Init => Ledger
<1> SUFFICES ASSUME Init PROVE Ledger
    OBVIOUS
<1>1. Typed
  BY InitInv DEF IInv
<1>2. Inside = {}
  BY DEF Init, Inside
<1>3. Adjusted /\ Made /\ Books
  BY DEF Init, Adjusted, Fits, Made, Books, WasSet
<1>4. Bounded
  <2>1. Cardinality(Inside) = 0 /\ semval = -1 /\ Cardinality(Procs) \in Nat
    BY <1>2, FS_EmptySet, Finite DEF Init
  <2> QED
    BY <2>1 DEF Bounded
<1>5. shm \in Procs \cup {NoOne}
  BY DEF Init
<1> QED
  BY <1>1, <1>3, <1>4, <1>5 DEF Ledger

(* A step of p alone, to l: the semaphore changes by what the adjustment     *)
(* loses, or stops at 0.                                                     *)
LEMMA StepLedger ==
    ASSUME Ledger, NEW p \in Procs, NEW l \in Label, Goto(p, l),
           NEW v \in {-1, 0, 1}, undo' = [undo EXCEPT ![p] = v], Fits(v, l),
           l \in {"attach", "lock", "crit", "sleep", "detach"} => WasSet,
           semval \in Nat, semval' \in Nat, semval' - semval >= undo[p] - v,
           semval' - semval <= Counts(pc[p]) - Counts(l),
           overlapped' \in BOOLEAN, shm' \in Procs \cup {NoOne}
    PROVE  Ledger'
<1>1. Typed /\ Adjusted /\ Books /\ Bounded
  BY DEF Ledger
<1>2. Typed'
  BY <1>1 DEF Typed, Goto
<1>3. \A q \in Procs : q # p => pc'[q] = pc[q] /\ undo'[q] = undo[q]
  BY <1>1 DEF Typed, Goto
<1>4. pc'[p] = l /\ undo'[p] = v
  BY <1>1 DEF Typed, Goto
<1>5. Adjusted'
  BY <1>1, <1>3, <1>4 DEF Adjusted
<1>6. Made'
  BY DEF Made
<1>7. undo[p] \in {-1, 0, 1}
  BY <1>1 DEF Adjusted, Fits
<1>8. (Cardinality(Lent) \in Nat /\ Cardinality(Owed) \in Nat /\ Cardinality(Inside) \in Nat)'
  BY Finite, PTL
<1>9. Books'
  <2> SUFFICES ASSUME WasSet' PROVE semval' + Cardinality(Lent') - Cardinality(Owed') >= 1
      BY DEF Books
  <2>1. WasSet
    BY <1>3, <1>4 DEF WasSet
  <2>2. Cardinality(Lent') - Cardinality(Owed') = Cardinality(Lent) - Cardinality(Owed) + v - undo[p]
    BY <1>1, <1>7, BalanceStep
  <2>3. semval + Cardinality(Lent) - Cardinality(Owed) >= 1
    BY <1>1, <2>1 DEF Books
  <2> QED
    BY <1>7, <1>8, <2>2, <2>3, Finite
<1>10. Bounded'
  <2>1. Cardinality(Inside') = Cardinality(Inside) - Counts(pc[p]) + Counts(l)
    BY <1>1, InsideStep
  <2>2. Counts(pc[p]) \in {0, 1} /\ Counts(l) \in {0, 1}
    BY DEF Counts
  <2>3. semval + Cardinality(Inside) <= Cardinality(Procs)
    BY <1>1 DEF Bounded
  <2>4. semval' + Cardinality(Inside') <= Cardinality(Procs)
    BY <1>8, <2>1, <2>2, <2>3, Finite
  <2> QED
    BY <2>4 DEF Bounded
<1> QED
  BY <1>2, <1>5, <1>6, <1>9, <1>10 DEF Ledger

LEMMA NextLedger == Ledger /\ [Next]_vars => Ledger'
<1> SUFFICES ASSUME Ledger, [Next]_vars PROVE Ledger'
    OBVIOUS
<1>0. ASSUME NEW p \in Procs, pc[p] # "semget"
      PROVE  /\ semval \in Nat /\ Fits(undo[p], pc[p]) /\ pc[p] \in Label
             /\ undo \in [Procs -> Int] /\ overlapped \in BOOLEAN /\ shm \in Procs \cup {NoOne}
             /\ pc[p] \in {"attach", "lock", "crit", "sleep", "detach"} => WasSet
  BY <1>0 DEF Ledger, Made, Typed, Adjusted, WasSet
<1>1. ASSUME NEW p \in Procs, Semget(p) PROVE Ledger'
  <2>1. /\ pc[p] = "semget" /\ Goto(p, "setval") /\ undo' = [undo EXCEPT ![p] = 0]
        /\ undo' = undo /\ undo[p] = 0 /\ overlapped' \in BOOLEAN
        /\ shm' \in Procs \cup {NoOne}
    BY <1>1 DEF Semget, Ledger, Adjusted, Fits, Typed
  <2>2. CASE semval \in Nat
    <3>1. /\ semval' = semval /\ Fits(0, "setval") /\ Counts(pc[p]) = 0 /\ Counts("setval") = 0
          /\ "setval" \in Label
      BY <1>1, <2>1, <2>2 DEF Semget, Fits, Counts, Label
    <3>2. /\ semval' \in Nat /\ semval' - semval >= undo[p] - 0
          /\ semval' - semval <= Counts(pc[p]) - Counts("setval")
      BY <2>1, <2>2, <3>1
    <3> QED
      BY <2>1, <2>2, <3>1, <3>2, StepLedger
  <2>3. CASE semval \notin Nat
    <3>1. semval = -1 /\ semval' = 0 /\ (\A q \in Procs : pc[q] = "semget") /\ Typed
      BY <1>1, <2>3 DEF Semget, Ledger, Made, Typed
    <3>2. \A q \in Procs : pc'[q] \in {"semget", "setval"} /\ undo'[q] = 0
      BY <2>1, <3>1 DEF Goto, Typed, Ledger, Adjusted, Fits
    <3>3. Typed'
      BY <2>1, <3>1 DEF Typed, Goto, Label
    <3>4. Inside' = {} /\ ~WasSet'
      BY <3>2 DEF Inside, WasSet
    <3>5. Adjusted' /\ Made'
      BY <3>1, <3>2 DEF Adjusted, Fits, Made
    <3>6. Bounded'
      BY <3>1, <3>4, FS_EmptySet, Finite DEF Bounded
    <3> QED
      BY <2>1, <3>3, <3>4, <3>5, <3>6 DEF Ledger, Books
  <2> QED
    BY <2>2, <2>3
<1>2. ASSUME NEW p \in Procs, Setval(p) PROVE Ledger'
  <2>1. /\ pc[p] = "setval" /\ Goto(p, "attach") /\ semval' = 1
        /\ shm' \in Procs \cup {NoOne} /\ \A q \in Procs : undo'[q] = 0
    BY <1>2 DEF Setval, Ledger
  <2>2. Typed'
    BY <1>2 DEF Setval, Goto, Ledger, Typed, Label
  <2>3. \A q \in Procs : pc'[q] \in {"crit", "sleep", "detach"} <=> pc[q] \in {"crit", "sleep", "detach"}
    BY <2>1 DEF Goto, Ledger, Typed
  <2>4. Lent' = {} /\ Owed' = {} /\ Adjusted' /\ Made'
    BY <2>1, <2>3 DEF Lent, Owed, Adjusted, Fits, Made
  <2>5. Books'
    BY <2>1, <2>4, FS_EmptySet DEF Books
  <2>6. Inside' = Inside /\ p \notin Inside
    BY <2>1 DEF Inside, Goto, Ledger, Typed
  <2>7. Bounded'
    BY <2>1, <2>6, NotAllInside, Finite DEF Bounded
  <2> QED
    BY <2>1, <2>2, <2>4, <2>5, <2>7 DEF Ledger
<1>3. ASSUME NEW p \in Procs, Attach(p) PROVE Ledger'
  <2>1. /\ pc[p] = "attach" /\ Goto(p, "lock") /\ undo[p] = 0
        /\ undo' = [undo EXCEPT ![p] = 0] /\ semval' = semval /\ shm' = shm
        /\ overlapped' = overlapped
    BY <1>0, <1>3 DEF Attach, Fits
  <2>2. /\ semval' \in Nat /\ semval' - semval >= undo[p] - 0 /\ "lock" \in Label
        /\ semval' - semval <= Counts(pc[p]) - Counts("lock") /\ Fits(0, "lock")
    BY <1>0, <2>1 DEF Counts, Fits, Label
  <2> QED
    BY <1>0, <2>1, <2>2, StepLedger
<1>4. ASSUME NEW p \in Procs, Lock(p) PROVE Ledger'
  <2>1. /\ pc[p] = "lock" /\ Goto(p, "crit") /\ undo[p] = 0
        /\ undo' = [undo EXCEPT ![p] = undo[p] + 1] /\ semval' = semval - 1 /\ semval > 0
        /\ shm' = shm /\ overlapped' = overlapped
    BY <1>0, <1>4 DEF Lock, Fits
  <2>2. /\ semval' \in Nat /\ semval' - semval >= undo[p] - 1 /\ "crit" \in Label
        /\ semval' - semval <= Counts(pc[p]) - Counts("crit") /\ Fits(1, "crit")
        /\ undo' = [undo EXCEPT ![p] = 1]
    BY <1>0, <2>1 DEF Counts, Fits, Label
  <2> QED
    BY <1>0, <2>1, <2>2, StepLedger
<1>5. ASSUME NEW p \in Procs, Write(p) PROVE Ledger'
  <2>1. /\ pc[p] = "crit" /\ Goto(p, "sleep") /\ undo' = undo /\ semval' = semval
        /\ shm' = p /\ overlapped' = overlapped
    BY <1>5 DEF Write
  <2>2. PICK v \in {-1, 0, 1} : v = undo[p] /\ v \in {0, 1}
    BY <1>0, <2>1 DEF Fits
  <2>3. /\ semval' \in Nat /\ semval' - semval >= undo[p] - v /\ "sleep" \in Label
        /\ semval' - semval <= Counts(pc[p]) - Counts("sleep") /\ Fits(v, "sleep")
        /\ undo' = [undo EXCEPT ![p] = v]
    BY <1>0, <2>1, <2>2 DEF Counts, Fits, Label
  <2>4. /\ WasSet /\ Ledger /\ semval \in Nat
        /\ shm' \in Procs \cup {NoOne} /\ overlapped' \in BOOLEAN
    BY <1>0, <2>1 DEF Ledger, Typed, WasSet
  <2> QED
    BY <2>1, <2>3, <2>4, StepLedger
<1>6. ASSUME NEW p \in Procs, Unlock(p) PROVE Ledger'
  <2>1. /\ pc[p] = "sleep" /\ Goto(p, "detach") /\ undo' = [undo EXCEPT ![p] = undo[p] - 1]
        /\ semval' = semval + 1 /\ shm' = shm /\ overlapped' = overlapped
    BY <1>6 DEF Unlock
  <2>2. PICK v \in {-1, 0, 1} : v = undo[p] - 1 /\ v \in {-1, 0}
    BY <1>0, <2>1 DEF Fits
  <2>3. /\ semval' \in Nat /\ semval' - semval >= undo[p] - v /\ "detach" \in Label
        /\ semval' - semval <= Counts(pc[p]) - Counts("detach") /\ Fits(v, "detach")
        /\ undo' = [undo EXCEPT ![p] = v]
    BY <1>0, <2>1, <2>2 DEF Counts, Fits, Label
  <2>4. /\ Goto(p, "detach") /\ WasSet /\ semval \in Nat
        /\ overlapped' \in BOOLEAN /\ shm' \in Procs \cup {NoOne}
    BY <1>0, <2>1
  <2> QED
    BY <2>3, <2>4, StepLedger
<1>7. ASSUME NEW p \in Procs, Exit(p) \/ Killed(p) PROVE Ledger'
  <2>1. /\ pc[p] # "semget" /\ Goto(p, "gone") /\ undo' = [undo EXCEPT ![p] = 0]
        /\ semval' = IF semval + undo[p] < 0 THEN 0 ELSE semval + undo[p]
        /\ shm' = shm /\ overlapped' = overlapped
    BY <1>7 DEF Exit, Killed, ApplyUndo
  <2>2. /\ semval' \in Nat /\ semval' - semval >= undo[p] - 0 /\ "gone" \in Label
        /\ semval' - semval <= Counts(pc[p]) - Counts("gone") /\ Fits(0, "gone")
    BY <1>0, <2>1 DEF Fits, Counts, Label
  <2> QED
    BY <1>0, <2>1, <2>2, StepLedger
<1>8. CASE UNCHANGED vars
  BY <1>8 DEF vars, Ledger, Typed, Adjusted, Fits, Made, Books, Bounded, WasSet, Lent, Owed, Inside
<1> QED
  BY <1>1, <1>2, <1>3, <1>4, <1>5, <1>6, <1>7, <1>8 DEF Next, Step

(* Whatever was killed where, and whatever SETVAL made the kernel forget: a  *)
(* process that calls lock_semaphore when nobody is inside gets the lock.    *)
THEOREM Free == Spec => []FreeWhenEmpty
<1>1. ASSUME Ledger, Inside = {}, NEW p \in Procs, pc[p] = "lock" PROVE semval > 0
  <2>1. \A q \in Procs : ~IsInside(q)
    BY <1>1 DEF Inside, IsInside
  <2>2. Lent = {}
    BY <1>1, <2>1 DEF Ledger, Adjusted, Fits, IsInside, Lent
  <2>3. semval + 0 - Cardinality(Owed) >= 1
    BY <1>1, <2>2, FS_EmptySet DEF Ledger, Books, WasSet
  <2> QED
    BY <1>1, <2>3, Finite DEF Ledger, Typed
<1>2. Ledger => FreeWhenEmpty
  BY <1>1 DEF FreeWhenEmpty
<1> QED
  BY InitLedger, NextLedger, <1>2, PTL DEF Spec

(* The value of the semaphore is never more than the number of processes,    *)
(* however starts overlap, and an adjustment never more than one.            *)
THEOREM Types == Spec => []TypeOK
<1>1. Ledger => semval \in -1 .. Cardinality(Procs)
  BY Finite DEF Ledger, Typed, Made, Bounded
<1>2. Ledger => undo \in [Procs -> -1 .. 1]
  <2>1. ASSUME Ledger, NEW p \in Procs PROVE undo[p] \in -1 .. 1
    BY <2>1 DEF Ledger, Adjusted, Fits
  <2> QED
    BY <2>1 DEF Ledger, Typed
<1>3. Ledger => TypeOK
  BY <1>1, <1>2 DEF Ledger, Typed, TypeOK
<1> QED
  BY InitLedger, NextLedger, <1>3, PTL DEF Spec
=============================================================================
