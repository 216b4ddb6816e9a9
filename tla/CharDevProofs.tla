---------------------------- MODULE CharDevProofs ----------------------------
(***************************************************************************)
(* Proofs about CharDev, for any number of threads and files and any size  *)
(* of the buffer.  The positions calls carry around while they do not hold *)
(* the mutex may be stale, but the data only grows: this is what keeps     *)
(* them inside it.  Until the device is mapped the driver implements       *)
(* AtomicFile, as every operation takes effect at the moment the mutex is  *)
(* released.                                                               *)
(***************************************************************************)
EXTENDS CharDev, RdTime, TLAPS

(* A call that copies stays within the buffer, a read within the data. *)
CopyInBounds ==
    \A t \in Threads : pc[t] = "copying" =>
        /\ Len(got[t]) <= call[t].count
        /\ call[t].pos + call[t].count <= Size
        /\ call[t].op = "read" => call[t].pos + call[t].count <= data_len

(* A position that was loaded from a file, or will be stored to it, is       *)
(* within the data.                                                          *)
LoadedInData ==
    \A t \in Threads : call[t].seq /\ call[t].err = "none" => call[t].pos <= data_len

(* Before a call holds the mutex nothing is copied and nothing failed. *)
NothingCopied == \A t \in Threads : pc[t] \in {"idle", "called"} =>
                    got[t] = <<>> /\ call[t].err = "none"

IInv == TypeOK /\ MutexHeld /\ NothingCopied /\ CopyInBounds /\ LoadedInData /\ PositionsInData

USE CharDevAssumption

LEMMA NoCallType == NoCall \in Call
BY DEF NoCall, Call

(* An ended call is a call. *)
LEMMA EndedType ==
    ASSUME NEW c \in Call, NEW p \in 0 .. Size, NEW e \in {"none", "ENOSPC"}
    PROVE  /\ Ended(c, p, e) \in Call
           /\ Ended(c, p, e).op = c.op /\ Ended(c, p, e).seq = c.seq
           /\ Ended(c, p, e).pos = p /\ Ended(c, p, e).err = e
<1>1. 0 \in 0 .. MaxCount /\ 0 \in Bytes
  OBVIOUS
<1> QED
  BY <1>1 DEF Call, Ended

(* Ending a call changes no other. *)
LEMMA EndCall ==
    ASSUME call \in [Threads -> Call], NEW t \in Threads,
           NEW p \in 0 .. Size, NEW e \in {"none", "ENOSPC"},
           call' = [call EXCEPT ![t] = Ended(call[t], p, e)]
    PROVE  /\ call' \in [Threads -> Call]
           /\ \A u \in Threads : u # t => call'[u] = call[u]
           /\ call'[t].op = call[t].op /\ call'[t].seq = call[t].seq
           /\ call'[t].pos = p /\ call'[t].err = e
<1>1. PICK c \in Call : c = call[t]
  OBVIOUS
<1>2. PICK d \in Call : d = Ended(c, p, e)
  BY EndedType
<1>3. d.op = c.op /\ d.seq = c.seq /\ d.pos = p /\ d.err = e
  BY <1>2 DEF Ended
<1>4. call' = [call EXCEPT ![t] = d]
  BY <1>1, <1>2
<1> QED
  BY <1>1, <1>3, <1>4

LEMMA InitInv == Init => IInv
<1> SUFFICES ASSUME Init PROVE IInv
    OBVIOUS
<1>1. TypeOK
  <2>1. got \in [Threads -> Seq(Bytes)]
    <3>1. <<>> \in Seq(Bytes)
      OBVIOUS
    <3> QED
      BY <3>1 DEF Init
  <2>2. call \in [Threads -> Call]
    BY NoCallType DEF Init
  <2>3. mapped \in BOOLEAN
    BY DEF Init
  <2> QED
    BY <2>1, <2>2, <2>3 DEF Init, TypeOK, Offsets
<1>2. MutexHeld /\ NothingCopied /\ CopyInBounds /\ PositionsInData
  BY DEF Init, NoCall, MutexHeld, NothingCopied, CopyInBounds, PositionsInData
<1>3. LoadedInData
  BY DEF Init, LoadedInData, NoCall
<1> QED
  BY <1>1, <1>2, <1>3 DEF IInv

LEMMA EnterInv ==
    ASSUME IInv, NEW t \in Threads, NEW f \in Files, NEW op \in {"read", "write"},
           NEW n \in 0 .. MaxCount, NEW v \in Bytes, Enter(t, f, op, n, v)
    PROVE  IInv'
<1> USE DEF Enter, Goto
<1>1. PICK seq \in BOOLEAN, p \in 0 .. Size :
        /\ seq => p = f_pos[f]
        /\ call' = [call EXCEPT ![t] = [op |-> op, file |-> f, seq |-> seq, pos |-> p,
                                        count |-> n, val |-> v, err |-> "none"]]
  OBVIOUS
<1>2. TypeOK'
  BY <1>1 DEF IInv, TypeOK, Call
<1>3. MutexHeld' /\ NothingCopied' /\ CopyInBounds' /\ PositionsInData'
  BY <1>1 DEF IInv, TypeOK, MutexHeld, NothingCopied, CopyInBounds, PositionsInData
<1>4. LoadedInData'
  BY <1>1 DEF IInv, TypeOK, LoadedInData, PositionsInData
<1> QED
  BY <1>2, <1>3, <1>4 DEF IInv

LEMMA LeaveInv ==
    ASSUME IInv, NEW t \in Threads, LeaveAtOnce(t)
    PROVE  IInv'
<1> USE DEF LeaveAtOnce, Goto
<1>1. /\ call' \in [Threads -> Call]
      /\ \A u \in Threads : u # t => call'[u] = call[u]
      /\ call'[t].seq = call[t].seq /\ call'[t].pos = call[t].pos
      /\ call'[t].err = "none" => call[t].op = "read"
  <2>1. PICK p \in 0 .. Size, e \in {"none", "ENOSPC"} :
           /\ p = call[t].pos /\ (e = "none" => call[t].op = "read")
           /\ call' = [call EXCEPT ![t] = Ended(call[t], p, e)]
    <3>1. call[t].pos \in 0 .. Size
      BY DEF IInv, TypeOK, Call
    <3> QED
      BY <3>1
  <2>2. call \in [Threads -> Call]
    BY DEF IInv, TypeOK
  <2> HIDE DEF LeaveAtOnce
  <2>3. /\ call' \in [Threads -> Call]
        /\ \A u \in Threads : u # t => call'[u] = call[u]
        /\ call'[t].op = call[t].op /\ call'[t].seq = call[t].seq
        /\ call'[t].pos = p /\ call'[t].err = e
    BY <2>1, <2>2, EndCall
  <2> QED
    BY <2>1, <2>3
<1>2. TypeOK'
  BY <1>1 DEF IInv, TypeOK
<1>3. MutexHeld' /\ NothingCopied' /\ CopyInBounds' /\ PositionsInData'
  BY <1>1 DEF IInv, TypeOK, MutexHeld, NothingCopied, CopyInBounds, PositionsInData
<1>4. LoadedInData'
  BY <1>1 DEF IInv, TypeOK, LoadedInData, NothingCopied
<1> QED
  BY <1>2, <1>3, <1>4 DEF IInv

LEMMA LockInv ==
    ASSUME IInv, NEW t \in Threads, Lock(t)
    PROVE  IInv'
<1> USE DEF Lock, Goto
<1> DEFINE n == Least(call[t].count, Room(t))
<1>1. call[t] \in Call /\ data_len \in 0 .. Size
  BY DEF IInv, TypeOK
<1>2. n \in 0 .. MaxCount /\ n <= Room(t)
  BY <1>1 DEF Least, Room, NothingToDo, Call
<1>3. TypeOK'
  <2>1. [call[t] EXCEPT !.count = n] \in Call
    BY <1>1, <1>2 DEF Call
  <2>2. call' = [call EXCEPT ![t] = [call[t] EXCEPT !.count = n]]
    OBVIOUS
  <2> HIDE DEF n
  <2>3. call' \in [Threads -> Call]
    BY <2>1, <2>2 DEF IInv, TypeOK
  <2> QED
    BY <2>3 DEF IInv, TypeOK
<1>4. MutexHeld' /\ NothingCopied' /\ PositionsInData'
  BY DEF IInv, TypeOK, MutexHeld, NothingCopied, PositionsInData
<1>5. CopyInBounds'
  <2>1. got[t] = <<>>
    BY DEF IInv, NothingCopied
  <2> QED
    BY <1>1, <1>2, <2>1 DEF IInv, TypeOK, CopyInBounds, Room, Call
<1>6. LoadedInData'
  BY DEF IInv, TypeOK, Call, LoadedInData
<1> QED
  BY <1>3, <1>4, <1>5, <1>6 DEF IInv

LEMMA CopyInv ==
    ASSUME IInv, NEW t \in Threads, Copy(t)
    PROVE  IInv'
<1> USE DEF Copy
<1> DEFINE b == call[t].pos + Len(got[t])
<1>1. /\ call[t] \in Call /\ got[t] \in Seq(Bytes) /\ got \in [Threads -> Seq(Bytes)]
      /\ mem \in [Offsets -> Bytes]
  BY DEF IInv, TypeOK
<1>2. b \in Offsets /\ Len(got[t]) \in Nat
  BY <1>1 DEF IInv, CopyInBounds, Call, Offsets
<1>3. PICK v \in Bytes : got' = [got EXCEPT ![t] = Append(got[t], v)]
  <2>1. mem[b] \in Bytes /\ call[t].val \in Bytes
    BY <1>1, <1>2 DEF Call
  <2>2. CASE call[t].op = "read"
    BY <2>1, <2>2
  <2>3. CASE call[t].op # "read"
    BY <2>1, <2>3
  <2> QED
    BY <2>2, <2>3
<1>4. mem' \in [Offsets -> Bytes]
  BY <1>1, <1>2 DEF Call
<1>5. /\ got' \in [Threads -> Seq(Bytes)]
      /\ Len(got'[t]) = Len(got[t]) + 1
      /\ \A u \in Threads : u # t => got'[u] = got[u]
  BY <1>1, <1>3
<1> UNCHANGED <<mutex, data_len, f_pos, mapped, pc, call, stable>>
  OBVIOUS
<1> HIDE DEF Copy
<1>6. TypeOK'
  BY <1>4, <1>5 DEF IInv, TypeOK, Offsets
<1>7. MutexHeld' /\ LoadedInData' /\ PositionsInData'
  BY DEF IInv, MutexHeld, LoadedInData, PositionsInData
<1>8. NothingCopied' /\ CopyInBounds'
  <2>1. pc[t] = "copying" /\ Len(got[t]) < call[t].count
    BY DEF Copy
  <2>2. Len(got'[t]) <= call[t].count
    BY <1>1, <1>2, <1>5, <2>1 DEF Call
  <2> QED
    BY <1>5, <2>1, <2>2 DEF IInv, NothingCopied, CopyInBounds
<1> QED
  BY <1>6, <1>7, <1>8 DEF IInv

LEMMA UnlockInv ==
    ASSUME IInv, NEW t \in Threads, Unlock(t)
    PROVE  IInv'
<1>1. /\ call \in [Threads -> Call] /\ call[t] \in Call /\ got[t] \in Seq(Bytes)
      /\ data_len \in 0 .. Size /\ pc[t] = "copying"
  BY DEF IInv, TypeOK, Unlock
<1>2. PICK p \in 0 .. Size :
        /\ p = call[t].pos + Len(got[t])
        /\ call[t].op = "read" => p <= data_len
  <2> DEFINE n == Len(got[t])
  <2>1. n \in Nat /\ call[t].pos \in Nat /\ call[t].count \in Nat
    BY <1>1 DEF Call
  <2>2. /\ n <= call[t].count /\ call[t].pos + call[t].count <= Size
        /\ call[t].op = "read" => call[t].pos + call[t].count <= data_len
    BY <1>1 DEF IInv, CopyInBounds
  <2> HIDE DEF n
  <2>3. call[t].pos + n \in 0 .. Size
    BY <2>1, <2>2
  <2>4. call[t].op = "read" => call[t].pos + n <= data_len
    BY <1>1, <2>1, <2>2
  <2> USE DEF n
  <2> QED
    BY <2>3, <2>4
<1>3. call' = [call EXCEPT ![t] = Ended(call[t], p, "none")]
  BY <1>2 DEF Unlock
<1>4. /\ call' \in [Threads -> Call]
      /\ \A u \in Threads : u # t => call'[u] = call[u]
      /\ call'[t].op = call[t].op /\ call'[t].seq = call[t].seq
      /\ call'[t].pos = p /\ call'[t].err = "none"
  BY <1>1, <1>3, EndCall
<1>5. data_len' \in 0 .. Size /\ data_len <= data_len' /\ p <= data_len'
  BY <1>1, <1>2 DEF Unlock, Least, Call
<1>6. /\ mutex = t /\ mutex' = NoThread /\ pc' = [pc EXCEPT ![t] = "returning"]
      /\ UNCHANGED <<f_pos, mapped, got>>
  BY <1>1 DEF IInv, MutexHeld, Unlock, Goto
<1>7. TypeOK'
  <2>1. mem' \in [Offsets -> Bytes]
    BY DEF IInv, TypeOK, Unlock
  <2> QED
    BY <1>4, <1>5, <1>6, <2>1 DEF IInv, TypeOK, Offsets
<1>8. MutexHeld' /\ NothingCopied'
  BY <1>4, <1>6 DEF IInv, TypeOK, MutexHeld, NothingCopied
<1>9. CopyInBounds'
  BY <1>1, <1>4, <1>5, <1>6 DEF IInv, TypeOK, CopyInBounds, MutexHeld
<1>10. LoadedInData'
  <2>1. \A u \in Threads : call[u].pos \in 0 .. Size
    BY <1>1 DEF Call
  <2>2. \A u \in Threads : call[u].pos <= data_len => call[u].pos <= data_len'
    BY <1>1, <1>5, <2>1
  <2> QED
    BY <1>2, <1>4, <1>5, <2>2 DEF IInv, LoadedInData
<1>11. PositionsInData'
  BY <1>1, <1>5, <1>6 DEF IInv, TypeOK, PositionsInData
<1> QED
  BY <1>7, <1>8, <1>9, <1>10, <1>11 DEF IInv

LEMMA ReturnInv ==
    ASSUME IInv, NEW t \in Threads, Return(t)
    PROVE  IInv'
<1> USE DEF Return, Goto
<1>1. call \in [Threads -> Call] /\ call' = [call EXCEPT ![t] = NoCall]
  BY DEF IInv, TypeOK
<1>2. /\ call' \in [Threads -> Call] /\ call'[t] = NoCall
      /\ \A u \in Threads : u # t => call'[u] = call[u]
  BY <1>1, NoCallType
<1>3. ~NoCall.seq /\ NoCall.err = "none"
  BY DEF NoCall
<1>4. \A f \in Files : f_pos'[f] = f_pos[f] \/
          (f_pos'[f] = call[t].pos /\ call[t].pos <= data_len)
  BY DEF IInv, TypeOK, LoadedInData
<1>5. f_pos' \in [Files -> 0 .. Size]
  BY DEF IInv, TypeOK, Call
<1>6. got' \in [Threads -> Seq(Bytes)]
  <2>1. <<>> \in Seq(Bytes)
    OBVIOUS
  <2> QED
    BY <2>1 DEF IInv, TypeOK
<1>7. TypeOK'
  BY <1>2, <1>5, <1>6 DEF IInv, TypeOK, Offsets
<1>8. MutexHeld' /\ NothingCopied' /\ CopyInBounds'
  BY <1>2, <1>3 DEF IInv, TypeOK, MutexHeld, NothingCopied, CopyInBounds
<1>9. LoadedInData' /\ PositionsInData'
  BY <1>2, <1>3, <1>4 DEF IInv, LoadedInData, PositionsInData
<1> QED
  BY <1>7, <1>8, <1>9 DEF IInv

(* Seeking, mapping and storing touch no call. *)
LEMMA LlseekInv ==
    ASSUME IInv, NEW f \in Files, NEW w \in {"SEEK_SET", "SEEK_CUR", "SEEK_END"},
           NEW o \in -Size .. Size, Llseek(f, w, o)
    PROVE  IInv'
<1>1. PICK p \in 0 .. data_len : f_pos' = [f_pos EXCEPT ![f] = p]
  BY DEF Llseek
<1>2. UNCHANGED <<mutex, data_len, mem, mapped, pc, call, got, stable>>
  BY DEF Llseek
<1>3. TypeOK' /\ PositionsInData'
  BY <1>1, <1>2 DEF IInv, TypeOK, PositionsInData, Offsets
<1>4. MutexHeld' /\ NothingCopied' /\ CopyInBounds' /\ LoadedInData'
  BY <1>2 DEF IInv, MutexHeld, NothingCopied, CopyInBounds, LoadedInData
<1> QED
  BY <1>3, <1>4 DEF IInv

LEMMA MapInv ==
    ASSUME IInv, Mmap \/ \E b \in Offsets, v \in Bytes : Store(b, v)
    PROVE  IInv'
<1>1. mem' \in [Offsets -> Bytes] /\ mapped' \in BOOLEAN
  BY DEF IInv, TypeOK, Mmap, Store
<1>2. UNCHANGED <<mutex, data_len, f_pos, pc, call, got>>
  BY DEF Mmap, Store
<1>3. TypeOK'
  BY <1>1, <1>2 DEF IInv, TypeOK, Offsets
<1>4. /\ MutexHeld' /\ NothingCopied' /\ CopyInBounds' /\ LoadedInData'
      /\ PositionsInData'
  BY <1>2 DEF IInv, MutexHeld, NothingCopied, CopyInBounds, LoadedInData, PositionsInData
<1> QED
  BY <1>3, <1>4 DEF IInv

LEMMA NextInv == IInv /\ [Next]_vars => IInv'
<1> SUFFICES ASSUME IInv, [Next]_vars PROVE IInv'
    OBVIOUS
<1>1. CASE \E t \in Threads : Driver(t)
  BY <1>1, LeaveInv, LockInv, CopyInv, UnlockInv, ReturnInv DEF Driver
<1>2. CASE \E t \in Threads, f \in Files, op \in {"read", "write"},
            n \in 0 .. MaxCount, v \in Bytes : Enter(t, f, op, n, v)
  BY <1>2, EnterInv
<1>3. CASE \E f \in Files, w \in {"SEEK_SET", "SEEK_CUR", "SEEK_END"},
            o \in -Size .. Size : Llseek(f, w, o)
  BY <1>3, LlseekInv
<1>4. CASE Mmap \/ \E b \in Offsets, v \in Bytes : Store(b, v)
  BY <1>4, MapInv
<1>5. CASE UNCHANGED vars
  <2>1. TypeOK'
    BY <1>5 DEF vars, IInv, TypeOK, Offsets
  <2>2. /\ MutexHeld' /\ NothingCopied' /\ CopyInBounds' /\ LoadedInData'
        /\ PositionsInData'
    BY <1>5 DEF vars, IInv, MutexHeld, NothingCopied, CopyInBounds, LoadedInData,
                PositionsInData
  <2> QED
    BY <2>1, <2>2 DEF IInv
<1> QED
  BY <1>1, <1>2, <1>3, <1>4, <1>5 DEF Next

LEMMA Inductive == Spec => []IInv
BY InitInv, NextInv, PTL DEF Spec

(* The driver's state keeps its type: no copy leaves the buffer. *)
THEOREM Types == Spec => []TypeOK
<1>1. IInv => TypeOK
  BY DEF IInv
<1> QED
  BY Inductive, <1>1, PTL

(* The mutex is held exactly while one call copies: every path releases it. *)
THEOREM MutexIsHeld == Spec => []MutexHeld
<1>1. IInv => MutexHeld
  BY DEF IInv
<1> QED
  BY Inductive, <1>1, PTL

(* A file's position never passes the data, stale as the position of a call  *)
(* on a shared file may be.                                                  *)
THEOREM PositionsStayInData == Spec => []PositionsInData
<1>1. IInv => PositionsInData
  BY DEF IInv
<1> QED
  BY Inductive, <1>1, PTL

-----------------------------------------------------------------------------
(* What the call that holds the mutex has done so far: its bytes are those   *)
(* of the stable contents, or in their place.                                *)
CopiedSoFar(t) ==
    /\ \A i \in 1 .. Len(got[t]) :
          got[t][i] = IF call[t].op = "read" THEN stable[call[t].pos + i - 1] ELSE call[t].val
    /\ \A b \in Offsets :
          mem[b] = IF /\ call[t].op = "write"
                      /\ call[t].pos <= b /\ b < call[t].pos + Len(got[t])
                   THEN call[t].val ELSE stable[b]

(* Until the device is mapped only that call makes mem differ from what it   *)
(* was when the mutex was last released.                                     *)
OneCopier ==
    /\ stable \in [Offsets -> Bytes]
    /\ ~mapped => /\ mutex = NoThread => mem = stable
                  /\ \A t \in Threads : pc[t] = "copying" => CopiedSoFar(t)

LEMMA OneCopierInit == Init => OneCopier
BY DEF Init, OneCopier, Offsets

(* Steps that change no contents and no copying call. *)
LEMMA OneCopierStays ==
    ASSUME IInv, OneCopier, UNCHANGED <<mem, stable, mapped>>,
           mutex' = NoThread => mutex = NoThread,
           \A t \in Threads : pc'[t] = "copying" =>
               pc[t] = "copying" /\ call'[t] = call[t] /\ got'[t] = got[t]
    PROVE  OneCopier'
<1>1. ASSUME ~mapped, NEW t \in Threads, pc'[t] = "copying" PROVE CopiedSoFar(t)'
  <2>1. CopiedSoFar(t) /\ call'[t] = call[t] /\ got'[t] = got[t]
    BY <1>1 DEF OneCopier
  <2> QED
    BY <2>1 DEF CopiedSoFar
<1> QED
  BY <1>1 DEF OneCopier, Offsets

LEMMA OneCopierEnter ==
    ASSUME IInv, OneCopier, NEW t \in Threads,
           \/ \E f \in Files, op \in {"read", "write"}, n \in 0 .. MaxCount, v \in Bytes :
                 Enter(t, f, op, n, v)
           \/ LeaveAtOnce(t) \/ Return(t)
    PROVE  OneCopier'
<1>1. PICK l \in {"called", "returning", "idle"} : Goto(t, l)
  BY DEF Enter, LeaveAtOnce, Return
<1>2. /\ UNCHANGED <<mem, stable, mapped, mutex>>
      /\ \A u \in Threads : u # t => call'[u] = call[u] /\ got'[u] = got[u]
  BY DEF Enter, LeaveAtOnce, Return, IInv, TypeOK
<1>3. \A u \in Threads : pc'[u] = "copying" => u # t /\ pc[u] = "copying"
  BY <1>1 DEF Goto, IInv, TypeOK
<1> QED
  BY <1>2, <1>3, OneCopierStays

(* The call that takes the mutex has copied nothing yet. *)
LEMMA OneCopierLock ==
    ASSUME IInv, OneCopier, NEW t \in Threads, Lock(t)
    PROVE  OneCopier'
<1>1. /\ UNCHANGED <<mem, stable, mapped, got>> /\ mutex = NoThread /\ mutex' = t
      /\ pc[t] = "called"
  BY DEF Lock
<1>2. got[t] = <<>> /\ \A u \in Threads : pc'[u] = "copying" => u = t
  BY <1>1 DEF Lock, Goto, IInv, TypeOK, NothingCopied, MutexHeld
<1>3. ASSUME ~mapped PROVE CopiedSoFar(t)'
  <2>1. mem = stable /\ stable \in [Offsets -> Bytes]
    BY <1>1, <1>3 DEF OneCopier
  <2>2. Len(got'[t]) = 0 /\ call'[t].pos \in 0 .. Size
    <3>1. call' \in [Threads -> Call]
      BY LockInv DEF IInv, TypeOK
    <3> QED
      BY <1>1, <1>2, <3>1 DEF Call
  <2>3. \A b \in Offsets : ~(call'[t].pos <= b /\ b < call'[t].pos + Len(got'[t]))
    BY <2>2 DEF Offsets
  <2> QED
    BY <1>1, <2>1, <2>2, <2>3 DEF CopiedSoFar, Offsets
<1> QED
  BY <1>1, <1>2, <1>3 DEF OneCopier, Offsets

(* One more byte. *)
LEMMA OneCopierCopy ==
    ASSUME IInv, OneCopier, NEW t \in Threads, Copy(t)
    PROVE  OneCopier'
<1> DEFINE n == Len(got[t])
           b == call[t].pos + n
<1>1. /\ call[t] \in Call /\ got \in [Threads -> Seq(Bytes)] /\ mem \in [Offsets -> Bytes]
      /\ pc[t] = "copying" /\ n < call[t].count /\ mutex = t
      /\ UNCHANGED <<mutex, mapped, pc, call, stable>>
      /\ stable \in [Offsets -> Bytes]
  BY DEF IInv, TypeOK, Copy, MutexHeld, OneCopier
<1>2. n \in Nat /\ call[t].pos \in Nat /\ call[t].count \in Nat /\ b \in Offsets
      /\ call[t].val \in Bytes /\ call[t].op \in {"read", "write"}
  BY <1>1 DEF IInv, CopyInBounds, Call, Offsets
<1>3. \A u \in Threads : pc[u] = "copying" => u = t
  BY <1>1 DEF IInv, MutexHeld
<1>4. ASSUME ~mapped PROVE CopiedSoFar(t)'
  <2>1. CopiedSoFar(t)
    BY <1>1, <1>4 DEF OneCopier
  <2>2. CASE call[t].op = "read"
    <3>1. mem' = mem /\ got' = [got EXCEPT ![t] = Append(got[t], mem[b])]
      BY <2>2 DEF Copy
    <3>2. mem[b] = stable[b] /\ mem[b] \in Bytes
      BY <1>1, <1>2, <2>1, <2>2 DEF CopiedSoFar
    <3>3. got'[t] = Append(got[t], stable[b])
      BY <1>1, <3>1, <3>2
    <3>4. /\ Len(got'[t]) = n + 1 /\ got'[t][n + 1] = stable[b]
          /\ \A i \in 1 .. n : got'[t][i] = got[t][i]
      BY <1>1, <1>2, <3>2, <3>3
    <3> HIDE DEF n
    <3>5. \A i \in 1 .. n + 1 : got'[t][i] = stable[call[t].pos + i - 1]
      <4>1. b = call[t].pos + (n + 1) - 1
        BY <1>2
      <4>2. \A i \in 1 .. n : got[t][i] = stable[call[t].pos + i - 1]
        BY <2>1, <2>2 DEF CopiedSoFar, n
      <4> QED
        BY <1>2, <3>4, <4>1, <4>2
    <3>6. \A x \in Offsets : mem'[x] = stable[x]
      BY <2>1, <2>2, <3>1 DEF CopiedSoFar
    <3> QED
      BY <1>1, <2>2, <3>4, <3>5, <3>6 DEF CopiedSoFar, Offsets
  <2>3. CASE call[t].op = "write"
    <3>1. /\ got' = [got EXCEPT ![t] = Append(got[t], call[t].val)]
          /\ mem' = [mem EXCEPT ![b] = call[t].val]
      BY <2>3 DEF Copy
    <3>2. /\ Len(got'[t]) = n + 1 /\ got'[t][n + 1] = call[t].val
          /\ \A i \in 1 .. n : got'[t][i] = got[t][i]
      BY <1>1, <1>2, <3>1
    <3> HIDE DEF n
    <3>3. \A i \in 1 .. n + 1 : got'[t][i] = call[t].val
      <4>1. \A i \in 1 .. n : got[t][i] = call[t].val
        BY <2>1, <2>3 DEF CopiedSoFar, n
      <4> QED
        BY <1>2, <3>2, <4>1
    <3>4. \A x \in Offsets :
             mem'[x] = IF call[t].pos <= x /\ x < call[t].pos + (n + 1)
                       THEN call[t].val ELSE stable[x]
      <4> SUFFICES ASSUME NEW x \in Offsets
                   PROVE  mem'[x] = IF call[t].pos <= x /\ x < call[t].pos + (n + 1)
                                    THEN call[t].val ELSE stable[x]
          OBVIOUS
      <4>1. mem[x] = IF call[t].pos <= x /\ x < call[t].pos + n
                     THEN call[t].val ELSE stable[x]
        BY <2>1, <2>3 DEF CopiedSoFar, n
      <4>2. mem'[x] = IF x = b THEN call[t].val ELSE mem[x]
        BY <1>1, <1>2, <3>1
      <4>3. x \in Int
        BY DEF Offsets
      <4> QED
        BY <1>2, <4>1, <4>2, <4>3
    <3> QED
      BY <1>1, <2>3, <3>2, <3>3, <3>4 DEF CopiedSoFar, Offsets
  <2> QED
    BY <1>2, <2>2, <2>3
<1> QED
  BY <1>1, <1>3, <1>4 DEF OneCopier, Offsets

(* Where the mutex is released mem becomes the stable contents.              *)
LEMMA OneCopierUnlock ==
    ASSUME IInv, OneCopier, NEW t \in Threads, Unlock(t)
    PROVE  OneCopier'
<1>1. /\ mapped' = mapped /\ stable' = IF mapped THEN stable ELSE mem'
      /\ mutex' = NoThread /\ mem' \in [Offsets -> Bytes]
  BY DEF Unlock, IInv, TypeOK
<1>2. \A u \in Threads : pc'[u] # "copying"
  BY DEF Unlock, Goto, IInv, TypeOK, MutexHeld
<1> QED
  BY <1>1, <1>2 DEF OneCopier, Offsets

LEMMA OneCopierNext == IInv /\ OneCopier /\ [Next]_vars => OneCopier'
<1> SUFFICES ASSUME IInv, OneCopier, [Next]_vars PROVE OneCopier'
    OBVIOUS
<1>1. CASE \E t \in Threads : Driver(t)
  BY <1>1, OneCopierEnter, OneCopierLock, OneCopierCopy, OneCopierUnlock DEF Driver
<1>2. CASE \E t \in Threads, f \in Files, op \in {"read", "write"},
            n \in 0 .. MaxCount, v \in Bytes : Enter(t, f, op, n, v)
  BY <1>2, OneCopierEnter
<1>3. CASE \E f \in Files, w \in {"SEEK_SET", "SEEK_CUR", "SEEK_END"},
            o \in -Size .. Size : Llseek(f, w, o)
  BY <1>3, OneCopierStays DEF Llseek
<1>4. CASE Mmap
  BY <1>4 DEF Mmap, OneCopier, Offsets
<1>5. CASE \E b \in Offsets, v \in Bytes : Store(b, v)
  BY <1>5 DEF Store, OneCopier, Offsets
<1>6. CASE UNCHANGED vars
  BY <1>6, OneCopierStays DEF vars
<1> QED
  BY <1>1, <1>2, <1>3, <1>4, <1>5, <1>6 DEF Next

-----------------------------------------------------------------------------
(* The results the clients of the abstract file see. *)

(* Steps that neither end a call nor leave the kernel give no result. *)
LEMMA SameResult ==
    ASSUME IInv, NEW t \in Threads, NEW l \in {"called", "copying"},
           pc[t] # "returning", Goto(t, l) \/ (pc' = pc /\ l = pc[t]),
           \A u \in Threads : u # t => call'[u] = call[u] /\ got'[u] = got[u]
    PROVE  Result' = Result
<1>1. pc' \in [Threads -> {"idle", "called", "copying", "returning"}]
      /\ pc'[t] = l /\ \A u \in Threads : u # t => pc'[u] = pc[u]
  BY DEF Goto, IInv, TypeOK
<1>2. \A u \in Threads : pc'[u] = "returning" <=> pc[u] = "returning"
  BY <1>1
<1>3. \A u \in Threads : pc[u] = "returning" => call'[u] = call[u] /\ got'[u] = got[u]
  OBVIOUS
<1> QED
  BY <1>2, <1>3 DEF Result

(* A call that ends gives its result. *)
LEMMA GivesResult ==
    ASSUME IInv, NEW t \in Threads, pc[t] # "returning", Goto(t, "returning"),
           \A u \in Threads : u # t => call'[u] = call[u], UNCHANGED got
    PROVE  /\ Result[t] = NoThread
           /\ Result' = [Result EXCEPT ![t] =
                 [op |-> call'[t].op, at |-> call'[t].pos - Len(got[t]), bytes |-> got[t]]]
<1>1. pc'[t] = "returning" /\ \A u \in Threads : u # t => pc'[u] = pc[u]
  BY DEF Goto, IInv, TypeOK
<1> QED
  BY <1>1 DEF Result

(* A read at or beyond the end reads nothing; a write without room is        *)
(* refused.                                                                  *)
LEMMA LeaveRefines ==
    ASSUME IInv, OneCopier, NEW t \in Threads, LeaveAtOnce(t)
    PROVE  \E at \in 0 .. Size : File!Refuse(t, at) \/ File!Read(t, at, 0)
<1>1. /\ pc[t] = "called" /\ Goto(t, "returning")
      /\ UNCHANGED <<data_len, mapped, got, stable>>
      /\ call' = [call EXCEPT ![t] =
             Ended(call[t], call[t].pos, IF call[t].op = "read" THEN "none" ELSE "ENOSPC")]
  BY DEF LeaveAtOnce
<1>2. call \in [Threads -> Call] /\ got[t] = <<>>
  BY <1>1 DEF IInv, TypeOK, NothingCopied
<1>3. PICK c \in Call : c = call[t]
  BY <1>2
<1>4. c.pos \in 0 .. Size /\ c.op \in {"read", "write"}
  BY DEF Call
<1>5. PICK e \in {"none", "ENOSPC"} : e = IF c.op = "read" THEN "none" ELSE "ENOSPC"
  OBVIOUS
<1>6. call' = [call EXCEPT ![t] = Ended(call[t], c.pos, e)]
  BY <1>1, <1>3, <1>5
<1>7. /\ \A u \in Threads : u # t => call'[u] = call[u]
      /\ call'[t].op = c.op /\ call'[t].pos = c.pos
  BY <1>2, <1>3, <1>4, <1>6, EndCall
<1>8. /\ Result[t] = NoThread
      /\ Result' = [Result EXCEPT ![t] =
            [op |-> call'[t].op, at |-> call'[t].pos - Len(got[t]), bytes |-> got[t]]]
  BY <1>1, <1>7, GivesResult
<1>9. call'[t].pos - Len(got[t]) = c.pos
  BY <1>2, <1>4, <1>7
<1>10. Result' = [Result EXCEPT ![t] = [op |-> c.op, at |-> c.pos, bytes |-> <<>>]]
  BY <1>2, <1>7, <1>8, <1>9
<1>11. CASE c.op = "read"
  <2>1. [i \in 1 .. 0 |-> stable[c.pos + i - 1]] = <<>>
    OBVIOUS
  <2>2. File!Read(t, c.pos, 0)
    BY <1>1, <1>8, <1>10, <1>11, <2>1 DEF File!Read, File!Finish
  <2> QED
    BY <1>4, <2>2
<1>12. CASE c.op = "write"
  <2>1. File!Refuse(t, c.pos)
    BY <1>1, <1>8, <1>10, <1>12 DEF File!Refuse, File!Finish
  <2> QED
    BY <1>4, <2>1
<1> QED
  BY <1>4, <1>11, <1>12

(* A call that copied reads, or writes, all of its bytes when it releases    *)
(* the mutex, as many as were copied before a fault; a write clears the      *)
(* rest.                                                                     *)
LEMMA UnlockRefines ==
    ASSUME IInv, OneCopier, ~mapped, NEW t \in Threads, Unlock(t)
    PROVE  \E at \in 0 .. Size, n \in 0 .. Size :
              \/ File!Read(t, at, n)
              \/ \E m \in 0 .. Size, v \in Bytes : File!Write(t, at, n, m, v)
<1>1. /\ pc[t] = "copying" /\ Goto(t, "returning")
      /\ UNCHANGED <<mapped, got>> /\ stable' = mem'
      /\ mem' = [b \in Offsets |-> IF b \in NotCopied(t) THEN 0 ELSE mem[b]]
      /\ call \in [Threads -> Call] /\ got[t] \in Seq(Bytes)
      /\ mem \in [Offsets -> Bytes] /\ stable \in [Offsets -> Bytes]
      /\ data_len \in 0 .. Size
  BY DEF Unlock, IInv, TypeOK, OneCopier
<1>2. PICK c \in Call : c = call[t]
  BY <1>1
<1>3. PICK n \in Nat : n = Len(got[t])
  BY <1>1
<1>4. /\ c.pos \in 0 .. Size /\ c.count \in Nat /\ c.val \in Bytes
      /\ c.op \in {"read", "write"}
  BY DEF Call
<1>5. /\ n <= c.count /\ c.pos + c.count <= Size
      /\ c.op = "read" => c.pos + c.count <= data_len
  BY <1>1, <1>2, <1>3 DEF IInv, CopyInBounds
<1>6. PICK p \in 0 .. Size : p = c.pos + n
  BY <1>4, <1>5
<1>7. n \in 0 .. Size /\ (c.op = "read" => p <= data_len) /\ p - n = c.pos
  <2>1. PICK k \in Nat, m \in Nat : k = c.pos /\ m = c.count
    BY <1>4
  <2>2. n <= m /\ k + m <= Size /\ (c.op = "read" => k + m <= data_len) /\ p = k + n
    BY <1>5, <1>6, <2>1
  <2>3. n <= Size /\ k + n <= k + m /\ p - n = k
    BY <2>1, <2>2
  <2>4. c.op = "read" => p <= data_len
    <3>1. PICK d \in Nat : d = data_len
      BY <1>1
    <3> QED
      BY <2>1, <2>2, <3>1
  <2> QED
    BY <1>3, <2>1, <2>3, <2>4
<1>8. /\ call' = [call EXCEPT ![t] = Ended(call[t], p, "none")]
      /\ data_len' = IF c.op = "write" /\ p > data_len THEN Least(p, Size) ELSE data_len
  BY <1>2, <1>3, <1>6 DEF Unlock
<1>9. /\ \A u \in Threads : u # t => call'[u] = call[u]
      /\ call'[t].op = c.op /\ call'[t].pos = p
  BY <1>1, <1>2, <1>8, EndCall
<1>10. /\ Result[t] = NoThread
       /\ Result' = [Result EXCEPT ![t] =
             [op |-> call'[t].op, at |-> call'[t].pos - Len(got[t]), bytes |-> got[t]]]
  BY <1>1, <1>9, GivesResult
<1>11. Result' = [Result EXCEPT ![t] = [op |-> c.op, at |-> c.pos, bytes |-> got[t]]]
  BY <1>3, <1>7, <1>9, <1>10
<1>12. /\ \A i \in 1 .. n : got[t][i] = IF c.op = "read" THEN stable[c.pos + i - 1] ELSE c.val
       /\ \A b \in Offsets : mem[b] = IF c.op = "write" /\ c.pos <= b /\ b < p
                                     THEN c.val ELSE stable[b]
  BY <1>1, <1>2, <1>3, <1>6 DEF OneCopier, CopiedSoFar
<1>13. got[t] = [i \in 1 .. n |-> got[t][i]]
  BY <1>1, <1>3
<1>14. NotCopied(t) = {b \in Offsets : c.op = "write" /\ b >= p /\ b < c.pos + c.count}
  BY <1>2, <1>3, <1>6 DEF NotCopied
<1>15. CASE c.op = "read"
  <2>1. got[t] = [i \in 1 .. n |-> stable[c.pos + i - 1]]
    BY <1>12, <1>13, <1>15
  <2>2. stable' = stable
    <3>1. \A b \in Offsets : mem'[b] = stable[b]
      BY <1>1, <1>12, <1>14, <1>15
    <3> QED
      BY <1>1, <3>1
  <2>3. data_len' = data_len
    BY <1>8, <1>15
  <2>4. File!Read(t, c.pos, n)
    BY <1>1, <1>6, <1>7, <1>10, <1>11, <1>15, <2>1, <2>2, <2>3 DEF File!Read, File!Finish
  <2> QED
    BY <1>4, <1>7, <2>4
<1>16. CASE c.op = "write"
  <2> DEFINE m == c.count - n
  <2>1. got[t] = [i \in 1 .. n |-> c.val]
    BY <1>12, <1>13, <1>16
  <2>2. m \in 0 .. Size /\ c.pos + n + m = c.pos + c.count /\ c.pos + n + m <= Size
        /\ c.pos + n <= c.pos + n + m
    BY <1>3, <1>4, <1>5
  <2> HIDE DEF m
  <2>3. stable' = [b \in 0 .. Size - 1 |->
                     IF b < c.pos \/ b >= c.pos + n + m THEN stable[b]
                     ELSE IF b < c.pos + n THEN c.val ELSE 0]
    <3>1. ASSUME NEW b \in Offsets
          PROVE  mem'[b] = IF b < c.pos \/ b >= c.pos + n + m THEN stable[b]
                           ELSE IF b < c.pos + n THEN c.val ELSE 0
      <4>1. mem'[b] = IF b >= c.pos + n /\ b < c.pos + n + m THEN 0
                      ELSE IF c.pos <= b /\ b < c.pos + n THEN c.val ELSE stable[b]
        BY <1>1, <1>6, <1>12, <1>14, <1>16, <2>2
      <4>2. b \in Int /\ c.pos \in Int /\ n \in Int /\ m \in Int
        BY <1>3, <1>4, <2>2 DEF Offsets
      <4> QED
        BY <2>2, <4>1, <4>2
    <3>2. mem' = [b \in Offsets |-> mem'[b]]
      BY <1>1
    <3>3. mem' = [b \in Offsets |-> IF b < c.pos \/ b >= c.pos + n + m THEN stable[b]
                                    ELSE IF b < c.pos + n THEN c.val ELSE 0]
      BY <3>1, <3>2, Zenon
    <3> QED
      BY <1>1, <3>3 DEF Offsets
  <2>4. data_len' = IF c.pos + n > data_len THEN c.pos + n ELSE data_len
    BY <1>1, <1>6, <1>8, <1>16 DEF Least
  <2>5. File!Finish(t, "write", c.pos, [i \in 1 .. n |-> c.val])
    <3>1. Result' = [Result EXCEPT ![t] = [op |-> "write", at |-> c.pos,
                                          bytes |-> [i \in 1 .. n |-> c.val]]]
      BY <1>11, <1>16, <2>1
    <3> QED
      BY <1>1, <1>10, <3>1 DEF File!Finish
  <2>6. File!Write(t, c.pos, n, m, c.val)
    BY <2>2, <2>3, <2>4, <2>5 DEF File!Write
  <2> QED
    BY <1>4, <1>7, <2>2, <2>6
<1> QED
  BY <1>4, <1>15, <1>16

LEMMA ReturnRefines ==
    ASSUME IInv, NEW t \in Threads, Return(t)
    PROVE  File!Return(t)
<1>1. /\ Goto(t, "idle") /\ UNCHANGED <<data_len, mapped, stable>>
      /\ \A u \in Threads : u # t => call'[u] = call[u] /\ got'[u] = got[u]
  BY DEF Return, IInv, TypeOK
<1>2. pc'[t] = "idle" /\ \A u \in Threads : u # t => pc'[u] = pc[u]
  BY <1>1 DEF Goto, IInv, TypeOK
<1>3. Result' = [Result EXCEPT ![t] = NoThread]
  BY <1>1, <1>2 DEF Result
<1> QED
  BY <1>1, <1>3 DEF File!Return

LEMMA StepRefines == IInv /\ OneCopier /\ [Next]_vars => [File!Next]_(File!vars)
<1> SUFFICES ASSUME IInv, OneCopier, [Next]_vars
             PROVE  File!Next \/ UNCHANGED <<stable, data_len, Result, mapped>>
    BY DEF File!vars
<1>1. ASSUME mapped' = TRUE PROVE File!Next
  <2>1. File!Map
    BY <1>1 DEF File!Map
  <2> QED
    BY <2>1 DEF File!Next
<1>2. ASSUME NEW t \in Threads, LeaveAtOnce(t) PROVE File!Next
  BY <1>2, LeaveRefines DEF File!Next
<1>3. ASSUME NEW t \in Threads, Lock(t) \/ Copy(t)
      PROVE  UNCHANGED <<stable, data_len, Result, mapped>>
  <2>1. UNCHANGED <<stable, data_len, mapped>>
    BY <1>3 DEF Lock, Copy
  <2>2. Result' = Result
    <3>1. CASE Lock(t)
      BY <3>1, SameResult DEF Lock, IInv, TypeOK
    <3>2. CASE Copy(t)
      BY <3>2, SameResult DEF Copy, IInv, TypeOK
    <3> QED
      BY <1>3, <3>1, <3>2
  <2> QED
    BY <2>1, <2>2
<1>4. ASSUME NEW t \in Threads, Unlock(t), ~mapped PROVE File!Next
  BY <1>4, UnlockRefines DEF File!Next
<1>5. ASSUME NEW t \in Threads, Return(t) PROVE File!Next
  BY <1>5, ReturnRefines DEF File!Next
<1>6. ASSUME NEW t \in Threads, NEW f \in Files, NEW op \in {"read", "write"},
             NEW n \in 0 .. MaxCount, NEW v \in Bytes, Enter(t, f, op, n, v)
      PROVE  UNCHANGED <<stable, data_len, Result, mapped>>
  <2>1. UNCHANGED <<stable, data_len, mapped, got>> /\ Goto(t, "called") /\ pc[t] = "idle"
        /\ \A u \in Threads : u # t => call'[u] = call[u]
    BY <1>6 DEF Enter, IInv, TypeOK
  <2>2. Result' = Result
    BY <2>1, SameResult
  <2> QED
    BY <2>1, <2>2
<1>7. CASE \E f \in Files, w \in {"SEEK_SET", "SEEK_CUR", "SEEK_END"},
            o \in -Size .. Size : Llseek(f, w, o)
  BY <1>7 DEF Llseek, Result
<1>8. CASE Mmap
  BY <1>1, <1>8 DEF Mmap
<1>9. CASE \E b \in Offsets, v \in Bytes : Store(b, v)
  BY <1>1, <1>9 DEF Store, IInv, TypeOK
<1>10. CASE UNCHANGED vars
  BY <1>10 DEF vars, Result
<1>11. ASSUME NEW t \in Threads, Unlock(t), mapped PROVE File!Next
  BY <1>1, <1>11 DEF Unlock, IInv, TypeOK
<1> QED
  BY <1>2, <1>3, <1>4, <1>5, <1>6, <1>7, <1>8, <1>9, <1>10, <1>11 DEF Next, Driver

(* Until a program maps it, the device is a file whose reads and writes each *)
(* happen at one instant, whatever threads call and though its bytes are     *)
(* copied one by one (chardev.c: dev_read, dev_write).  Where a copy faults, *)
(* the write is of fewer bytes, and clears the others in the same instant.   *)
THEOREM Implements == Spec => ImplementsFile
<1>1. Init => File!Init
  BY DEF Init, File!Init, Result, Offsets
<1>2. Spec => [](IInv /\ OneCopier)
  BY InitInv, NextInv, OneCopierInit, OneCopierNext, PTL DEF Spec
<1> QED
  BY <1>1, <1>2, StepRefines, PTL DEF ImplementsFile, File!Spec, Spec

-----------------------------------------------------------------------------
(* chardev_user.c times its calls with read_time_rv32.  The proofs about     *)
(* RdTime are here, for words of any size.  The invariant follows a read     *)
(* through its three instructions: whatever the low word was read at, it was *)
(* read at a time whose high word lies between the two high words read, so   *)
(* when these agree the pair is that time.                                   *)

USE WordAssumption

(* A read in progress: hi is not older than the read, and (once lo is read)  *)
(* lo belongs to a time between the read's beginning and now.                *)
InRead ==
    /\ step \in {"rdtimeh", "rdtime", "again", "bne"} => NotAfter(began[reading], now)
    /\ step = "rdtime" => began[reading][1] <= hi /\ hi <= now[1]
    /\ step = "again" => \E x \in 0 .. MaxHigh :
          /\ hi <= x
          /\ NotAfter(began[reading], <<x, lo>>) /\ NotAfter(<<x, lo>>, now)
    /\ step = "bne" => \E x \in 0 .. MaxHigh :
          /\ hi <= x /\ x <= tmp
          /\ NotAfter(began[reading], <<x, lo>>) /\ NotAfter(<<x, lo>>, now)

(* Between the two reads: the second begins after the first has returned. *)
SecondAfterFirst ==
    reading = 2 /\ step # "idle" => NotAfter(value[1], began[2])

PhaseOK == /\ step = "done" => reading = 2
           /\ NotTorn

ClockInv == ClockTypeOK /\ PhaseOK /\ InRead /\ SecondAfterFirst

(* The order of times is reflexive and transitive. *)
LEMMA Order ==
    ASSUME NEW a \in Time, NEW b \in Time, NEW c \in Time
    PROVE  /\ NotAfter(a, a)
           /\ NotAfter(a, b) /\ NotAfter(b, c) => NotAfter(a, c)
BY DEF NotAfter, Time

LEMMA ClockInitInv == ClockInit => ClockInv
BY DEF ClockInit, ClockInv, ClockTypeOK, PhaseOK, NotTorn, Returned, InRead, SecondAfterFirst, Zero, Time

LEMMA ClockNextInv == ClockInv /\ [ClockNext]_clockVars => ClockInv'
<1> SUFFICES ASSUME ClockInv, [ClockNext]_clockVars PROVE ClockInv'
    OBVIOUS
<1> USE DEF ClockInv, PhaseOK
<1>1. CASE Pass
  <2>1. now' \in Time /\ NotAfter(now, now')
    BY <1>1 DEF Pass
  <2>2. ClockTypeOK'
    BY <1>1, <2>1 DEF Pass, ClockTypeOK
  <2>3. PhaseOK'
    BY <1>1, <2>1, Order DEF Pass, ClockTypeOK, NotTorn, Returned
  <2>4. InRead'
    <3>1. now[1] <= now'[1]
      BY <2>1 DEF NotAfter, Time, ClockTypeOK
    <3>2. \A x \in 0 .. MaxHigh : <<x, lo>> \in Time
      BY DEF ClockTypeOK, Time
    <3>3. \A t \in Time : NotAfter(t, now) => NotAfter(t, now')
      BY <2>1, Order DEF ClockTypeOK
    <3>4. began[reading] \in Time
      BY DEF ClockTypeOK
    <3> QED
      BY <1>1, <2>1, <3>1, <3>2, <3>3, <3>4 DEF Pass, InRead, ClockTypeOK, Time
  <2>5. SecondAfterFirst'
    BY <1>1 DEF Pass, SecondAfterFirst
  <2> QED
    BY <2>2, <2>3, <2>4, <2>5
<1>2. CASE Begin
  <2>1. NotAfter(now, now)
    BY Order DEF ClockTypeOK
  <2>2. ClockTypeOK' /\ PhaseOK' /\ InRead'
    BY <1>2, <2>1 DEF Begin, ClockTypeOK, NotTorn, Returned, InRead
  <2>3. SecondAfterFirst'
    BY <1>2 DEF Begin, ClockTypeOK, NotTorn, Returned, SecondAfterFirst
  <2> QED
    BY <2>2, <2>3
<1>3. CASE ReadHigh
  BY <1>3 DEF ReadHigh, ClockTypeOK, Time, NotTorn, Returned, InRead, SecondAfterFirst, NotAfter
<1>4. CASE ReadLow
  <2>1. InRead'
    <3>1. now = <<now[1], now[2]>> /\ now[1] \in 0 .. MaxHigh
      BY DEF ClockTypeOK, Time
    <3>2. NotAfter(now, now)
      BY Order DEF ClockTypeOK
    <3> QED
      BY <1>4, <3>1, <3>2 DEF ReadLow, InRead, ClockTypeOK
  <2>2. ClockTypeOK' /\ PhaseOK' /\ SecondAfterFirst'
    BY <1>4 DEF ReadLow, ClockTypeOK, Time, NotTorn, Returned, SecondAfterFirst
  <2> QED
    BY <2>1, <2>2
<1>5. CASE ReadHighAgain
  <2>1. PICK x \in 0 .. MaxHigh :
          /\ hi <= x
          /\ NotAfter(began[reading], <<x, lo>>) /\ NotAfter(<<x, lo>>, now)
    BY <1>5 DEF ReadHighAgain, InRead
  <2>2. x <= now[1]
    BY <2>1 DEF NotAfter, ClockTypeOK, Time
  <2>3. InRead'
    BY <1>5, <2>1, <2>2 DEF ReadHighAgain, InRead
  <2>4. ClockTypeOK' /\ PhaseOK' /\ SecondAfterFirst'
    BY <1>5 DEF ReadHighAgain, ClockTypeOK, Time, NotTorn, Returned, SecondAfterFirst
  <2> QED
    BY <2>3, <2>4
<1>6. CASE Retry
  BY <1>6 DEF Retry, ClockTypeOK, NotTorn, Returned, InRead, SecondAfterFirst
<1>7. CASE Finish
  <2>1. PICK x \in 0 .. MaxHigh :
          /\ hi <= x /\ x <= tmp
          /\ NotAfter(began[reading], <<x, lo>>) /\ NotAfter(<<x, lo>>, now)
    BY <1>7 DEF Finish, InRead
  <2>2. x = hi
    BY <1>7, <2>1 DEF Finish, ClockTypeOK
  <2>3. ClockTypeOK'
    BY <1>7 DEF Finish, ClockTypeOK, Time
  <2>4. PhaseOK'
    BY <1>7, <2>1, <2>2 DEF Finish, ClockTypeOK, NotTorn, Returned
  <2>5. InRead' /\ SecondAfterFirst'
    BY <1>7 DEF Finish, InRead, SecondAfterFirst, ClockTypeOK
  <2> QED
    BY <2>3, <2>4, <2>5
<1>8. CASE Again
  BY <1>8 DEF Again, ClockTypeOK, NotTorn, Returned, InRead, SecondAfterFirst
<1>9. CASE UNCHANGED clockVars
  BY <1>9 DEF clockVars, ClockTypeOK, NotTorn, Returned, InRead, SecondAfterFirst
<1> QED
  BY <1>1, <1>2, <1>3, <1>4, <1>5, <1>6, <1>7, <1>8, <1>9 DEF ClockNext, Reader

(* A value read in two halves is always one time the counter had during the  *)
(* read.                                                                     *)
THEOREM ReadsAreTimes == ClockSpec => []NotTorn
<1>1. ClockInv => NotTorn
  BY DEF ClockInv, PhaseOK
<1> QED
  BY ClockInitInv, ClockNextInv, <1>1, PTL DEF ClockSpec

(* measure_access_time's end is never before its start. *)
THEOREM DurationsArePositive == ClockSpec => []EndAfterStart
<1>1. ClockInv => EndAfterStart
  BY DEF ClockInv, PhaseOK, EndAfterStart, SecondAfterFirst, NotTorn, Returned
<1> QED
  BY ClockInitInv, ClockNextInv, <1>1, PTL DEF ClockSpec
=============================================================================
