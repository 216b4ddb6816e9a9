------------------------------- MODULE CharDev -------------------------------
(***************************************************************************)
(* src/modules/chardev.c: a character device over one page of kernel       *)
(* memory, read, written, seeked and mapped by several threads.            *)
(*                                                                         *)
(* The driver's functions run under dev_mutex.  What surrounds them is the *)
(* kernel's: read(2) and write(2) load the file position before the call   *)
(* and store it after it, outside the mutex; pread and pwrite give a       *)
(* position of their own; the copy to or from user space goes byte by byte *)
(* and may fault; stores through a mapping need no lock.                   *)
(***************************************************************************)
EXTENDS Integers, Sequences

CONSTANTS
    Threads,    \* the threads that make calls
    NoThread,   \* not a thread: nobody holds dev_mutex
    Files,      \* the open file descriptions
    Size,       \* BUFFER_SIZE
    Bytes,      \* the values of a byte
    MaxCount,   \* bound: the largest count a call asks for
    Mappable    \* TRUE: programs map the device and store through the mapping

ASSUME CharDevAssumption == /\ NoThread \notin Threads
                            /\ Files # {}
                            /\ Size \in Nat \ {0}
                            /\ 0 \in Bytes
                            /\ MaxCount \in Nat
                            /\ Mappable \in BOOLEAN

VARIABLES
    mutex,      \* the holder of dev_mutex
    data_len,   \* the length of the data
    mem,        \* kernel_buffer
    f_pos,      \* the position of each open file
    mapped,     \* does a mapping exist
    pc,         \* "idle", "called", "copying" or "returning"
    call,       \* the call of each thread: kind, file, whether it uses the
                \* file's position, position, count, byte to write, result
    got,        \* the bytes each thread has copied in its call
    stable      \* mem when the mutex was last released, as long as nobody has
                \* mapped it (history)

vars == <<mutex, data_len, mem, f_pos, mapped, pc, call, got, stable>>

Offsets == 0 .. Size - 1
Call == [op : {"read", "write"}, file : Files, seq : BOOLEAN,
         pos : 0 .. Size, count : 0 .. MaxCount, val : Bytes, err : {"none", "ENOSPC"}]

TypeOK == /\ mutex \in Threads \cup {NoThread}
          /\ data_len \in 0 .. Size
          /\ mem \in [Offsets -> Bytes]
          /\ f_pos \in [Files -> 0 .. Size]
          /\ mapped \in BOOLEAN
          /\ pc \in [Threads -> {"idle", "called", "copying", "returning"}]
          /\ call \in [Threads -> Call]
          /\ got \in [Threads -> Seq(Bytes)]

NoCall == [op |-> "read", file |-> CHOOSE f \in Files : TRUE, seq |-> FALSE,
           pos |-> 0, count |-> 0, val |-> 0, err |-> "none"]

(* mychar_init clears the page; a file is opened at position 0. *)
Init == /\ mutex = NoThread
        /\ data_len = 0
        /\ mem = [b \in Offsets |-> 0]
        /\ f_pos = [f \in Files |-> 0]
        /\ mapped = FALSE
        /\ pc = [t \in Threads |-> "idle"]
        /\ call = [t \in Threads |-> NoCall]
        /\ got = [t \in Threads |-> <<>>]
        /\ stable = mem

Goto(t, l) == pc' = [pc EXCEPT ![t] = l]
Least(a, b) == IF a < b THEN a ELSE b

-----------------------------------------------------------------------------
(* Entering the kernel: read and write load f_pos; pread and pwrite bring a *)
(* position.                                                                *)
Enter(t, f, op, n, v) ==
    /\ pc[t] = "idle"
    /\ \E seq \in BOOLEAN, p \in 0 .. Size :
          /\ seq => p = f_pos[f]
          /\ op = "read" => v = 0
          /\ call' = [call EXCEPT ![t] = [op |-> op, file |-> f, seq |-> seq, pos |-> p,
                                          count |-> n, val |-> v, err |-> "none"]]
    /\ Goto(t, "called")
    /\ UNCHANGED <<mutex, data_len, mem, f_pos, mapped, got, stable>>

(* What there is to read, or room to write, at the call's position. *)
Room(t) == IF call[t].op = "read" THEN data_len - call[t].pos ELSE Size - call[t].pos

(* A read at or beyond the end, a write without room or of nothing. *)
NothingToDo(t) ==
    IF call[t].op = "read" THEN call[t].pos >= data_len
    ELSE call[t].pos >= Size \/ call[t].count = 0

(* A call that only has to return: its new position and its error. *)
Ended(c, p, e) == [op |-> c.op, file |-> c.file, seq |-> c.seq,
                   pos |-> p, count |-> 0, val |-> 0, err |-> e]

LeaveHolding(t) ==              \* mutant: the early return keeps the mutex
    /\ pc[t] = "called" /\ mutex = NoThread
    /\ NothingToDo(t)
    /\ mutex' = t
    /\ call' = [call EXCEPT ![t] =
          Ended(@, @.pos, IF @.op = "read" THEN "none" ELSE "ENOSPC")]
    /\ Goto(t, "returning")
    /\ UNCHANGED <<data_len, mem, f_pos, mapped, got, stable>>

(* Such a read gives 0, such a write -ENOSPC; both release the mutex they   *)
(* have just taken.                                                         *)
LeaveAtOnce(t) ==
    /\ pc[t] = "called" /\ mutex = NoThread
    /\ NothingToDo(t)
    /\ call' = [call EXCEPT ![t] =
          Ended(@, @.pos, IF @.op = "read" THEN "none" ELSE "ENOSPC")]
    /\ Goto(t, "returning")
    /\ UNCHANGED <<mutex, data_len, mem, f_pos, mapped, got, stable>>

LockNotClipped(t) ==            \* mutant: the count is not cut to the room
    /\ pc[t] = "called" /\ mutex = NoThread
    /\ ~NothingToDo(t)
    /\ mutex' = t
    /\ Goto(t, "copying")
    /\ UNCHANGED <<data_len, mem, f_pos, mapped, call, got, stable>>

LockNotTaken(t) ==              \* mutant: no mutex_lock
    /\ pc[t] = "called"
    /\ ~NothingToDo(t)
    /\ call' = [call EXCEPT ![t].count = Least(@, Room(t))]
    /\ Goto(t, "copying")
    /\ UNCHANGED <<mutex, data_len, mem, f_pos, mapped, got, stable>>

Lock(t) ==
    /\ pc[t] = "called" /\ mutex = NoThread
    /\ ~NothingToDo(t)
    /\ mutex' = t
    /\ call' = [call EXCEPT ![t].count = Least(@, Room(t))]
    /\ Goto(t, "copying")
    /\ UNCHANGED <<data_len, mem, f_pos, mapped, got, stable>>

(* One byte of copy_to_user or copy_from_user. *)
Copy(t) ==
    /\ pc[t] = "copying" /\ Len(got[t]) < call[t].count
    /\ LET b == call[t].pos + Len(got[t]) IN
       IF call[t].op = "read"
       THEN got' = [got EXCEPT ![t] = Append(@, mem[b])] /\ UNCHANGED mem
       ELSE /\ got' = [got EXCEPT ![t] = Append(@, call[t].val)]
            /\ mem' = [mem EXCEPT ![b] = call[t].val]
    /\ UNCHANGED <<mutex, data_len, f_pos, mapped, pc, call, stable>>

(* The bytes a write was asked to write and, because its copy faulted, did  *)
(* not: copy_from_user clears them.                                         *)
NotCopied(t) == {b \in Offsets : /\ call[t].op = "write"
                                 /\ b >= call[t].pos + Len(got[t])
                                 /\ b < call[t].pos + call[t].count}

(* The copy is complete, or it faulted: the position moves by what was      *)
(* copied, the data grows to it, the mutex is released.                     *)
Unlock(t) ==
    /\ pc[t] = "copying"
    /\ mutex' = NoThread
    /\ LET p == call[t].pos + Len(got[t]) IN
       /\ call' = [call EXCEPT ![t] = Ended(@, p, "none")]
       /\ data_len' = IF call[t].op = "write" /\ p > data_len
                      THEN Least(p, Size) ELSE data_len
    /\ mem' = [b \in Offsets |-> IF b \in NotCopied(t) THEN 0 ELSE mem[b]]
    /\ stable' = IF mapped THEN stable ELSE mem'
    /\ Goto(t, "returning")
    /\ UNCHANGED <<f_pos, mapped, got>>

(* Leaving the kernel: read and write store the position they moved, unless *)
(* the driver returned an error.                                            *)
Return(t) ==
    /\ pc[t] = "returning"
    /\ f_pos' = IF call[t].seq /\ call[t].err = "none"
                THEN [f_pos EXCEPT ![call[t].file] = call[t].pos] ELSE f_pos
    /\ Goto(t, "idle")
    /\ call' = [call EXCEPT ![t] = NoCall]
    /\ got' = [got EXCEPT ![t] = <<>>]
    /\ UNCHANGED <<mutex, data_len, mem, mapped, stable>>

LlseekInBuffer(f, whence, offset) ==    \* mutant: bounded by the page only
    /\ mutex = NoThread
    /\ LET base == CASE whence = "SEEK_SET" -> 0
                     [] whence = "SEEK_CUR" -> f_pos[f]
                     [] whence = "SEEK_END" -> data_len
       IN /\ base + offset \in 0 .. Size
          /\ f_pos' = [f_pos EXCEPT ![f] = base + offset]
    /\ UNCHANGED <<mutex, data_len, mem, mapped, pc, call, got, stable>>

(* dev_llseek: fixed_size_llseek refuses a position outside 0 .. data_len.  *)
Llseek(f, whence, offset) ==
    /\ mutex = NoThread
    /\ LET base == CASE whence = "SEEK_SET" -> 0
                     [] whence = "SEEK_CUR" -> f_pos[f]
                     [] whence = "SEEK_END" -> data_len
       IN /\ base + offset \in 0 .. data_len
          /\ f_pos' = [f_pos EXCEPT ![f] = base + offset]
    /\ UNCHANGED <<mutex, data_len, mem, mapped, pc, call, got, stable>>

(* remap_mm: a mapping of the page at offset 0 (others are refused). *)
Mmap ==
    /\ Mappable /\ ~mapped /\ mapped' = TRUE
    /\ stable' = [b \in Offsets |-> 0]
    /\ UNCHANGED <<mutex, data_len, mem, f_pos, pc, call, got>>

(* A store through the mapping: no lock, and data_len stays. *)
Store(b, v) ==
    /\ mapped
    /\ mem' = [mem EXCEPT ![b] = v]
    /\ UNCHANGED <<mutex, data_len, f_pos, mapped, pc, call, got, stable>>

Driver(t) == LeaveAtOnce(t) \/ Lock(t) \/ Copy(t) \/ Unlock(t) \/ Return(t)

Next == \/ \E t \in Threads : Driver(t)
        \/ \E t \in Threads, f \in Files, op \in {"read", "write"},
              n \in 0 .. MaxCount, v \in Bytes : Enter(t, f, op, n, v)
        \/ \E f \in Files, w \in {"SEEK_SET", "SEEK_CUR", "SEEK_END"},
              o \in -Size .. Size : Llseek(f, w, o)
        \/ Mmap
        \/ \E b \in Offsets, v \in Bytes : Store(b, v)

(* A thread in a call goes on; the kernel's mutex hands over to waiters, so *)
(* nobody is passed over for ever.                                          *)
Fairness == \A t \in Threads :
    WF_vars(Copy(t) \/ Unlock(t) \/ Return(t)) /\ SF_vars(LeaveAtOnce(t) \/ Lock(t))

Spec == Init /\ [][Next]_vars /\ Fairness

-----------------------------------------------------------------------------
(* No file is positioned beyond the data, whatever threads share it, however *)
(* stale the position a call loaded: a seek to the current position never    *)
(* fails.                                                                    *)
PositionsInData == \A f \in Files : f_pos[f] <= data_len

(* Only one thread is past the lock. *)
MutexHeld == \A t \in Threads : pc[t] = "copying" <=> mutex = t

(* Every call returns. *)
CallsReturn == \A t \in Threads : pc[t] # "idle" ~> pc[t] = "idle"

(* Until it is mapped the device is a file with atomic reads and writes:     *)
(* each call takes effect when it releases the mutex, a write whose copy     *)
(* faulted clears, in the same instant, what it could not copy.              *)
Result == [t \in Threads |->
             IF pc[t] = "returning"
             THEN [op |-> call[t].op, at |-> call[t].pos - Len(got[t]), bytes |-> got[t]]
             ELSE NoThread]
File == INSTANCE AtomicFile WITH Clients <- Threads, NoResult <- NoThread,
                                 mem <- stable, len <- data_len, result <- Result
ImplementsFile == File!Spec
=============================================================================
