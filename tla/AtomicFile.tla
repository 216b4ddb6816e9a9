------------------------------ MODULE AtomicFile ------------------------------
(***************************************************************************)
(* What src/modules/chardev.c promises to programs that use read and write *)
(* only: a file of at most Size bytes whose reads and writes each happen   *)
(* at one instant.  CharDev is shown to implement it.                      *)
(***************************************************************************)
EXTENDS Integers, Sequences

CONSTANTS Clients,  \* those who make calls
          Size,     \* the capacity of the file
          Bytes,    \* the values of a byte
          NoResult  \* a client between calls

VARIABLES mem,      \* the bytes, those beyond len included
          len,      \* the length of the file
          result,   \* what each client's call did and it has not seen yet
          mapped    \* somebody has mapped the device

vars == <<mem, len, result, mapped>>

Init == /\ mem = [b \in 0 .. Size - 1 |-> 0]
        /\ len = 0
        /\ result = [c \in Clients |-> NoResult]
        /\ mapped = FALSE

Finish(c, op, at, bytes) ==
    /\ result[c] = NoResult /\ UNCHANGED mapped
    /\ result' = [result EXCEPT ![c] = [op |-> op, at |-> at, bytes |-> bytes]]

(* A read gives what is there at this instant, up to the end of the file. *)
Read(c, at, n) ==
    /\ n = 0 \/ at + n <= len
    /\ Finish(c, "read", at, [i \in 1 .. n |-> mem[at + i - 1]])
    /\ UNCHANGED <<mem, len>>

(* A write of n bytes v replaces bytes, and the file grows to the end of     *)
(* what it wrote.  When its source cannot be read to the end, the m bytes    *)
(* it did not come to are cleared: data that was there is lost, though the   *)
(* result does not name it, and the file does not grow over them.            *)
Write(c, at, n, m, v) ==
    /\ at + n + m <= Size
    /\ Finish(c, "write", at, [i \in 1 .. n |-> v])
    /\ mem' = [b \in 0 .. Size - 1 |->
                  IF b < at \/ b >= at + n + m THEN mem[b] ELSE IF b < at + n THEN v ELSE 0]
    /\ len' = IF at + n > len THEN at + n ELSE len

(* A write may be refused. *)
Refuse(c, at) == Finish(c, "write", at, <<>>) /\ UNCHANGED <<mem, len>>

Return(c) == /\ result' = [result EXCEPT ![c] = NoResult]
             /\ UNCHANGED <<mem, len, mapped>>

(* A program that maps the device stores what it wants when it wants: from  *)
(* then on nothing is promised.                                             *)
Map == mapped' = TRUE

Next == \/ Map
        \/ \E c \in Clients :
           \/ Return(c)
           \/ \E at \in 0 .. Size : 
                \/ Refuse(c, at)
                \/ \E n \in 0 .. Size : 
                     \/ Read(c, at, n)
                     \/ \E m \in 0 .. Size, v \in Bytes : Write(c, at, n, m, v)

Spec == Init /\ [][Next]_vars
=============================================================================
