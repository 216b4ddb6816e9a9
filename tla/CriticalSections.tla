--------------------------- MODULE CriticalSections ---------------------------
(***************************************************************************)
(* CriticalSection for a family of locks: each admits at most one process, *)
(* whatever happens with the others.  PosixShm implements it, as the       *)
(* semaphores of several inits exist at once.                              *)
(***************************************************************************)
CONSTANTS Procs,    \* the processes
          Locks     \* the locks

VARIABLE inside     \* the processes inside the section of each lock

Init == inside = [l \in Locks |-> {}]

Enter(p, l) == inside[l] = {} /\ inside' = [inside EXCEPT ![l] = {p}]

Leave(p, l) == p \in inside[l] /\ inside' = [inside EXCEPT ![l] = @ \ {p}]

Next == \E p \in Procs, l \in Locks : Enter(p, l) \/ Leave(p, l)

Spec == Init /\ [][Next]_inside
=============================================================================
