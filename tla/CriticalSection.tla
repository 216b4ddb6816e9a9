--------------------------- MODULE CriticalSection ---------------------------
(***************************************************************************)
(* What every lock of this repository promises: at most one process is     *)
(* inside the section it guards.  SysvSem, SemStartup and PrioInversion    *)
(* are shown to implement this module, PosixShm CriticalSections; how a    *)
(* process leaves (unlock, exit, being killed) is their business.          *)
(***************************************************************************)
CONSTANT Procs      \* the processes that use the lock

VARIABLE inside     \* the processes inside the section

Init == inside = {}

Enter(p) == inside = {} /\ inside' = {p}

Leave(p) == p \in inside /\ inside' = inside \ {p}

Next == \E p \in Procs : Enter(p) \/ Leave(p)

Spec == Init /\ [][Next]_inside
=============================================================================
