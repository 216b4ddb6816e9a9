--------------------------- MODULE SemStartupProofs ---------------------------
(***************************************************************************)
(* Proofs about SemStartup, for any number of tries and of launches: none  *)
(* waits for a dead holder and under run_poll.sh none gives up; in the     *)
(* builds and launches that are in order no program locks a semaphore that *)
(* is half made, and logger and health implement one critical section.     *)
(*                                                                         *)
(* What a killed run leaves in /dev/shm may be half made or locked.  The   *)
(* argument is that it cannot be reached any more once a program may open  *)
(* a name (Fresh): the logger, or run_poll_fifo.sh, has removed it.        *)
(***************************************************************************)
EXTENDS SemStartup, SequenceTheorems, TLAPS

Makes(p, o) == pc[p] \in {"trunc", "init"} /\ sem[p] = o

(* An object is ready, or the process that made it is about to finish it. *)
Sound(o) == (obj[o].sized /\ obj[o].init) \/ \E p \in Procs : Makes(p, o)

(* The name is not that of an earlier launch. *)
Fresh == script # "idle" /\ (Fifo \/ pc["logger"] # "unlink")

(* Where the processes can be, as far as the script and the build decide. *)
Places ==
    /\ \A p \in Procs : pc[p] \in {"trunc", "init"} \cup InLoop => sem[p] # None
    /\ \A p \in Procs : pc[p] = "off" => sem[p] = None
    /\ \A p \in Procs : pc[p] \in {"wait", "inside"} => p \in Users
    /\ \A p \in Procs : IF PiSem THEN pc[p] # "semopen"
                                 ELSE pc[p] \notin {"excl", "trunc", "init", "openold"}
    /\ \A c \in Clients : pc[c] # "unlink"
    /\ \A c \in Clients : pc[c] # "exited" => tries[c] < MaxTries
    /\ pc["logger"] # "usleep"
    /\ pc["logger"] = "openold" => name # None

Script ==
    /\ script = "idle" => \A p \in Procs : pc[p] = "off"
    /\ script # "idle" => round > 0 /\ pc["logger"] # "off"
    /\ script = "sleep" => ~Fifo /\ \A c \in Clients : pc[c] = "off"
    /\ ~Fifo /\ script = "up" => name # None /\ pc["logger"] \in InLoop
    /\ ~Fifo => /\ \A p \in Procs : pc[p] \notin {"usleep", "exited"}
                /\ \A c \in Clients : pc[c] \notin {"trunc", "init"}

(* What a process can lock is ready, or its maker is at it. *)
Sized == /\ \A p \in Procs : pc[p] = "init" => obj[sem[p]].sized
         /\ \A p \in Procs : pc[p] \in InLoop => Sound(sem[p])
         /\ Fresh /\ name # None => Sound(name)

(* Nobody has mapped the object, nor will: it is what a killed run left. *)
Dead(o) == (\A p \in Procs : sem[p] # o) /\ (Fresh => name # o)

(* A holder is a process inside, or the object is dead like it.  In order,   *)
(* who is inside also holds what it locked.                                  *)
Held == /\ InOrder => \A p \in Procs :
               pc[p] = "inside" => obj[sem[p]].holder = <<p, round>>
        /\ \A o \in 1 .. Len(obj) : LET h == obj[o].holder IN
              \/ h = NobodyHolds
              \/ \E p \in Users : h = <<p, round>> /\ pc[p] = "inside" /\ sem[p] = o
              \/ Dead(o)

(* Launched in order, or in the plain build, only the logger makes an object. *)
OneName == InOrder =>
    /\ \A p \in Procs : pc[p] \in {"trunc", "init"} \cup InLoop => sem[p] = name
    /\ pc["logger"] \in {"semopen", "excl"} => name = None
    /\ Fifo /\ pc["logger"] = "unlink" => name = None

IInv == TypeOK /\ Places /\ Script /\ Sized /\ Held /\ OneName
-----------------------------------------------------------------------------
LEMMA InitInv == Init => IInv
<1> SUFFICES ASSUME Init PROVE IInv
    OBVIOUS
<1> USE DEF None
<1>1. /\ obj = <<>> /\ name = 0 /\ script = "idle" /\ round = 0
      /\ PiSem \in BOOLEAN /\ Fifo \in BOOLEAN
  BY DEF Init
<1>2. <<>> \in Seq(Object) /\ Len(<<>>) = 0
  BY EmptySeq
<1>3. /\ \A p \in Procs : pc[p] = "off" /\ sem[p] = 0
      /\ pc \in [Procs -> {"off"}] /\ sem \in [Procs -> {0}]
      /\ tries \in [Clients -> {0}]
  BY DEF Init
<1>4. MaxTries \in Nat /\ MaxTries > 0 /\ MaxRound \in Nat
  BY StartAssumption
<1>5. TypeOK
  BY <1>1, <1>2, <1>3, <1>4 DEF TypeOK, Label
<1>6. Places /\ Script
  BY <1>1, <1>3, <1>4 DEF Places, Script, InLoop, Starting, Procs, Clients
<1>7. Sized /\ Held /\ OneName
  BY <1>1, <1>2, <1>3 DEF Sized, Held, OneName, Fresh, InLoop, Procs, Clients
<1> QED
  BY <1>5, <1>6, <1>7 DEF IInv

-----------------------------------------------------------------------------
(* What a step may make of the objects. *)

LEMMA Made ==
    ASSUME TypeOK, NEW b \in BOOLEAN, obj' = NewObject(b)
    PROVE  /\ obj' \in Seq(Object)
           /\ Len(obj') = Len(obj) + 1
           /\ obj'[Len(obj')] = [sized |-> b, init |-> b, holder |-> NobodyHolds]
           /\ \A o \in 1 .. Len(obj) : obj'[o] = obj[o]
<1>1. [sized |-> b, init |-> b, holder |-> NobodyHolds] \in Object
  BY DEF Object
<1> QED
  BY <1>1, AppendProperties DEF TypeOK, NewObject

LEMMA Changed ==
    ASSUME TypeOK, NEW o \in 1 .. Len(obj), NEW e \in Object,
           obj' = [obj EXCEPT ![o] = e]
    PROVE  /\ obj' \in Seq(Object)
           /\ Len(obj') = Len(obj)
           /\ obj'[o] = e
           /\ \A i \in 1 .. Len(obj) : i # o => obj'[i] = obj[i]
BY ExceptSeq DEF TypeOK

(* The object of a process that has got that far. *)
LEMMA HasObject ==
    ASSUME TypeOK, Places, NEW p \in Procs, pc[p] \in {"trunc", "init"} \cup InLoop
    PROVE  sem[p] \in 1 .. Len(obj) /\ obj[sem[p]] \in Object
<1>1. sem[p] \in 1 .. Len(obj)
  BY DEF TypeOK, Places, None
<1> QED
  BY <1>1, ElementOfSeq DEF TypeOK

(* A process that opens a name finds one of this launch. *)
LEMMA OpensFresh ==
    ASSUME IInv, NEW p \in Procs, pc[p] \in {"semopen", "excl", "openold"}
    PROVE  Fresh
<1> USE DEF IInv
<1>1. script # "idle"
  BY DEF Script
<1>2. ~Fifo => pc["logger"] # "unlink"
  BY <1>1 DEF Script, TypeOK, InLoop, Procs, Clients
<1> QED
  BY <1>1, <1>2 DEF Fresh

(* Launched in order, the maker is through before anybody is in its loop. *)
LEMMA ReadyInOrder ==
    ASSUME IInv, InOrder, NEW p \in Procs, pc[p] \in InLoop
    PROVE  \A q \in Procs : pc[q] \notin {"trunc", "init"}
<1> USE DEF IInv
<1>1. CASE ~PiSem
  BY <1>1 DEF Places
<1>2. CASE ~Fifo
  <2>1. pc["logger"] \in InLoop
    <3>1. CASE p = "logger"
      BY <3>1
    <3>2. CASE p # "logger"
      BY <1>2, <3>2 DEF Script, TypeOK, InLoop, Procs, Clients
    <3> QED
      BY <3>1, <3>2
  <2> QED
    BY <1>2, <2>1 DEF Script, InLoop, Procs, Clients
<1> QED
  BY <1>1, <1>2 DEF InOrder
-----------------------------------------------------------------------------
(* The shell. *)

LEMMA LaunchInv == IInv /\ (LaunchLogger \/ LaunchAll) => IInv'
<1> SUFFICES ASSUME IInv, LaunchLogger \/ LaunchAll PROVE IInv'
    OBVIOUS
<1> USE DEF IInv
<1>1. /\ UNCHANGED <<PiSem, Fifo, obj, sem, tries>>
      /\ script = "idle" /\ script' # "idle" /\ round' = round + 1 /\ round \in Nat
      /\ pc'["logger"] = "unlink"
  BY DEF LaunchLogger, LaunchAll, Goto, TypeOK, setup, Procs
<1>2. \A p \in Procs : pc[p] = "off" /\ sem[p] = None
  BY <1>1 DEF Script, Places
<1>3. \/ ~Fifo /\ script' = "sleep" /\ name' = name /\ pc' = [pc EXCEPT !["logger"] = "unlink"]
      \/ Fifo /\ script' = "up" /\ name' = None
         /\ pc' = [p \in Procs |-> IF p = "logger" THEN "unlink" ELSE OpenEntry]
  BY DEF LaunchLogger, LaunchAll, Goto
<1>4. \A p \in Procs : pc'[p] \in {"off", "unlink", OpenEntry} /\ (pc'[p] = "unlink" <=> p = "logger")
  BY <1>2, <1>3 DEF TypeOK, OpenEntry, Procs, Clients
<1>5. OpenEntry = IF PiSem THEN "excl" ELSE "semopen"
  BY DEF OpenEntry
<1>6. ~Fifo => \A c \in Clients : pc'[c] = "off"
  BY <1>2, <1>3 DEF TypeOK, Procs, Clients
<1>7. TypeOK'
  <2>1. round' \in 0 .. MaxRound
    BY <1>1, StartAssumption DEF LaunchLogger, LaunchAll
  <2>2. pc' \in [Procs -> Label]
    BY <1>3, <1>5 DEF TypeOK, Label
  <2>3. name' \in {None} \cup (1 .. Len(obj))
    BY <1>3 DEF TypeOK
  <2> QED
    BY <1>1, <1>3, <2>1, <2>2, <2>3 DEF TypeOK
<1>8. Places'
  BY <1>1, <1>2, <1>4, <1>5 DEF Places, InLoop, Procs, Clients
<1>9. Script'
  BY <1>1, <1>3, <1>4, <1>5, <1>6 DEF Script, Procs, Clients
<1>10. Sized'
  BY <1>1, <1>3, <1>4, <1>5 DEF Sized, Fresh, InLoop, None
<1>11. Held'
  <2>1. \A o \in 1 .. Len(obj) : Dead(o)'
    BY <1>1, <1>2, <1>3, <1>4 DEF Dead, Fresh, None
  <2> QED
    BY <1>1, <1>4, <1>5, <2>1 DEF Held
<1>12. OneName'
  BY <1>1, <1>3, <1>4, <1>5 DEF OneName, InOrder, InLoop, Procs
<1> QED
  BY <1>7, <1>8, <1>9, <1>10, <1>11, <1>12

LEMMA LaunchClientsInv == IInv /\ LaunchClients => IInv'
<1> SUFFICES ASSUME IInv, LaunchClients PROVE IInv'
    OBVIOUS
<1> USE DEF IInv
<1>1. /\ UNCHANGED <<PiSem, Fifo, name, obj, sem, tries, round>>
      /\ script = "sleep" /\ script' = "up" /\ pc["logger"] \notin Starting
      /\ pc' = [pc EXCEPT !["health"] = OpenEntry, !["payment"] = OpenEntry]
  BY DEF LaunchClients, setup
<1>2. ~Fifo /\ pc["logger"] \in InLoop /\ \A c \in Clients : pc[c] = "off"
  BY <1>1 DEF Script, Places, TypeOK, Label, Starting, InLoop, Procs
<1>3. pc'["logger"] = pc["logger"] /\ \A c \in Clients : pc'[c] = OpenEntry
  BY <1>1 DEF TypeOK, Procs, Clients
<1>4. OpenEntry = IF PiSem THEN "excl" ELSE "semopen"
  BY DEF OpenEntry
<1>5. TypeOK'
  <2>1. pc' \in [Procs -> Label]
    BY <1>1, <1>4 DEF TypeOK, Label
  <2> QED
    BY <1>1, <2>1 DEF TypeOK
<1>6. name # None
  BY <1>2 DEF OneName, Places, InOrder, Procs
<1>7. \A p \in Procs : \/ p = "logger" /\ pc'[p] = pc[p] /\ pc[p] \in InLoop
                       \/ p # "logger" /\ pc[p] = "off" /\ pc'[p] = OpenEntry
  BY <1>2, <1>3 DEF Procs, Clients
<1>8. \A p \in Procs, l \in Label \ {"off", "excl", "semopen"} : pc'[p] = l <=> pc[p] = l
  BY <1>2, <1>4, <1>7 DEF Label, InLoop
<1>9. Places'
  BY <1>1, <1>2, <1>3, <1>4, <1>7 DEF Places, InLoop, Procs, Clients
<1>10. Script'
  <2>1. \A p \in Procs : pc'[p] \notin {"usleep", "exited"}
    BY <1>2, <1>4, <1>7 DEF InLoop
  <2>2. \A c \in Clients : pc'[c] \notin {"trunc", "init"}
    BY <1>3, <1>4
  <2>3. pc'["logger"] \in InLoop /\ round' > 0
    BY <1>1, <1>2, <1>3 DEF Script
  <2> QED
    BY <1>1, <1>6, <2>1, <2>2, <2>3 DEF Script, InLoop
<1>11. Sized'
  <2>1. Fresh
    BY <1>1, <1>2 DEF Fresh, InLoop
  <2>2. \A o : Sound(o)' <=> Sound(o)
    BY <1>1, <1>8 DEF Sound, Makes, Label
  <2> QED
    BY <1>1, <1>8, <2>1, <2>2 DEF Sized, InLoop, Label
<1>12. Held'
  <2>1. \A o : Dead(o) => Dead(o)'
    BY <1>1, <1>2 DEF Dead, Fresh, InLoop
  <2> QED
    BY <1>1, <1>8, <2>1 DEF Held, InOrder, Label, Users, Procs, Clients
<1>13. OneName'
  BY <1>1, <1>2, <1>3, <1>8 DEF OneName, InOrder, InLoop, Label
<1> QED
  BY <1>5, <1>9, <1>10, <1>11, <1>12, <1>13

LEMMA KillAllInv == IInv /\ KillAll => IInv'
<1> SUFFICES ASSUME IInv, KillAll PROVE IInv'
    OBVIOUS
<1> USE DEF IInv
<1>1. /\ UNCHANGED <<PiSem, Fifo, name, obj, round>> /\ script' = "idle"
      /\ pc' = [p \in Procs |-> "off"] /\ sem' = [p \in Procs |-> None]
      /\ tries' = [c \in Clients |-> 0]
  BY DEF KillAll, setup
<1>2. TypeOK'
  BY <1>1, StartAssumption DEF TypeOK, Label
<1>3. Places' /\ Script'
  BY <1>1, StartAssumption DEF Places, Script, InLoop, Starting, Procs, Clients
<1>4. Sized' /\ OneName'
  BY <1>1 DEF Sized, Fresh, OneName, InLoop, Procs
<1>5. Held'
  BY <1>1 DEF Held, Dead, Fresh, None
<1> QED
  BY <1>2, <1>3, <1>4, <1>5
-----------------------------------------------------------------------------
(* Opening or making the semaphore. *)

(* Whoever finds a name maps its object, which is one of this launch. *)
LEMMA OpenedInv ==
    ASSUME IInv, NEW p \in Procs, pc[p] \in {"semopen", "openold"}, name # None,
           Opened(p, name), UNCHANGED <<setup, name, obj, tries, script, round>>
    PROVE  IInv'
<1> USE DEF IInv
<1>1. /\ UNCHANGED <<PiSem, Fifo, name, obj, tries, script, round>>
      /\ pc' = [pc EXCEPT ![p] = "loop"] /\ sem' = [sem EXCEPT ![p] = name]
  BY DEF Opened, Goto, setup
<1>2. Fresh
  BY OpensFresh
<1>3. \A q \in Procs : q # p => pc'[q] = pc[q] /\ sem'[q] = sem[q]
  BY <1>1 DEF TypeOK
<1>4. pc'[p] = "loop" /\ sem'[p] = name
  BY <1>1 DEF TypeOK
<1>5. TypeOK'
  <2>1. pc' \in [Procs -> Label]
    BY <1>1 DEF TypeOK, Label
  <2>2. sem' \in [Procs -> {None} \cup (1 .. Len(obj))]
    BY <1>1 DEF TypeOK
  <2> QED
    BY <1>1, <2>1, <2>2 DEF TypeOK
<1>6. Places'
  <2>1. \A q \in Procs : q \in Clients => (pc'[q] # "exited" => tries'[q] < MaxTries)
    BY <1>1, <1>3, <1>4 DEF Places, TypeOK
  <2> QED
    BY <1>1, <1>3, <1>4, <2>1 DEF Places, InLoop, Procs, Clients
<1>7. Script'
  BY <1>1, <1>3, <1>4 DEF Script, InLoop, Starting, Procs, Clients
<1>8. Fresh'
  BY <1>1, <1>2, <1>3, <1>4 DEF Fresh, Procs
<1>9. Sized'
  <2>1. \A o : Sound(o) => Sound(o)'
    BY <1>1, <1>3 DEF Sound, Makes
  <2> QED
    BY <1>1, <1>2, <1>3, <1>4, <2>1 DEF Sized, InLoop
<1>10. Held'
  <2>1. \A o \in 1 .. Len(obj) : Dead(o) => Dead(o)'
    BY <1>1, <1>2, <1>3, <1>4 DEF Dead
  <2>2. \A q \in Procs : pc'[q] = "inside" <=> pc[q] = "inside"
    BY <1>3, <1>4
  <2>3. \A q \in Users : pc[q] = "inside" => sem'[q] = sem[q]
    BY <1>3 DEF Users, Procs, Clients
  <2> QED
    BY <1>1, <1>3, <2>1, <2>2, <2>3 DEF Held, InOrder, Users, Procs, Clients
<1>11. OneName'
  BY <1>1, <1>3, <1>4 DEF OneName, InOrder, InLoop, Procs
<1> QED
  BY <1>5, <1>6, <1>7, <1>9, <1>10, <1>11

(* A client that finds no name tries again or gives up. *)
LEMMA OpenFailedInv ==
    ASSUME IInv, NEW p \in Procs, pc[p] \in {"semopen", "openold"}, name = None,
           ~(p = "logger" /\ pc[p] = "semopen"),
           OpenFailed(p), UNCHANGED <<setup, name, obj, sem, script, round>>
    PROVE  IInv'
<1> USE DEF IInv
<1>1. p \in Clients /\ Fifo
  <2>1. p \in Clients
    BY DEF Places, Procs, Clients
  <2>2. script = "up" \/ Fifo
    BY <2>1 DEF Script, TypeOK
  <2> QED
    BY <2>1, <2>2 DEF Script
<1>2. tries[p] \in Nat /\ tries[p] < MaxTries
  BY <1>1 DEF Places, TypeOK
<1> DEFINE l == IF tries[p] + 1 = MaxTries THEN "exited" ELSE "usleep"
<1>3. /\ UNCHANGED <<PiSem, Fifo, name, obj, sem, script, round>>
      /\ pc' = [pc EXCEPT ![p] = l] /\ tries' = [tries EXCEPT ![p] = tries[p] + 1]
  BY DEF OpenFailed, Goto, setup
<1>4. l \in {"exited", "usleep"} /\ (l # "exited" => tries[p] + 1 # MaxTries)
  OBVIOUS
<1> HIDE DEF l
<1>5. \A q \in Procs : q # p => pc'[q] = pc[q]
  BY <1>3 DEF TypeOK
<1>6. pc'[p] = l
  BY <1>3 DEF TypeOK
<1>7. tries' \in [Clients -> 0 .. MaxTries] /\ tries'[p] = tries[p] + 1
      /\ \A c \in Clients : c # p => tries'[c] = tries[c]
  BY <1>1, <1>2, <1>3, StartAssumption DEF TypeOK
<1>8. TypeOK'
  <2>1. pc' \in [Procs -> Label]
    BY <1>3, <1>4 DEF TypeOK, Label
  <2> QED
    BY <1>3, <1>7, <2>1 DEF TypeOK
<1>9. Places'
  <2>1. \A c \in Clients : pc'[c] # "exited" => tries'[c] < MaxTries
    BY <1>2, <1>4, <1>5, <1>6, <1>7, StartAssumption DEF Places, Procs
  <2>2. pc'["logger"] = pc["logger"]
    BY <1>1, <1>5 DEF Procs, Clients
  <2> QED
    BY <1>3, <1>4, <1>5, <1>6, <2>1, <2>2 DEF Places, InLoop, Procs, Clients
<1>10. pc'["logger"] = pc["logger"]
  BY <1>1, <1>5 DEF Procs, Clients
<1>11. Script'
  BY <1>1, <1>3, <1>4, <1>5, <1>6, <1>10 DEF Script, Starting, Procs, Clients
<1>12. \A q \in Procs, k \in {"trunc", "init"} \cup InLoop : pc'[q] = k <=> pc[q] = k
  BY <1>4, <1>5, <1>6 DEF InLoop
<1>13. Sized' /\ OneName'
  BY <1>3, <1>10, <1>12 DEF Sized, Sound, Makes, Fresh, OneName, InOrder, InLoop
<1>14. Held'
  <2>1. \A o : Dead(o) => Dead(o)'
    BY <1>3, <1>10 DEF Dead, Fresh
  <2> QED
    BY <1>3, <1>12, <2>1 DEF Held, InOrder, Users, Procs, Clients, InLoop
<1> QED
  BY <1>8, <1>9, <1>11, <1>13, <1>14

(* Whoever makes the object is the first to map it. *)
LEMMA MakesInv ==
    ASSUME IInv, NEW p \in Procs, NEW b \in BOOLEAN, NEW l \in {"loop", "trunc"},
           name = None,
           \/ (pc[p] = "semopen" /\ p = "logger" /\ b = TRUE /\ l = "loop")
           \/ (pc[p] = "excl" /\ b = FALSE /\ l = "trunc"),
           obj' = NewObject(b), name' = Len(obj'),
           sem' = [sem EXCEPT ![p] = Len(obj')], pc' = [pc EXCEPT ![p] = l],
           UNCHANGED <<setup, tries, script, round>>
    PROVE  IInv'
<1> USE DEF IInv
<1>0. PICK new \in Nat : new = Len(obj) + 1
  BY LenProperties DEF TypeOK
<1>1. UNCHANGED <<PiSem, Fifo, tries, script, round>>
  BY DEF setup
<1>2. /\ obj' \in Seq(Object) /\ Len(obj') = new
      /\ obj'[new] = [sized |-> b, init |-> b, holder |-> NobodyHolds]
      /\ \A o \in 1 .. Len(obj) : obj'[o] = obj[o]
  BY <1>0, Made
<1>3. /\ Len(obj) \in Nat /\ new # 0 /\ new \notin 1 .. Len(obj)
      /\ 1 .. new = (1 .. Len(obj)) \cup {new}
      /\ \A q \in Procs : sem[q] # new
  BY <1>0, LenProperties DEF TypeOK, None
<1>4. name' = new /\ sem' = [sem EXCEPT ![p] = new]
  BY <1>2
<1>5. Fresh
  BY OpensFresh
<1>6. \A q \in Procs : q # p => pc'[q] = pc[q] /\ sem'[q] = sem[q]
  BY <1>4 DEF TypeOK
<1>7. pc'[p] = l /\ sem'[p] = new
  BY <1>4 DEF TypeOK
<1>8. TypeOK'
  <2>1. pc' \in [Procs -> Label]
    BY DEF TypeOK, Label
  <2>2. sem' \in [Procs -> {None} \cup (1 .. new)]
    BY <1>3, <1>4 DEF TypeOK
  <2>3. name' \in {None} \cup (1 .. new)
    BY <1>3, <1>4
  <2> QED
    BY <1>1, <1>2, <2>1, <2>2, <2>3 DEF TypeOK
<1>9. PiSem <=> l = "trunc"
  BY DEF Places
<1>10. Places'
  <2>1. \A c \in Clients : pc'[c] # "exited" => tries'[c] < MaxTries
    BY <1>1, <1>6, <1>7 DEF Places, Procs
  <2> QED
    BY <1>1, <1>3, <1>4, <1>6, <1>7, <1>9, <2>1 DEF Places, InLoop, Procs, Clients, None
<1>11. Script'
  <2>1. ~Fifo => script # "up" /\ p = "logger"
    BY DEF Script, TypeOK, Procs, Clients
  <2> QED
    BY <1>1, <1>6, <1>7, <2>1 DEF Script, Procs, Clients
<1>12. \A q \in Procs : pc[q] \in {"trunc", "init"} \cup InLoop =>
           q # p /\ sem[q] \in 1 .. Len(obj)
  BY HasObject DEF InLoop
<1>13. Sized'
  <2>1. \A o \in 1 .. Len(obj) : Sound(o) => Sound(o)'
    BY <1>2, <1>6, <1>12 DEF Sound, Makes
  <2>2. Sound(new)'
    <3>1. CASE b = TRUE
      BY <1>2, <3>1 DEF Sound
    <3>2. CASE b = FALSE
      BY <1>7, <3>2 DEF Sound, Makes
    <3> QED
      BY <3>1, <3>2
  <2>3. \A q \in Procs : pc'[q] = "init" => obj'[sem'[q]].sized
    BY <1>2, <1>6, <1>7, <1>12 DEF Sized
  <2>4. \A q \in Procs : pc'[q] \in InLoop => q = p \/ Sound(sem[q])'
    BY <1>6, <1>12, <2>1 DEF Sized
  <2> QED
    BY <1>4, <1>6, <1>7, <2>2, <2>3, <2>4 DEF Sized
<1>14. Held'
  <2>1. \A o \in 1 .. Len(obj) : Dead(o) => Dead(o)'
    BY <1>3, <1>4, <1>6, <1>7 DEF Dead
  <2>2. \A q \in Procs : pc'[q] = "inside" <=> pc[q] = "inside"
    BY <1>6, <1>7
  <2>3. \A q \in Procs : pc[q] = "inside" => sem'[q] = sem[q] /\ sem[q] \in 1 .. Len(obj)
    BY <1>6, <1>12 DEF InLoop
  <2>4. \A q \in Users : q \in Procs
    BY DEF Users, Procs, Clients
  <2>5. obj'[new].holder = NobodyHolds
    BY <1>2
  <2>6. InOrder' => \A q \in Procs :
            pc'[q] = "inside" => obj'[sem'[q]].holder = <<q, round'>>
    BY <1>1, <1>2, <2>2, <2>3 DEF Held, InOrder
  <2>7. ASSUME NEW o \in 1 .. Len(obj), ~Dead(o), obj[o].holder # NobodyHolds
        PROVE  \E q \in Users : obj'[o].holder = <<q, round'>> /\ pc'[q] = "inside" /\ sem'[q] = o
    BY <1>1, <1>2, <2>2, <2>3, <2>4, <2>7 DEF Held
  <2>8. \A o \in 1 .. Len(obj) : obj'[o] = obj[o] /\ (Dead(o) => Dead(o)')
    BY <1>2, <2>1
  <2>9. ASSUME NEW o \in 1 .. Len(obj')
        PROVE  \/ obj'[o].holder = NobodyHolds
               \/ \E q \in Users : obj'[o].holder = <<q, round'>> /\ pc'[q] = "inside" /\ sem'[q] = o
               \/ Dead(o)'
    <3>1. CASE o = new
      BY <2>5, <3>1
    <3>2. CASE o \in 1 .. Len(obj)
      BY <2>7, <2>8, <3>2
    <3> QED
      BY <1>2, <1>3, <2>9, <3>1, <3>2
  <2> QED
    BY <2>6, <2>9 DEF Held
<1>15. OneName'
  <2>1. ASSUME InOrder PROVE p = "logger"
    BY <2>1, <1>1, <1>9 DEF Script, Places, InOrder, TypeOK, Procs, Clients
  <2>2. ASSUME InOrder PROVE \A q \in Procs : pc[q] \notin {"trunc", "init"} \cup InLoop
    BY <2>2 DEF OneName, Places
  <2> QED
    BY <1>1, <1>4, <1>6, <1>7, <2>1, <2>2 DEF OneName, InOrder, Procs
<1> QED
  BY <1>8, <1>10, <1>11, <1>13, <1>14, <1>15

(* A process that only moves on before it has mapped anything. *)
LEMMA MovesInv ==
    ASSUME IInv, NEW p \in Procs, NEW l \in {"semopen", "excl", "openold"},
           pc[p] \in {"usleep", "excl"}, Goto(p, l),
           IF pc[p] = "usleep" THEN l = OpenEntry ELSE l = "openold" /\ name # None,
           UNCHANGED <<setup, name, obj, sem, tries, script, round>>
    PROVE  IInv'
<1> USE DEF IInv
<1>1. UNCHANGED <<PiSem, Fifo, name, obj, sem, tries, script, round>>
  BY DEF setup
<1>2. \A q \in Procs : q # p => pc'[q] = pc[q]
  BY DEF Goto, TypeOK
<1>3. pc'[p] = l
  BY DEF Goto, TypeOK
<1>4. IF PiSem THEN l \in {"excl", "openold"} ELSE l = "semopen"
  BY DEF OpenEntry, Places
<1>5. p = "logger" => l = "openold" /\ name # None
  BY DEF Places
<1>6. TypeOK'
  BY <1>1 DEF TypeOK, Goto, Label
<1>7. Places'
  <2>1. \A c \in Clients : pc'[c] # "exited" => tries'[c] < MaxTries
    BY <1>1, <1>2, <1>3 DEF Places, Procs
  <2> QED
    BY <1>1, <1>2, <1>3, <1>4, <1>5, <2>1 DEF Places, InLoop, Procs, Clients
<1>8. Script'
  BY <1>1, <1>2, <1>3 DEF Script, InLoop, Starting, Procs, Clients
<1>9. \A q \in Procs, k \in {"trunc", "init", "unlink"} \cup InLoop : pc'[q] = k <=> pc[q] = k
  BY <1>2, <1>3 DEF InLoop
<1>10. Sized'
  BY <1>1, <1>9 DEF Sized, Sound, Makes, Fresh, InLoop, Procs
<1>11. Held'
  <2>1. \A o : Dead(o) => Dead(o)'
    BY <1>1, <1>9 DEF Dead, Fresh, Procs
  <2> QED
    BY <1>1, <1>9, <2>1 DEF Held, InOrder, Users, Procs, Clients, InLoop
<1>12. OneName'
  BY <1>1, <1>2, <1>3, <1>5, <1>9 DEF OneName, InOrder, InLoop, Procs
<1> QED
  BY <1>6, <1>7, <1>8, <1>10, <1>11, <1>12

LEMMA OpenInv ==
    ASSUME IInv, NEW p \in Procs, SemOpen(p) \/ OpenExcl(p) \/ OpenExisting(p) \/ Usleep(p)
    PROVE  IInv'
<1>1. CASE SemOpen(p)
  <2>1. CASE name # None
    BY <1>1, <2>1, OpenedInv DEF SemOpen
  <2>2. CASE name = None /\ p = "logger"
    BY <1>1, <2>2, MakesInv DEF SemOpen, Opened, Goto
  <2>3. CASE name = None /\ p # "logger"
    BY <1>1, <2>3, OpenFailedInv DEF SemOpen
  <2> QED
    BY <2>1, <2>2, <2>3
<1>2. CASE OpenExcl(p)
  <2>1. CASE name = None
    BY <1>2, <2>1, MakesInv DEF OpenExcl, Goto
  <2>2. CASE name # None
    BY <1>2, <2>2, MovesInv DEF OpenExcl
  <2> QED
    BY <2>1, <2>2
<1>3. CASE OpenExisting(p)
  <2>1. CASE name # None
    BY <1>3, <2>1, OpenedInv DEF OpenExisting
  <2>2. CASE name = None
    BY <1>3, <2>2, OpenFailedInv DEF OpenExisting
  <2> QED
    BY <2>1, <2>2
<1>4. CASE Usleep(p)
  BY <1>4, MovesInv DEF Usleep, OpenEntry
<1> QED
  BY <1>1, <1>2, <1>3, <1>4

(* Truncate and InitMutex finish the object the process has made. *)
LEMMA FinishesInv ==
    ASSUME IInv, NEW p \in Procs, Truncate(p) \/ InitMutex(p)
    PROVE  IInv'
<1> USE DEF IInv
<1>1. UNCHANGED <<PiSem, Fifo, name, sem, tries, script, round>>
  BY DEF Truncate, InitMutex, setup
<1>2. PICK l \in {"init", "loop"} : /\ pc' = [pc EXCEPT ![p] = l]
                                    /\ pc[p] = IF l = "init" THEN "trunc" ELSE "init"
  BY DEF Truncate, InitMutex, Goto
<1>3. PICK n \in 1 .. Len(obj) : n = sem[p] /\ obj[n] \in Object
  BY <1>2, HasObject
<1>4. InOrder => \A q \in Procs : pc[q] \notin InLoop
  BY <1>2, ReadyInOrder
<1>5. PICK e \in Object : /\ obj' = [obj EXCEPT ![n] = e]
                          /\ e.sized = TRUE /\ (l = "loop" => e.init = TRUE)
                          /\ e.holder \in {obj[n].holder, NobodyHolds}
                          /\ obj[n].init = TRUE => e.init = TRUE
  <2>1. CASE Truncate(p)
    <3> DEFINE e == [obj[n] EXCEPT !.sized = TRUE]
    <3>1. obj' = [obj EXCEPT ![n] = e] /\ pc[p] = "trunc"
      BY <1>3, <2>1 DEF Truncate
    <3>2. e \in Object /\ e.sized = TRUE /\ e.holder = obj[n].holder /\ e.init = obj[n].init
      BY <1>3 DEF Object
    <3> QED
      BY <1>2, <3>1, <3>2
  <2>2. CASE InitMutex(p)
    <3> DEFINE e == [obj[n] EXCEPT !.init = TRUE, !.holder = NobodyHolds]
    <3>1. obj' = [obj EXCEPT ![n] = e] /\ pc[p] = "init"
      BY <1>3, <2>2 DEF InitMutex, TypeOK
    <3>2. obj[n].sized = TRUE
      BY <1>3, <3>1 DEF Sized, Object
    <3>3. e \in Object /\ e.sized = TRUE /\ e.holder = NobodyHolds /\ e.init = TRUE
      BY <1>3, <3>2 DEF Object
    <3> QED
      BY <1>2, <3>1, <3>3
  <2> QED
    BY <2>1, <2>2
<1>6. /\ obj' \in Seq(Object) /\ Len(obj') = Len(obj) /\ obj'[n] = e
      /\ \A o \in 1 .. Len(obj) : o # n => obj'[o] = obj[o]
  BY <1>5, Changed
<1>7. \A q \in Procs : q # p => pc'[q] = pc[q]
  BY <1>2 DEF TypeOK
<1>8. pc'[p] = l
  BY <1>2 DEF TypeOK
<1>9. TypeOK'
  <2>1. pc' \in [Procs -> Label]
    BY <1>2 DEF TypeOK, Label
  <2> QED
    BY <1>1, <1>6, <2>1 DEF TypeOK
<1>10. Places'
  <2>1. \A c \in Clients : pc'[c] # "exited" => tries'[c] < MaxTries
    BY <1>1, <1>2, <1>7, <1>8 DEF Places, Procs
  <2> QED
    BY <1>1, <1>2, <1>7, <1>8, <2>1 DEF Places, InLoop, Procs, Clients
<1>11. Script'
  <2>1. ~Fifo => p = "logger" /\ script # "up"
    BY <1>2 DEF Script, InLoop, Procs, Clients
  <2> QED
    BY <1>1, <1>2, <1>7, <1>8, <2>1 DEF Script, InLoop, Procs, Clients
<1>12. Sized'
  <2>1. \A o \in 1 .. Len(obj) : Sound(o) => Sound(o)'
    <3>1. ASSUME NEW o \in 1 .. Len(obj), Sound(o) PROVE Sound(o)'
      <4>1. CASE o # n
        BY <1>1, <1>3, <1>6, <1>7, <3>1, <4>1 DEF Sound, Makes
      <4>2. CASE o = n /\ l = "loop"
        BY <1>5, <1>6, <4>2 DEF Sound
      <4>3. CASE o = n /\ l = "init"
        BY <1>1, <1>3, <1>8, <4>3 DEF Sound, Makes
      <4> QED
        BY <4>1, <4>2, <4>3
    <3> QED
      BY <3>1
  <2>2. \A q \in Procs : pc'[q] \in {"init"} \cup InLoop => sem[q] \in 1 .. Len(obj)
    BY <1>2, <1>3, <1>7, HasObject
  <2>3. \A q \in Procs : pc'[q] = "init" => obj'[sem'[q]].sized
    BY <1>1, <1>3, <1>5, <1>6, <1>7, <2>2 DEF Sized
  <2>4. Sound(n)
    BY <1>2, <1>3 DEF Sound, Makes
  <2>5. \A q \in Procs : pc'[q] \in InLoop => Sound(sem[q])
    BY <1>3, <1>7, <2>4 DEF Sized
  <2>6. Fresh' => Fresh
    BY <1>1, <1>2, <1>7, <1>8 DEF Fresh, Procs
  <2>7. name # None => name \in 1 .. Len(obj)
    BY DEF TypeOK
  <2>8. \A q \in Procs : pc'[q] \in InLoop => Sound(sem[q])'
    BY <1>1, <2>1, <2>2, <2>5
  <2>9. Fresh' /\ name' # None => Sound(name)'
    BY <1>1, <2>1, <2>6, <2>7 DEF Sized
  <2> QED
    BY <2>3, <2>8, <2>9 DEF Sized
<1>13. Held'
  <2>1. \A o : Dead(o) => Dead(o)'
    BY <1>1, <1>2, <1>7, <1>8 DEF Dead, Fresh, Procs
  <2>2. InOrder' => \A q \in Procs : pc'[q] # "inside"
    BY <1>1, <1>2, <1>4, <1>7, <1>8 DEF InOrder, InLoop
  <2>3. \A o \in 1 .. Len(obj) : obj'[o].holder \in {obj[o].holder, NobodyHolds}
    BY <1>5, <1>6
  <2>4. \A q \in Users : pc[q] = "inside" => pc'[q] = "inside"
    BY <1>2, <1>7 DEF Users, Procs, Clients
  <2>5. ASSUME NEW o \in 1 .. Len(obj), obj'[o].holder = obj[o].holder
        PROVE  \/ obj'[o].holder = NobodyHolds
               \/ \E q \in Users : obj'[o].holder = <<q, round'>> /\ pc'[q] = "inside" /\ sem'[q] = o
               \/ Dead(o)'
    BY <1>1, <2>1, <2>4, <2>5 DEF Held
  <2> QED
    BY <1>6, <2>2, <2>3, <2>5 DEF Held
<1>14. OneName'
  BY <1>1, <1>2, <1>7, <1>8 DEF OneName, InOrder, InLoop, Procs
<1> QED
  BY <1>9, <1>10, <1>11, <1>12, <1>13, <1>14

LEMMA UnlinkInv == ASSUME IInv, NEW p \in Procs, Unlink(p) PROVE IInv'
<1> USE DEF IInv
<1>1. /\ UNCHANGED <<PiSem, Fifo, obj, sem, tries, script, round>> /\ name' = None
      /\ p = "logger" /\ pc[p] = "unlink" /\ pc' = [pc EXCEPT ![p] = OpenEntry]
  BY DEF Unlink, Goto, setup
<1>2. OpenEntry = IF PiSem THEN "excl" ELSE "semopen"
  BY DEF OpenEntry
<1>3. \A q \in Procs : q # p => pc'[q] = pc[q] /\ q \in Clients
  BY <1>1 DEF TypeOK, Procs, Clients
<1>4. pc'[p] = OpenEntry
  BY <1>1 DEF TypeOK
<1>5. TypeOK'
  <2>1. pc' \in [Procs -> Label]
    BY <1>1, <1>2 DEF TypeOK, Label
  <2> QED
    BY <1>1, <2>1 DEF TypeOK
<1>6. Places'
  <2>1. \A c \in Clients : pc'[c] # "exited" => tries'[c] < MaxTries
    BY <1>1, <1>3 DEF Places, Procs, Clients
  <2> QED
    BY <1>1, <1>2, <1>3, <1>4, <2>1 DEF Places, InLoop, Procs, Clients
<1>7. Script'
  <2>1. ~Fifo => script # "up"
    BY <1>1 DEF Script, InLoop
  <2> QED
    BY <1>1, <1>2, <1>3, <1>4, <2>1 DEF Script, Procs, Clients
<1>8. \A q \in Procs, k \in {"trunc", "init"} \cup InLoop : pc'[q] = k <=> pc[q] = k
  BY <1>1, <1>2, <1>3, <1>4 DEF InLoop
<1>9. Sized'
  BY <1>1, <1>8 DEF Sized, Sound, Makes, InLoop
<1>10. Held'
  <2>1. \A o \in 1 .. Len(obj) : Dead(o) => Dead(o)'
    BY <1>1 DEF Dead, None
  <2> QED
    BY <1>1, <1>8, <2>1 DEF Held, InOrder, InLoop, Users, Procs, Clients
<1>11. OneName'
  <2>1. ASSUME InOrder PROVE \A q \in Procs : pc[q] \notin {"trunc", "init"} \cup InLoop
    <3>1. CASE Fifo
      BY <1>1, <2>1, <3>1 DEF OneName, Places
    <3>2. CASE ~Fifo
      BY <1>1, <1>3, <3>2 DEF Script, InLoop, TypeOK
    <3> QED
      BY <3>1, <3>2 DEF TypeOK
  <2> QED
    BY <1>1, <1>2, <1>4, <1>8, <2>1 DEF OneName, InOrder, InLoop, Procs
<1> QED
  BY <1>5, <1>6, <1>7, <1>9, <1>10, <1>11
-----------------------------------------------------------------------------
(* The loops. *)

(* Work, Acquire and Release: a process in its loop stays there; only the    *)
(* holder of its semaphore may change.                                       *)
LEMMA LoopsInv ==
    ASSUME IInv, NEW p \in Users, Work(p) \/ Acquire(p) \/ Release(p)
    PROVE  IInv'
<1> USE DEF IInv
<1>1. p \in Procs
  BY DEF Users, Procs, Clients
<1>2. /\ UNCHANGED <<PiSem, Fifo, name, sem, tries, script, round>>
      /\ script # "idle" /\ round \in 1 .. MaxRound
  BY <1>1 DEF Work, Acquire, Release, setup, Script, Places, TypeOK
<1>3. PICK l \in InLoop : pc' = [pc EXCEPT ![p] = l] /\ pc[p] \in InLoop
  BY DEF Work, Acquire, Release, Goto, InLoop
<1>4. \A q \in Procs : q # p => pc'[q] = pc[q]
  BY <1>3 DEF TypeOK
<1>5. pc'[p] = l
  BY <1>1, <1>3 DEF TypeOK
<1>6. PICK n \in 1 .. Len(obj) : n = sem[p] /\ obj[n] \in Object
  BY <1>1, <1>3, HasObject
<1>7. PICK h \in {NobodyHolds, <<p, round>>, obj[n].holder} :
          /\ obj' = [obj EXCEPT ![n] = [obj[n] EXCEPT !.holder = h]]
          /\ \/ h = obj[n].holder /\ pc[p] = "loop" /\ l = "wait"
             \/ h = <<p, round>> /\ obj[n].holder = NobodyHolds /\ pc[p] = "wait" /\ l = "inside"
             \/ /\ h = IF obj[n].holder = <<p, round>> THEN NobodyHolds ELSE obj[n].holder
                /\ pc[p] = "inside" /\ l = "loop"
  <2>1. CASE Work(p)
    <3>1. obj' = obj /\ pc[p] = "loop" /\ pc'[p] = "wait"
      BY <1>1, <2>1 DEF Work, Goto, TypeOK
    <3>2. obj = [obj EXCEPT ![n] = [obj[n] EXCEPT !.holder = obj[n].holder]]
      BY <1>6 DEF TypeOK, Object
    <3> QED
      BY <1>5, <3>1, <3>2
  <2>2. CASE Acquire(p)
    <3>1. obj' = [obj EXCEPT ![n] = [obj[n] EXCEPT !.holder = <<p, round>>]]
      BY <1>6, <2>2 DEF Acquire
    <3>2. obj[n].holder = NobodyHolds /\ pc[p] = "wait" /\ pc'[p] = "inside"
      BY <1>1, <1>6, <2>2 DEF Acquire, Goto, TypeOK
    <3> QED
      BY <1>5, <3>1, <3>2
  <2>3. CASE Release(p)
    <3> DEFINE g == IF obj[n].holder = <<p, round>> THEN NobodyHolds ELSE obj[n].holder
    <3>1. obj' = [obj EXCEPT ![n] = [obj[n] EXCEPT !.holder = g]]
      BY <1>6, <2>3 DEF Release
    <3>2. pc[p] = "inside" /\ pc'[p] = "loop"
      BY <1>1, <2>3 DEF Release, Goto, TypeOK
    <3>3. g \in {NobodyHolds, <<p, round>>, obj[n].holder}
      OBVIOUS
    <3> QED
      BY <1>5, <3>1, <3>2, <3>3
  <2> QED
    BY <2>1, <2>2, <2>3
<1> DEFINE e == [obj[n] EXCEPT !.holder = h]
<1>8. e \in Object
  <2>1. h \in {NobodyHolds} \cup (Users \X (1 .. MaxRound))
    BY <1>2, <1>6, <1>7 DEF Object
  <2> QED
    BY <1>6, <2>1 DEF Object
<1>9. e.holder = h /\ e.sized = obj[n].sized /\ e.init = obj[n].init
  BY <1>6 DEF Object
<1> HIDE DEF e
<1>10. /\ obj' \in Seq(Object) /\ Len(obj') = Len(obj) /\ obj'[n] = e
       /\ \A o \in 1 .. Len(obj) : o # n => obj'[o] = obj[o]
  BY <1>7, <1>8, Changed DEF e
<1>11. TypeOK'
  <2>1. pc' \in [Procs -> Label]
    BY <1>3 DEF TypeOK, Label, InLoop
  <2> QED
    BY <1>2, <1>10, <2>1 DEF TypeOK
<1>12. Places'
  <2>1. \A c \in Clients : pc'[c] # "exited" => tries'[c] < MaxTries
    BY <1>2, <1>3, <1>4, <1>5 DEF Places, Procs, InLoop
  <2> QED
    BY <1>2, <1>3, <1>4, <1>5, <2>1 DEF Places, InLoop, Procs, Clients
<1>13. Script'
  BY <1>2, <1>3, <1>4, <1>5 DEF Script, InLoop, Starting, Procs, Clients
<1>14. Sized'
  <2>1. \A o \in 1 .. Len(obj) : Sound(o) => Sound(o)'
    BY <1>2, <1>3, <1>4, <1>9, <1>10 DEF Sound, Makes, InLoop
  <2>2. \A q \in Procs : pc'[q] \in InLoop => pc[q] \in InLoop /\ sem[q] \in 1 .. Len(obj)
    BY <1>3, <1>4, HasObject
  <2>3. ASSUME NEW q \in Procs, pc'[q] = "init" PROVE obj'[sem'[q]].sized
    <3>1. pc[q] = "init" /\ sem[q] \in 1 .. Len(obj)
      BY <1>3, <1>4, <1>5, <2>3, HasObject DEF InLoop
    <3> QED
      BY <1>2, <1>9, <1>10, <3>1 DEF Sized
  <2>4. Fresh' => Fresh
    BY <1>2, <1>3, <1>4, <1>5 DEF Fresh, InLoop, Procs
  <2>5. name # None => name \in 1 .. Len(obj)
    BY DEF TypeOK
  <2>6. \A q \in Procs : pc'[q] \in InLoop => Sound(sem[q])'
    BY <1>2, <2>1, <2>2 DEF Sized
  <2>7. Fresh' /\ name' # None => Sound(name)'
    BY <1>2, <2>1, <2>4, <2>5 DEF Sized
  <2> QED
    BY <2>3, <2>6, <2>7 DEF Sized
<1>15. Held'
  <2>1. \A o : Dead(o) => Dead(o)'
    BY <1>2, <1>3, <1>4, <1>5 DEF Dead, Fresh, InLoop, Procs
  <2>2. ASSUME InOrder, NEW q \in Procs, pc'[q] = "inside"
        PROVE  obj'[sem'[q]].holder = <<q, round'>>
    <3>1. CASE q = p
      BY <1>2, <1>5, <1>6, <1>7, <1>9, <1>10, <2>2, <3>1
    <3>2. CASE q # p
      <4>1. obj[sem[q]].holder = <<q, round>> /\ sem[q] \in 1 .. Len(obj)
        BY <1>4, <2>2, <3>2, HasObject DEF Held, InLoop
      <4>2. sem[q] = n => h = obj[n].holder
        BY <1>7, <3>2, <4>1 DEF NobodyHolds, Procs, Clients
      <4> QED
        BY <1>2, <1>9, <1>10, <4>1, <4>2
    <3> QED
      BY <3>1, <3>2
  <2>3. ASSUME NEW o \in 1 .. Len(obj)
        PROVE  \/ obj'[o].holder = NobodyHolds
               \/ \E q \in Users : obj'[o].holder = <<q, round'>> /\ pc'[q] = "inside" /\ sem'[q] = o
               \/ Dead(o)'
    <3>1. CASE o = n /\ h = <<p, round>> /\ l = "inside"
      BY <1>2, <1>5, <1>6, <1>9, <1>10, <3>1
    <3>2. CASE o = n /\ h = NobodyHolds
      BY <1>9, <1>10, <3>2
    <3>3. CASE o # n \/ h = obj[n].holder
      <4>1. obj'[o].holder = obj[o].holder
        BY <1>9, <1>10, <3>3
      <4>2. ASSUME NEW q \in Users, obj[o].holder = <<q, round>>, pc[q] = "inside", sem[q] = o
            PROVE  pc'[q] = "inside" /\ sem'[q] = o
        BY <1>2, <1>4, <1>6, <1>7, <3>3, <4>2 DEF NobodyHolds, Users, Procs, Clients
      <4> QED
        BY <1>2, <2>1, <4>1, <4>2 DEF Held
    <3> QED
      BY <1>7, <3>1, <3>2, <3>3
  <2> QED
    BY <1>2, <1>10, <2>2, <2>3 DEF Held, InOrder
<1>16. OneName'
  BY <1>2, <1>3, <1>4, <1>5 DEF OneName, InOrder, InLoop, Procs
<1> QED
  BY <1>11, <1>12, <1>13, <1>14, <1>15, <1>16

(* A bus error ends a program that was not launched in order. *)
LEMMA BusErrorInv == ASSUME IInv, NEW p \in Procs, BusError(p) PROVE IInv'
<1> USE DEF IInv
<1>1. /\ UNCHANGED <<PiSem, Fifo, name, obj, sem, tries, script, round>>
      /\ pc[p] = "wait" /\ ~obj[sem[p]].sized /\ pc' = [pc EXCEPT ![p] = "exited"]
  BY DEF BusError, Goto, setup
<1>2. pc'[p] = "exited" /\ \A q \in Procs : q # p => pc'[q] = pc[q]
  BY <1>1 DEF TypeOK
<1>3. ~InOrder /\ Fifo
  <2>1. pc[p] \in InLoop /\ Sound(sem[p])
    BY <1>1 DEF Sized, InLoop
  <2> QED
    BY <1>1, <2>1, ReadyInOrder DEF Sound, Makes, InOrder
<1>4. TypeOK'
  <2>1. pc' \in [Procs -> Label]
    BY <1>1 DEF TypeOK, Label
  <2> QED
    BY <1>1, <2>1 DEF TypeOK
<1>5. Places'
  <2>1. \A c \in Clients : pc'[c] # "exited" => tries'[c] < MaxTries
    BY <1>1, <1>2 DEF Places, Procs
  <2> QED
    BY <1>1, <1>2, <2>1 DEF Places, InLoop, Procs, Clients
<1>6. Script'
  BY <1>1, <1>2, <1>3 DEF Script, Procs, Clients
<1>7. Sized'
  BY <1>1, <1>2 DEF Sized, Sound, Makes, Fresh, InLoop, Procs
<1>8. Held'
  <2>1. \A o : Dead(o) => Dead(o)'
    BY <1>1, <1>2 DEF Dead, Fresh, Procs
  <2> QED
    BY <1>1, <1>2, <1>3, <2>1 DEF Held, InOrder, Users, Procs, Clients
<1>9. OneName'
  BY <1>1, <1>3 DEF OneName, InOrder
<1> QED
  BY <1>4, <1>5, <1>6, <1>7, <1>8, <1>9

LEMMA NextInv == IInv /\ [Next]_vars => IInv'
<1> SUFFICES ASSUME IInv, [Next]_vars PROVE IInv'
    OBVIOUS
<1>1. CASE UNCHANGED vars
  <2>1. UNCHANGED <<PiSem, Fifo, name, obj, sem, pc, tries, script, round>>
    BY <1>1 DEF vars, setup
  <2> QED
    BY <2>1 DEF IInv, TypeOK, Places, Script, Sized, Sound, Makes, Fresh, Held, Dead,
                OneName, InOrder
<1>2. ASSUME NEW p \in Procs, Step(p) \/ Work(p) PROVE IInv'
  <2>1. Acquire(p) \/ Release(p) \/ Work(p) => p \in Users
    BY DEF Acquire, Release, Work, IInv, Places
  <2> QED
    BY <1>2, <2>1, OpenInv, FinishesInv, UnlinkInv, LoopsInv, BusErrorInv DEF Step, Open
<1> QED
  BY <1>1, <1>2, LaunchInv, LaunchClientsInv, KillAllInv DEF Next, Shell

(* What launches, kills and the programs' starts keep: what a killed run     *)
(* left in /dev/shm is out of reach before a program can open it.            *)
THEOREM Invariant == Spec => []IInv
BY InitInv, NextInv, PTL DEF Spec

(* Launched in order, or in the plain build, nobody locks a semaphore that   *)
(* is not sized or not initialised, also after a launch in which its maker   *)
(* was killed half way.                                                      *)
THEOREM TouchesReady == Spec => []TouchesReadySemaphore
<1>1. IInv => TouchesReadySemaphore
  <2> SUFFICES ASSUME IInv, InOrder, NEW p \in Users, pc[p] \in {"wait", "inside"}
               PROVE  obj[sem[p]].sized /\ obj[sem[p]].init
    BY DEF TouchesReadySemaphore
  <2>1. p \in Procs /\ pc[p] \in InLoop
    BY DEF InLoop, Users, Procs, Clients
  <2>2. Sound(sem[p])
    BY <2>1 DEF IInv, Sized
  <2> QED
    BY <2>1, <2>2, ReadyInOrder DEF Sound, Makes
<1> QED
  BY Invariant, <1>1, PTL

(* Who waits never waits for a process of an earlier launch. *)
THEOREM WaitsForLiving == Spec => []HolderLives
<1>1. IInv => HolderLives
  <2> SUFFICES ASSUME IInv, NEW p \in Users, pc[p] = "wait",
                      obj[sem[p]].holder # NobodyHolds
               PROVE  LET h == obj[sem[p]].holder IN
                      h[2] = round /\ pc[h[1]] = "inside" /\ sem[h[1]] = sem[p]
    BY DEF HolderLives
  <2>1. p \in Procs /\ sem[p] \in 1 .. Len(obj) /\ ~Dead(sem[p])
    BY HasObject DEF IInv, InLoop, Users, Procs, Clients, Dead
  <2>2. PICK q \in Users : /\ obj[sem[p]].holder = <<q, round>>
                           /\ pc[q] = "inside" /\ sem[q] = sem[p]
    BY <2>1 DEF IInv, Held
  <2> QED
    BY <2>2
<1> QED
  BY Invariant, <1>1, PTL

(* run_poll.sh needs no retry: the clients find the semaphore at once. *)
THEOREM FoundAtOnce == Spec => []NobodyGivesUp
<1>1. IInv => NobodyGivesUp
  BY DEF IInv, Script, NobodyGivesUp
<1> QED
  BY Invariant, <1>1, PTL

(* Types, among them that a client opens at most MaxTries times. *)
THEOREM Types == Spec => []TypeOK
<1>1. IInv => TypeOK
  BY DEF IInv
<1> QED
  BY Invariant, <1>1, PTL
-----------------------------------------------------------------------------
Seen == IF InOrder THEN Inside ELSE {}

(* Launched in order, everybody inside holds the one semaphore there is. *)
LEMMA Exclusive ==
    ASSUME IInv, InOrder, NEW p \in Procs, NEW q \in Procs,
           pc[p] = "inside", pc[q] = "inside"
    PROVE  p = q
<1>1. sem[p] = sem[q]
  BY DEF IInv, OneName, InLoop
<1>2. <<p, round>> = <<q, round>>
  BY <1>1 DEF IInv, Held
<1> QED
  BY <1>2

LEMMA SameSeen ==
    ASSUME UNCHANGED setup, \A q \in Users : pc'[q] = "inside" <=> pc[q] = "inside"
    PROVE  UNCHANGED Seen
BY DEF Seen, Inside, InOrder, setup

(* A step of one process to a place outside the section, from outside. *)
LEMMA StaysOut ==
    ASSUME TypeOK, NEW p \in Procs, NEW l \in Label \ {"inside"}, Goto(p, l),
           pc[p] # "inside", UNCHANGED setup
    PROVE  UNCHANGED Seen
<1>1. \A q \in Users : pc'[q] = "inside" <=> pc[q] = "inside"
  BY DEF TypeOK, Goto, Users, Procs, Clients
<1> QED
  BY <1>1, SameSeen

LEMMA StepRefines == IInv /\ [Next]_vars => [Section!Next]_Seen
<1> SUFFICES ASSUME IInv, [Next]_vars PROVE Section!Next \/ UNCHANGED Seen
    OBVIOUS
<1> USE DEF IInv
<1>1. CASE LaunchLogger \/ LaunchAll
  <2>1. UNCHANGED setup /\ script = "idle" /\ \A q \in Procs : pc'[q] # "inside"
    BY <1>1 DEF LaunchLogger, LaunchAll, Goto, OpenEntry, TypeOK, Script, Procs
  <2> QED
    BY <2>1, SameSeen DEF Script, Users, Procs, Clients
<1>2. CASE LaunchClients
  <2>1. UNCHANGED setup /\ \A c \in Clients : pc[c] = "off"
    BY <1>2 DEF LaunchClients, Script
  <2>2. \A q \in Users : pc'[q] = "inside" <=> pc[q] = "inside"
    BY <1>2, <2>1 DEF LaunchClients, OpenEntry, TypeOK, Users, Procs, Clients
  <2> QED
    BY <2>1, <2>2, SameSeen
<1>4. CASE KillAll
  <2>1. Seen' = {}
    BY <1>4 DEF KillAll, Seen, Inside, Users, Procs, Clients
  <2>2. CASE Seen = {}
    BY <2>1, <2>2
  <2>3. CASE Seen # {}
    <3>1. InOrder /\ Seen = Inside
      BY <2>3 DEF Seen
    <3>2. PICK p \in Users : p \in Procs /\ pc[p] = "inside"
      BY <2>3, <3>1 DEF Inside, Users, Procs, Clients
    <3>3. Seen = {p}
      BY <3>1, <3>2, Exclusive DEF Inside, Users, Procs, Clients
    <3> QED
      BY <2>1, <3>3 DEF Section!Next, Section!Leave, Seen
  <2> QED
    BY <2>2, <2>3
<1>5. ASSUME NEW p \in Procs,
             SemOpen(p) \/ OpenExcl(p) \/ Truncate(p) \/ InitMutex(p) \/ OpenExisting(p)
               \/ Unlink(p) \/ Usleep(p) \/ Work(p) \/ BusError(p)
      PROVE  UNCHANGED Seen
  <2>1. PICK l \in Label \ {"inside"} : Goto(p, l)
    BY <1>5 DEF SemOpen, OpenExcl, Truncate, InitMutex, OpenExisting, Unlink, Usleep, Work,
                BusError,                 OpenEntry, OpenFailed, Opened, Label
  <2>2. pc[p] # "inside" /\ UNCHANGED setup
    BY <1>5 DEF SemOpen, OpenExcl, Truncate, InitMutex, OpenExisting, Unlink, Usleep, Work,
                BusError
  <2> QED
    BY <2>1, <2>2, StaysOut
<1>6. ASSUME NEW p \in Procs, Acquire(p) PROVE Section!Next \/ UNCHANGED Seen
  <2>1. UNCHANGED setup /\ p \in Users
    BY <1>6 DEF Acquire, Places
  <2>2. CASE ~InOrder
    BY <2>1, <2>2 DEF Seen, InOrder, setup
  <2>3. CASE InOrder
    <3>1. ASSUME NEW q \in Procs, pc[q] = "inside" PROVE FALSE
      <4>1. sem[q] = sem[p] /\ obj[sem[q]].holder = <<q, round>>
        BY <1>6, <2>3, <3>1 DEF Acquire, OneName, Held, InLoop
      <4> QED
        BY <1>6, <4>1 DEF Acquire, NobodyHolds, Procs, Clients
    <3>2. Seen = {}
      BY <3>1 DEF Seen, Inside, Users, Procs, Clients
    <3>3. \A q \in Users : pc'[q] = "inside" <=> q = p
      BY <1>6, <3>1 DEF Acquire, Goto, TypeOK, Users, Procs, Clients
    <3>4. Seen' = {p}
      BY <2>1, <2>3, <3>3 DEF Seen, Inside, InOrder, setup
    <3> QED
      BY <2>1, <3>2, <3>4 DEF Section!Next, Section!Enter, Seen
  <2> QED
    BY <2>2, <2>3
<1>7. ASSUME NEW p \in Procs, Release(p) PROVE Section!Next \/ UNCHANGED Seen
  <2>1. UNCHANGED setup /\ p \in Users
    BY <1>7 DEF Release, Places
  <2>2. CASE ~InOrder
    BY <2>1, <2>2 DEF Seen, InOrder, setup
  <2>3. CASE InOrder
    <3>1. \A q \in Users : pc'[q] = "inside" <=> pc[q] = "inside" /\ q # p
      BY <1>7 DEF Release, Goto, TypeOK, Users, Procs, Clients
    <3>2. Seen' = Seen \ {p} /\ p \in Seen
      BY <1>7, <2>1, <2>3, <3>1 DEF Seen, Inside, InOrder, setup, Release
    <3> QED
      BY <2>1, <3>2 DEF Section!Next, Section!Leave, Seen
  <2> QED
    BY <2>2, <2>3
<1>8. CASE UNCHANGED vars
  BY <1>8, SameSeen DEF vars
<1> QED
  BY <1>1, <1>2, <1>4, <1>5, <1>6, <1>7, <1>8 DEF Next, Shell, Step, Open

(* Over any number of launches and kills, logger and health implement one    *)
(* critical section when launched in order or built with the plain           *)
(* semaphore.                                                               *)
THEOREM Implements == Spec => ImplementsSection
<1>1. Init => Section!Init
  BY DEF Init, Section!Init, Inside, Users, Procs, Clients
<1>2. [Section!Next]_Seen <=> [Section!Next]_(IF InOrder THEN Inside ELSE {})
  BY DEF Seen
<1> QED
  BY Invariant, StepRefines, <1>1, <1>2, PTL DEF ImplementsSection, Section!Spec, Spec
=============================================================================
