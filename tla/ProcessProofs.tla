---------------------------- MODULE ProcessProofs ----------------------------
(***************************************************************************)
(* What the programs of src/C that several processes run promise, proved   *)
(* for any number of them: the forking servers (ForkServer), and the       *)
(* programs that loop at a terminal (TerminalLoops).                       *)
(*                                                                         *)
(* ForkServer: descriptors are copied by fork, so a client sees the end of *)
(* its connection only when the server, the child and date have closed     *)
(* their copies; the invariant says where each process is while it holds   *)
(* one, and what was written by then.                                      *)
(*                                                                         *)
(* TerminalLoops: what a process has open depends on its place in the      *)
(* program; a FIFO with a reader has a writer, the reader itself, unless   *)
(* the path was bound anew in between; and what a reader will get comes    *)
(* after what it has printed, and is nowhere else.                         *)
(***************************************************************************)
EXTENDS TerminalLoops, ForkServer, SequenceTheorems, TLAPS

-----------------------------------------------------------------------------
(* ForkServer *)

(* The processes are the server, and for each connection its child and date. *)
LEMMA Names ==
    /\ Server \in Processes
    /\ \A c \in Conns : /\ Child(c) \in Processes /\ Date(c) \in Processes
                        /\ Child(c) # Server /\ Date(c) # Server
                        /\ Parent(Child(c)) = Server /\ Parent(Date(c)) = Child(c)
    /\ \A c, d \in Conns : /\ Child(c) # Date(d)
                           /\ Child(c) = Child(d) => c = d
                           /\ Date(c) = Date(d) => c = d
    /\ \A p \in Processes : p = Server \/ \E c \in Conns : p = Child(c) \/ p = Date(c)
<1>1. Server \in Processes
  BY DEF Processes
<1>2. ASSUME NEW c \in Conns
      PROVE  /\ Child(c) \in Processes /\ Date(c) \in Processes
             /\ Child(c) # Server /\ Date(c) # Server
             /\ Parent(Child(c)) = Server /\ Parent(Date(c)) = Child(c)
  <2>1. Child(c) \in Processes /\ Date(c) \in Processes
    BY DEF Processes, Child, Date
  <2>2. Child(c)[1] = "child" /\ Date(c)[1] = "date" /\ Date(c)[2] = c /\ Server[1] = "server"
    BY DEF Child, Date, Server
  <2>3. Child(c) # Server /\ Date(c) # Server
    BY <2>2
  <2>4. Parent(Child(c)) = Server /\ Parent(Date(c)) = Child(c)
    BY <2>2, Zenon DEF Parent
  <2> QED
    BY <2>1, <2>3, <2>4
<1>3. ASSUME NEW c \in Conns, NEW d \in Conns
      PROVE  /\ Child(c) # Date(d)
             /\ Child(c) = Child(d) => c = d
             /\ Date(c) = Date(d) => c = d
  BY DEF Child, Date
<1>4. ASSUME NEW p \in Processes
      PROVE  p = Server \/ \E c \in Conns : p = Child(c) \/ p = Date(c)
  BY DEF Processes, Child, Date
<1> QED
  BY <1>1, <1>2, <1>3, <1>4

-----------------------------------------------------------------------------
(* The inductive invariant: who holds a connection, and what was sent over   *)
(* it by then.                                                               *)

(* Where a process can be. *)
Serving == {"read", "write", "fork", "waitpid", "close"}
Everywhere == [Processes -> {"accept", "off", "exec", "zombie", "reaped"} \cup Serving]

(* The server holds a connection from accept to close; at the fork it has no *)
(* child yet.                                                                *)
Accepting ==
    /\ fds[Server] = IF place[Server] = "accept" THEN {} ELSE {cur}
    /\ place[Server] = "fork" => place[Child(cur)] = "off" /\ cur \notin failed

(* A child and its date hold their connection until they end.                *)
Holds(c) == /\ fds[Child(c)] = IF place[Child(c)] \in Serving THEN {c} ELSE {}
            /\ fds[Date(c)] = IF place[Date(c)] = "exec" THEN {c} ELSE {}

(* A child waits while its date runs, for a date that runs, has ended or was *)
(* reaped, unless a fork or an exec failed; and what a client that stays was *)
(* sent by then.                                                             *)
Answered(c) ==
    /\ place[Date(c)] = "exec" => place[Child(c)] = "waitpid"
    /\ place[Child(c)] = "waitpid" /\ c \notin failed => place[Date(c)] # "off"
    /\ client[c] # "gone" /\ c \notin failed =>
         out[c] = IF place[Child(c)] \in {"off", "read", "write"} THEN <<>>
                  ELSE IF place[Child(c)] = "fork" \/ place[Date(c)] = "exec" THEN <<"hello">>
                  ELSE <<"hello", "date">>

ForkInv == /\ ForkTypeOK /\ place \in Everywhere /\ Accepting
           /\ \A c \in Conns : Holds(c) /\ Answered(c)

-----------------------------------------------------------------------------
LEMMA InitForkInv == ForkInit => ForkInv
<1> SUFFICES ASSUME ForkInit PROVE ForkInv
    OBVIOUS
<1>1. /\ place[Server] = "accept" /\ fds[Server] = {}
      /\ \A c \in Conns : /\ place[Child(c)] = "off" /\ place[Date(c)] = "off"
                          /\ fds[Child(c)] = {} /\ fds[Date(c)] = {} /\ out[c] = <<>>
  BY Names DEF ForkInit
<1>2. ForkTypeOK
  <2>1. <<>> \in Seq({"hello", "date", "listening"})
    OBVIOUS
  <2> QED
    BY <1>1, <2>1 DEF ForkInit, ForkTypeOK
<1>3. place \in Everywhere /\ Accepting
  BY <1>1 DEF ForkInit, Everywhere, Accepting
<1>4. \A c \in Conns : Holds(c) /\ Answered(c)
  BY <1>1 DEF Holds, Answered, Serving
<1> QED
  BY <1>2, <1>3, <1>4 DEF ForkInv

(* What a step of the connection c leaves as it is. *)
Untouched(c) ==
    /\ cur' = cur /\ place'[Server] = place[Server] /\ fds'[Server] = fds[Server]
    /\ failed' \in {failed, failed \cup {c}}
    /\ \A d \in Conns : d # c =>
         /\ client'[d] = client[d] /\ out'[d] = out[d]
         /\ place'[Child(d)] = place[Child(d)] /\ place'[Date(d)] = place[Date(d)]
         /\ fds'[Child(d)] = fds[Child(d)] /\ fds'[Date(d)] = fds[Date(d)]

(* The handler reaps a process. *)
Reaped(q) == /\ place[q] = "zombie" /\ place' = [place EXCEPT ![q] = "reaped"]
             /\ UNCHANGED <<client, out, fds, cur, failed>>

ConnStep(c) == ClientStep(c) \/ ChildStep(c) \/ RunDate(c) \/ Reaped(Child(c)) \/ Reaped(Date(c))

Signal == UNCHANGED <<client, out, fds, place, cur, failed>>

LEMMA ForkSteps ==
    ASSUME ForkInv, ForkNext
    PROVE  ServerStep \/ Signal \/ \E c \in Conns : ConnStep(c)
<1>1. ASSUME NEW p \in Processes, Reap(p) PROVE \E c \in Conns : ConnStep(c)
  <2>1. PICK q \in ZombiesOf(p) : Move(q, "reaped")
    BY <1>1 DEF Reap
  <2>2. q \in Processes /\ q # Server /\ Reaped(q)
    BY <1>1, <2>1 DEF Reap, ZombiesOf, Move, Reaped
  <2>3. PICK c \in Conns : q = Child(c) \/ q = Date(c)
    BY <2>2, Names
  <2> QED
    BY <2>2, <2>3 DEF ConnStep
<1>2. ASSUME NEW p \in Processes, EnterReap(p) \/ LeaveReap(p) PROVE Signal
  BY <1>2 DEF EnterReap, LeaveReap, Signal
<1> QED
  BY <1>1, <1>2 DEF ForkNext, Handler, ConnStep

LEMMA ConnUntouched ==
    ASSUME ForkInv, NEW c \in Conns, ConnStep(c)
    PROVE  Untouched(c)
<1>0. /\ place = [p \in Processes |-> place[p]] /\ fds = [p \in Processes |-> fds[p]]
      /\ client = [d \in Conns |-> client[d]] /\ out = [d \in Conns |-> out[d]]
  BY DEF ForkInv, ForkTypeOK, Everywhere
<1>1. CASE ClientStep(c)
  BY <1>0, <1>1 DEF ClientStep, Untouched
<1>2. CASE Read(c)
  BY <1>0, <1>2, Names DEF Read, Move, Untouched
<1>3. CASE Write(c)
  <2>1. /\ UNCHANGED <<client, cur, failed>> /\ \A d \in Conns : d # c => out'[d] = out[d]
    BY <1>0, <1>3 DEF Write
  <2>2. CASE Move(Child(c), "fork") /\ UNCHANGED fds
    BY <1>0, <2>1, <2>2, Names DEF Move, Untouched
  <2>3. CASE Exit(Child(c))
    BY <1>0, <2>1, <2>3, Names DEF Exit, Move, Untouched
  <2> QED
    BY <1>3, <2>2, <2>3 DEF Write
<1>4. CASE ForkDate(c)
  <2>1. UNCHANGED <<client, out, cur>>
    BY <1>4 DEF ForkDate
  <2>2. CASE /\ place' = [place EXCEPT ![Child(c)] = "waitpid", ![Date(c)] = "exec"]
             /\ fds' = [fds EXCEPT ![Date(c)] = fds[Child(c)]]
             /\ UNCHANGED failed
    BY <1>0, <2>1, <2>2, Names DEF Untouched
  <2>3. CASE /\ failed' = failed \cup {c}
             /\ Move(Child(c), "waitpid")
             /\ UNCHANGED fds
    BY <1>0, <2>1, <2>3, Names DEF Move, Untouched
  <2> QED
    BY <1>4, <2>2, <2>3 DEF ForkDate
<1>5. CASE Waitpid(c)
  BY <1>0, <1>5, Names DEF Waitpid, Untouched
<1>6. CASE CloseExit(c)
  BY <1>0, <1>6, Names DEF CloseExit, Exit, Move, Untouched
<1>7. CASE RunDate(c)
  <2>1. /\ UNCHANGED <<client, cur>> /\ \A d \in Conns : d # c => out'[d] = out[d]
        /\ failed' \in {failed, failed \cup {c}}
    BY <1>0, <1>7 DEF RunDate, Prints
  <2> QED
    BY <1>0, <1>7, <2>1, Names DEF RunDate, Exit, Move, Untouched
<1>8. CASE Reaped(Child(c)) \/ Reaped(Date(c))
  BY <1>0, <1>8, Names DEF Reaped, Untouched
<1> QED
  BY <1>1, <1>2, <1>3, <1>4, <1>5, <1>6, <1>7, <1>8 DEF ConnStep, ChildStep

(* The whole answer. *)
LEMMA HelloDate == Append(<<"hello">>, "date") = <<"hello", "date">>
<1> DEFINE S == {"hello", "date"}
<1>1. <<"hello">> \in Seq(S) /\ <<"hello", "date">> \in Seq(S)
  OBVIOUS
<1> HIDE DEF S
<1>2. PICK a \in Seq(S) : a = <<"hello">>
  BY <1>1, Zenon
<1>3. PICK b \in Seq(S) : b = <<"hello", "date">>
  BY <1>1, Zenon
<1>4. Len(a) = 1 /\ a[1] = "hello"
  BY <1>2
<1>5. Len(b) = 2 /\ b[1] = "hello" /\ b[2] = "date"
  BY <1>3
<1>6. PICK d : d = Append(a, "date")
  OBVIOUS
<1>7. d \in Seq(S) /\ Len(d) = 2 /\ d[1] = "hello" /\ d[2] = "date"
  <2>1. "date" \in S
    BY DEF S
  <2>2. /\ d \in Seq(S) /\ Len(d) = Len(a) + 1 /\ d[Len(a) + 1] = "date"
        /\ \A i \in 1 .. Len(a) : d[i] = a[i]
    <3>1. Append(a, "date") \in Seq(S) /\ Len(Append(a, "date")) = Len(a) + 1
      BY <2>1, AppendProperties, Zenon
    <3>2. \A i \in 1 .. Len(a) : Append(a, "date")[i] = a[i]
      BY <2>1, AppendProperties
    <3>3. Append(a, "date")[Len(a) + 1] = "date"
      BY <2>1, AppendProperties
    <3> QED
      BY <1>6, <3>1, <3>2, <3>3, Zenon
  <2> QED
    BY <1>4, <2>2
<1>8. d = b
  <2>1. \A i \in 1 .. Len(d) : d[i] = b[i]
    BY <1>5, <1>7
  <2> QED
    BY <1>5, <1>7, <2>1, SeqEqual
<1> QED
  BY <1>2, <1>3, <1>6, <1>8, Zenon

(* A step of a connection, at its own child, date and client. *)
LEMMA ConnOwn ==
    ASSUME ForkInv, NEW c \in Conns, ConnStep(c)
    PROVE  Holds(c)' /\ Answered(c)'
<1>0. /\ place = [p \in Processes |-> place[p]] /\ fds = [p \in Processes |-> fds[p]]
      /\ client = [d \in Conns |-> client[d]] /\ out = [d \in Conns |-> out[d]]
      /\ Child(c) # Date(c) /\ Child(c) \in Processes /\ Date(c) \in Processes
      /\ Holds(c) /\ Answered(c)
      /\ place[Child(c)] \in {"off", "zombie", "reaped"} \cup Serving
      /\ place[Date(c)] \in {"off", "exec", "zombie", "reaped"}
  BY Names DEF ForkInv, ForkTypeOK, Everywhere, Serving
<1>1. CASE ClientStep(c)
  BY <1>0, <1>1 DEF ClientStep, Holds, Answered
<1>2. CASE Read(c)
  <2>1. /\ place[Child(c)] = "read" /\ place'[Child(c)] = "write" /\ place'[Date(c)] = place[Date(c)]
        /\ UNCHANGED <<client, out, fds, failed>>
    BY <1>0, <1>2 DEF Read, At, Move
  <2> QED
    BY <1>0, <2>1 DEF Holds, Answered, Serving
<1>3. CASE Write(c)
  <2>1. /\ place[Child(c)] = "write" /\ place'[Date(c)] = place[Date(c)]
        /\ fds'[Date(c)] = fds[Date(c)] /\ UNCHANGED <<client, failed>>
        /\ \/ place'[Child(c)] = "fork" /\ fds'[Child(c)] = fds[Child(c)]
           \/ client[c] = "gone" /\ place'[Child(c)] = "zombie" /\ fds'[Child(c)] = {}
    BY <1>0, <1>3 DEF Write, At, Move, Exit
  <2>2. client[c] # "gone" /\ out[c] = <<>> => out'[c] = <<"hello">>
    BY <1>0, <1>3 DEF Write
  <2> QED
    BY <1>0, <2>1, <2>2 DEF Holds, Answered, Serving
<1>4. CASE ForkDate(c)
  <2>1. /\ place[Child(c)] = "fork" /\ place'[Child(c)] = "waitpid"
        /\ fds'[Child(c)] = fds[Child(c)] /\ UNCHANGED <<client, out>>
        /\ \/ place'[Date(c)] = "exec" /\ fds'[Date(c)] = fds[Child(c)] /\ UNCHANGED failed
           \/ /\ place'[Date(c)] = place[Date(c)] /\ fds'[Date(c)] = fds[Date(c)]
              /\ c \in failed'
    BY <1>0, <1>4 DEF ForkDate, At, Move
  <2> QED
    BY <1>0, <2>1 DEF Holds, Answered, Serving
<1>5. CASE Waitpid(c)
  <2>1. /\ place[Child(c)] = "waitpid" /\ place'[Child(c)] = "close"
        /\ place[Date(c)] # "exec" /\ place'[Date(c)] # "exec"
        /\ UNCHANGED <<client, out, fds, failed>>
    BY <1>0, <1>5 DEF Waitpid, At, Alive
  <2> QED
    BY <1>0, <2>1 DEF Holds, Answered, Serving
<1>6. CASE CloseExit(c)
  <2>1. /\ place[Child(c)] = "close" /\ place'[Child(c)] = "zombie"
        /\ place'[Date(c)] = place[Date(c)]
        /\ fds'[Child(c)] = {} /\ fds'[Date(c)] = fds[Date(c)] /\ UNCHANGED <<client, out, failed>>
    BY <1>0, <1>6 DEF CloseExit, At, Exit, Move
  <2> QED
    BY <1>0, <2>1 DEF Holds, Answered, Serving
<1>7. CASE RunDate(c)
  <2>1. /\ place[Date(c)] = "exec" /\ place'[Date(c)] = "zombie"
        /\ place'[Child(c)] = place[Child(c)]
        /\ fds'[Date(c)] = {} /\ fds'[Child(c)] = fds[Child(c)] /\ client' = client
        /\ c \notin failed' => c \notin failed
    BY <1>0, <1>7 DEF RunDate, Exit, Move
  <2>2. client[c] # "gone" /\ c \in fds[Date(c)] /\ out[c] = <<"hello">> /\ c \notin failed' =>
           out'[c] = <<"hello", "date">>
    <3>1. client[c] # "gone" /\ c \in fds[Date(c)] /\ c \notin failed' =>
             out'[c] = Append(out[c], "date")
      BY <1>0, <1>7 DEF RunDate, Prints
    <3>2. Append(<<"hello">>, "date") = <<"hello", "date">>
      BY HelloDate
    <3> QED
      BY <3>1, <3>2
  <2> QED
    BY <1>0, <2>1, <2>2 DEF Holds, Answered, Serving
<1>8. CASE Reaped(Child(c))
  <2>1. /\ place[Child(c)] = "zombie" /\ place'[Child(c)] = "reaped"
        /\ place'[Date(c)] = place[Date(c)] /\ UNCHANGED <<client, out, fds, failed>>
    BY <1>0, <1>8 DEF Reaped
  <2> QED
    BY <1>0, <2>1 DEF Holds, Answered, Serving
<1>9. CASE Reaped(Date(c))
  <2>1. /\ place[Date(c)] = "zombie" /\ place'[Date(c)] = "reaped"
        /\ place'[Child(c)] = place[Child(c)] /\ UNCHANGED <<client, out, fds, failed>>
    BY <1>0, <1>9 DEF Reaped
  <2> QED
    BY <1>0, <2>1 DEF Holds, Answered, Serving
<1> QED
  BY <1>1, <1>2, <1>3, <1>4, <1>5, <1>6, <1>7, <1>8, <1>9 DEF ConnStep, ChildStep

(* and so at all connections. *)
LEMMA ConnInv ==
    ASSUME ForkInv, NEW c \in Conns, ConnStep(c)
    PROVE  Accepting' /\ \A d \in Conns : Holds(d)' /\ Answered(d)'
<1>1. Untouched(c) /\ Holds(c)' /\ Answered(c)' /\ Accepting /\ cur \in Conns
  BY ConnUntouched, ConnOwn DEF ForkInv, ForkTypeOK
<1>2. ASSUME NEW d \in Conns, d # c PROVE Holds(d)' /\ Answered(d)'
  <2>1. Holds(d) /\ Answered(d)
    BY DEF ForkInv
  <2>2. Holds(d)'
    BY <1>1, <1>2, <2>1 DEF Holds, Untouched
  <2>3. Answered(d)'
    BY <1>1, <1>2, <2>1 DEF Answered, Untouched
  <2> QED
    BY <2>2, <2>3
<1>3. place'[Server] = "fork" => place'[Child(cur)] = "off" /\ cur \notin failed'
  <2>1. CASE cur # c
    BY <1>1, <2>1 DEF Untouched, Accepting
  <2>2. CASE cur = c /\ place[Server] = "fork"
    <3>1. place[Child(c)] = "off" /\ c \notin failed
      BY <1>1, <2>2 DEF Accepting
    <3>2. place[Date(c)] # "exec"
      BY <3>1 DEF ForkInv, Answered
    <3>3. ClientStep(c) \/ Reaped(Date(c))
      BY <3>1, <3>2 DEF ConnStep, ChildStep, Read, Write, ForkDate, Waitpid, CloseExit, RunDate,
                        At, Reaped
    <3>4. place'[Child(c)] = place[Child(c)] /\ failed' = failed
      BY <3>3, Names DEF ClientStep, Reaped, ForkInv, Everywhere
    <3> QED
      BY <2>2, <3>1, <3>4
  <2> QED
    BY <1>1, <2>1, <2>2 DEF Untouched
<1>4. Accepting'
  BY <1>1, <1>3 DEF Accepting, Untouched
<1> QED
  BY <1>1, <1>2, <1>4

(* The steps of the server. *)
LEMMA ServerInv ==
    ASSUME ForkInv, ServerStep
    PROVE  Accepting' /\ \A d \in Conns : Holds(d)' /\ Answered(d)'
<1>0. /\ place = [p \in Processes |-> place[p]] /\ fds = [p \in Processes |-> fds[p]]
      /\ cur \in Conns /\ Accepting
      /\ Server \in Processes
      /\ \A d \in Conns : /\ Child(d) # Server /\ Date(d) # Server
                          /\ Child(d) \in Processes /\ Date(d) \in Processes
                          /\ Child(cur) # Date(d) /\ (d # cur => Child(d) # Child(cur))
      /\ \A d \in Conns : Holds(d) /\ Answered(d)
  BY Names DEF ForkInv, ForkTypeOK, Everywhere
<1>1. ASSUME NEW c \in Conns, Accept(c)
      PROVE  Accepting' /\ \A d \in Conns : Holds(d)' /\ Answered(d)'
  <2>1. /\ place[Server] = "accept" /\ place'[Server] = "fork" /\ cur' = c
        /\ place[Child(c)] = "off" /\ c \notin failed
        /\ \A d \in Conns : /\ place'[Child(d)] = place[Child(d)] /\ fds'[Child(d)] = fds[Child(d)]
                            /\ place'[Date(d)] = place[Date(d)] /\ fds'[Date(d)] = fds[Date(d)]
        /\ UNCHANGED <<client, out, failed>>
    BY <1>0, <1>1 DEF Accept, At, Move
  <2>2. fds'[Server] = {c}
    <3>1. fds'[Server] = fds[Server] \cup {c}
      BY <1>0, <1>1 DEF Accept
    <3>2. fds[Server] = {}
      BY <1>0, <2>1 DEF Accepting
    <3> QED
      BY <3>1, <3>2
  <2>3. Accepting'
    BY <2>1, <2>2 DEF Accepting
  <2>4. ASSUME NEW d \in Conns PROVE Holds(d)' /\ Answered(d)'
    <3>1. Holds(d) /\ Answered(d)
      BY <1>0
    <3>2. Holds(d)'
      BY <2>1, <3>1 DEF Holds
    <3>3. Answered(d)'
      BY <2>1, <3>1 DEF Answered
    <3> QED
      BY <3>2, <3>3
  <2> QED
    BY <2>3, <2>4
<1>2. CASE ServerClose
  <2>1. /\ place[Server] = "close" /\ place'[Server] = "accept" /\ cur' = cur
        /\ \A d \in Conns : /\ place'[Child(d)] = place[Child(d)] /\ fds'[Child(d)] = fds[Child(d)]
                            /\ place'[Date(d)] = place[Date(d)] /\ fds'[Date(d)] = fds[Date(d)]
        /\ UNCHANGED <<client, out, failed>>
    BY <1>0, <1>2 DEF ServerClose, At, Move
  <2>2. fds'[Server] = {}
    <3>1. fds'[Server] = fds[Server] \ {cur}
      BY <1>0, <1>2 DEF ServerClose
    <3>2. fds[Server] = {cur}
      BY <1>0, <2>1 DEF Accepting
    <3> QED
      BY <3>1, <3>2
  <2>3. Accepting'
    BY <2>1, <2>2 DEF Accepting
  <2>4. ASSUME NEW d \in Conns PROVE Holds(d)' /\ Answered(d)'
    <3>1. Holds(d) /\ Answered(d)
      BY <1>0
    <3>2. Holds(d)'
      BY <2>1, <3>1 DEF Holds
    <3>3. Answered(d)'
      BY <2>1, <3>1 DEF Answered
    <3> QED
      BY <3>2, <3>3
  <2> QED
    BY <2>3, <2>4
<1>3. CASE ForkChild
  <2>1. /\ place[Server] = "fork" /\ place'[Server] = "close" /\ cur' = cur
        /\ fds'[Server] = fds[Server] /\ UNCHANGED <<client, out>>
        /\ \A d \in Conns : /\ place'[Date(d)] = place[Date(d)] /\ fds'[Date(d)] = fds[Date(d)]
                            /\ d # cur => /\ place'[Child(d)] = place[Child(d)]
                                          /\ fds'[Child(d)] = fds[Child(d)]
        /\ \/ /\ place'[Child(cur)] = "read" /\ fds'[Child(cur)] = fds[Server]
              /\ failed' = failed
           \/ /\ place'[Child(cur)] = place[Child(cur)] /\ fds'[Child(cur)] = fds[Child(cur)]
              /\ failed' = failed \cup {cur}
    BY <1>0, <1>3 DEF ForkChild, At, Move
  <2>2. fds[Server] = {cur} /\ place[Child(cur)] = "off" /\ cur \notin failed
    BY <1>0, <2>1 DEF Accepting
  <2>3. Accepting'
    BY <2>1, <2>2 DEF Accepting
  <2>4. Holds(cur)' /\ Answered(cur)'
    BY <1>0, <2>1, <2>2 DEF Holds, Answered, Serving
  <2>5. ASSUME NEW d \in Conns, d # cur PROVE Holds(d)' /\ Answered(d)'
    BY <1>0, <2>1, <2>5 DEF Holds, Answered
  <2> QED
    BY <2>1, <2>3, <2>4, <2>5
<1> QED
  BY <1>1, <1>2, <1>3 DEF ServerStep

-----------------------------------------------------------------------------
LEMMA ForkTypes ==
    ASSUME ForkInv, ForkNext
    PROVE  ForkTypeOK' /\ place' \in Everywhere
<1>0. /\ client \in [Conns -> {"away", "queued", "asked", "gone"}]
      /\ out \in [Conns -> Seq({"hello", "date", "listening"})] /\ fds \in [Processes -> SUBSET Conns]
      /\ place \in Everywhere /\ cur \in Conns /\ failed \subseteq Conns
      /\ sigchld \subseteq Processes /\ reaping \subseteq Processes
  BY DEF ForkInv, ForkTypeOK
<1> DEFINE Fine == /\ place[Server] \in {"accept", "fork", "close"}
                   /\ \A c \in Conns :
                        /\ place[Child(c)] \in {"off", "zombie", "reaped"} \cup Serving
                        /\ place[Date(c)] \in {"off", "exec", "zombie", "reaped"}
<1>1. Fine /\ {"off", "zombie", "reaped"} \cup Serving
                = {"off", "read", "write", "fork", "waitpid", "close", "zombie", "reaped"}
  <2>1. {"off", "zombie", "reaped"} \cup Serving
                = {"off", "read", "write", "fork", "waitpid", "close", "zombie", "reaped"}
    BY DEF Serving
  <2> QED
    BY <2>1, Zenon DEF ForkInv, ForkTypeOK
(* Where processes are: one moves, or a parent and its child do. *)
<1>2. ASSUME NEW p \in Processes, NEW l,
             place' = [place EXCEPT ![p] = l],
             \/ p = Server /\ l \in {"accept", "fork", "close"}
             \/ l \in {"zombie", "reaped"} /\ p # Server
             \/ l \in Serving /\ \E c \in Conns : p = Child(c)
      PROVE  place' \in Everywhere /\ Fine'
  <2>1. l \in {"accept", "off", "exec", "zombie", "reaped"} \cup Serving
    BY <1>2 DEF Serving
  <2>2. place' \in Everywhere
    BY <1>0, <1>2, <2>1 DEF Everywhere
  <2>3. /\ \A q \in Processes : q # p => place'[q] = place[q]
        /\ place'[p] = l
    BY <1>0, <1>2 DEF Everywhere
  <2>4. Fine'
    BY <1>1, <1>2, <2>3, Names
  <2> QED
    BY <2>2, <2>4
<1>3. ASSUME NEW p \in Processes, NEW l, NEW q \in Processes, NEW k,
             place' = [place EXCEPT ![p] = l, ![q] = k],
             \/ p = Server /\ l = "close" /\ k = "read" /\ \E c \in Conns : q = Child(c)
             \/ /\ l \in Serving /\ k \in {"off", "exec", "zombie", "reaped"}
                /\ \E c \in Conns : p = Child(c) /\ q = Date(c)
      PROVE  place' \in Everywhere /\ Fine'
  <2>1. /\ l \in {"accept", "off", "exec", "zombie", "reaped"} \cup Serving
        /\ k \in {"accept", "off", "exec", "zombie", "reaped"} \cup Serving
    BY <1>3 DEF Serving
  <2>2. place' \in Everywhere
    BY <1>0, <1>3, <2>1 DEF Everywhere
  <2>3. /\ \A r \in Processes : r # p /\ r # q => place'[r] = place[r]
        /\ place'[q] = k /\ (p # q => place'[p] = l)
    BY <1>0, <1>3 DEF Everywhere
  <2>4. CASE p = Server
    <3>1. PICK c \in Conns : q = Child(c)
      BY <1>3, <2>4, Names
    <3>2. /\ l = "close" /\ k = "read" /\ place'[Server] = l /\ place'[Child(c)] = k
          /\ \A d \in Conns : /\ d # c => place'[Child(d)] = place[Child(d)]
                              /\ place'[Date(d)] = place[Date(d)]
      BY <1>3, <2>3, <2>4, <3>1, Names
    <3>3. k \in Serving /\ l \in {"accept", "fork", "close"} /\ Fine
      BY <1>1, <3>2 DEF Serving
    <3>4. ASSUME NEW d \in Conns
          PROVE  /\ place'[Child(d)] \in {"off", "zombie", "reaped"} \cup Serving
                 /\ place'[Date(d)] \in {"off", "exec", "zombie", "reaped"}
      BY <3>2, <3>3
    <3> QED
      BY <2>2, <3>2, <3>3, <3>4
  <2>5. ASSUME NEW c \in Conns, p = Child(c), q = Date(c) PROVE Fine'
    <3>1. l \in Serving /\ k \in {"off", "exec", "zombie", "reaped"}
      BY <1>3, <2>5, Names
    <3>2. /\ place'[Server] = place[Server] /\ place'[Child(c)] = l /\ place'[Date(c)] = k
          /\ \A d \in Conns : d # c => /\ place'[Child(d)] = place[Child(d)]
                                       /\ place'[Date(d)] = place[Date(d)]
      BY <2>3, <2>5, Names
    <3> QED
      BY <1>1, <3>1, <3>2
  <2> QED
    BY <1>3, <2>2, <2>4, <2>5
<1>4. ASSUME UNCHANGED place PROVE place' \in Everywhere /\ Fine'
  BY <1>0, <1>1, <1>4
<1> HIDE DEF Fine
<1>5. place' \in Everywhere /\ Fine'
  <2>1. CASE ServerStep
    <3>1. CASE ForkChild
      <4>1. Server \in Processes /\ Child(cur) \in Processes
        BY <1>0, Names
      <4>2. CASE place' = [place EXCEPT ![Server] = "close", ![Child(cur)] = "read"]
        BY <1>0, <1>3, <4>1, <4>2
      <4>3. CASE Move(Server, "close")
        BY <1>2, <4>1, <4>3 DEF Move
      <4> QED
        BY <3>1, <4>2, <4>3 DEF ForkChild
    <3>2. CASE ServerClose \/ \E c \in Conns : Accept(c)
      BY <1>2, <3>2, Names DEF ServerClose, Accept, Move
    <3> QED
      BY <2>1, <3>1, <3>2 DEF ServerStep
  <2>2. ASSUME NEW c \in Conns, ChildStep(c) PROVE place' \in Everywhere /\ Fine'
    <3>1. CASE Read(c)
      BY <1>2, <3>1, Names DEF Read, Move, Serving
    <3>2. CASE Write(c)
      BY <1>2, <3>2, Names DEF Write, Exit, Move, Serving
    <3>3. CASE ForkDate(c)
      BY <1>2, <1>3, <3>3, Names DEF ForkDate, Move, Serving
    <3>4. CASE Waitpid(c)
      <4>1. PICK k : k = IF place[Date(c)] = "zombie" THEN "reaped" ELSE place[Date(c)]
        OBVIOUS
      <4>2. Child(c) # Date(c) /\ Child(c) \in Processes /\ Date(c) \in Processes
        BY Names
      <4>3. place' = [place EXCEPT ![Child(c)] = "close", ![Date(c)] = k]
        BY <1>0, <3>4, <4>1, <4>2 DEF Waitpid, Everywhere
      <4>4. k \in {"off", "exec", "zombie", "reaped"}
        BY <1>1, <4>1 DEF Fine
      <4> QED
        BY <1>3, <4>2, <4>3, <4>4 DEF Serving
    <3>5. CASE CloseExit(c)
      BY <1>2, <3>5, Names DEF CloseExit, Exit, Move
    <3> QED
      BY <2>2, <3>1, <3>2, <3>3, <3>4, <3>5 DEF ChildStep
  <2>3. ASSUME NEW c \in Conns, ClientStep(c) PROVE place' \in Everywhere /\ Fine'
    BY <1>4, <2>3 DEF ClientStep
  <2>4. ASSUME NEW c \in Conns, RunDate(c) PROVE place' \in Everywhere /\ Fine'
    BY <1>2, <2>4, Names DEF RunDate, Exit, Move
  <2>5. ASSUME NEW p \in Processes, Handler(p) PROVE place' \in Everywhere /\ Fine'
    <3>1. CASE EnterReap(p) \/ LeaveReap(p)
      BY <1>4, <3>1 DEF EnterReap, LeaveReap
    <3>2. CASE Reap(p)
      BY <1>2, <3>2 DEF Reap, ZombiesOf, Move
    <3> QED
      BY <2>5, <3>1, <3>2 DEF Handler
  <2> QED
    BY <2>1, <2>2, <2>3, <2>4, <2>5 DEF ForkNext
(* A process that ends. *)
<1>6. ASSUME NEW p \in Processes, p # Server, Exit(p)
      PROVE  fds' \in [Processes -> SUBSET Conns] /\ sigchld' \subseteq Processes
  <2>1. Parent(p) \in Processes
    BY <1>6, Names
  <2> QED
    BY <1>0, <1>6, <2>1 DEF Exit
<1>7. ASSUME NEW c \in Conns, NEW m \in {"hello", "date", "listening"},
             out' = [out EXCEPT ![c] = Append(@, m)]
      PROVE  out' \in [Conns -> Seq({"hello", "date", "listening"})]
  <2>1. PICK t \in Seq({"hello", "date", "listening"}) : t = Append(out[c], m)
    BY <1>0, AppendProperties
  <2>2. out' = [out EXCEPT ![c] = t]
    BY <1>7, <2>1
  <2> QED
    BY <1>0, <2>1, <2>2
<1> DEFINE Others == /\ client \in [Conns -> {"away", "queued", "asked", "gone"}]
                     /\ out \in [Conns -> Seq({"hello", "date", "listening"})]
                     /\ fds \in [Processes -> SUBSET Conns]
                     /\ cur \in Conns /\ failed \subseteq Conns
                     /\ sigchld \subseteq Processes /\ reaping \subseteq Processes
<1>8. Others'
  <2>1. CASE ServerStep
    <3>1. CASE ForkChild
      <4>1. UNCHANGED <<client, out, cur, sigchld, reaping>>
        BY <3>1 DEF ForkChild
      <4>2. fds' = [fds EXCEPT ![Child(cur)] = fds[Server]] \/ fds' = fds
        BY <3>1 DEF ForkChild
      <4>3. fds' \in [Processes -> SUBSET Conns]
        BY <1>0, <4>2, Names
      <4>4. failed' \subseteq Conns
        BY <1>0, <3>1 DEF ForkChild
      <4> QED
        BY <1>0, <4>1, <4>3, <4>4
    <3>2. CASE ServerClose
      BY <1>0, <3>2, Names DEF ServerClose
    <3>3. CASE \E c \in Conns : Accept(c)
      BY <1>0, <3>3, Names DEF Accept
    <3> QED
      BY <2>1, <3>1, <3>2, <3>3 DEF ServerStep
  <2>2. ASSUME NEW c \in Conns, ChildStep(c) PROVE Others'
    <3>1. CASE Read(c) \/ Waitpid(c)
      BY <1>0, <3>1 DEF Read, Waitpid
    <3>2. CASE Write(c)
      <4>1. out' \in [Conns -> Seq({"hello", "date", "listening"})]
        BY <1>0, <1>7, <3>2 DEF Write
      <4>2. fds' \in [Processes -> SUBSET Conns] /\ sigchld' \subseteq Processes
        BY <1>0, <1>6, <3>2, Names DEF Write
      <4> QED
        BY <1>0, <3>2, <4>1, <4>2 DEF Write
    <3>3. CASE ForkDate(c)
      <4>1. fds' = [fds EXCEPT ![Date(c)] = fds[Child(c)]] \/ fds' = fds
        BY <3>3 DEF ForkDate
      <4>2. fds' \in [Processes -> SUBSET Conns]
        BY <1>0, <4>1, Names
      <4>3. failed' \subseteq Conns /\ UNCHANGED <<client, out, cur, sigchld, reaping>>
        BY <1>0, <3>3 DEF ForkDate
      <4> QED
        BY <1>0, <4>2, <4>3
    <3>4. CASE CloseExit(c)
      BY <1>0, <1>6, <3>4, Names DEF CloseExit
    <3> QED
      BY <2>2, <3>1, <3>2, <3>3, <3>4 DEF ChildStep
  <2>3. ASSUME NEW c \in Conns, ClientStep(c) PROVE Others'
    BY <1>0, <2>3 DEF ClientStep
  <2>4. ASSUME NEW c \in Conns, RunDate(c) PROVE Others'
    <3>1. out' = out \/ \E m \in {"date", "listening"} : out' = [out EXCEPT ![c] = Append(@, m)]
      BY <2>4, Zenon DEF RunDate, Prints
    <3>2. out' \in [Conns -> Seq({"hello", "date", "listening"})]
      BY <1>0, <1>7, <3>1
    <3>3. fds' \in [Processes -> SUBSET Conns] /\ sigchld' \subseteq Processes
      BY <1>6, <2>4, Names DEF RunDate
    <3>4. failed' \subseteq Conns /\ UNCHANGED <<client, cur, reaping>>
      BY <1>0, <2>4 DEF RunDate
    <3> QED
      BY <1>0, <3>2, <3>3, <3>4
  <2>5. ASSUME NEW p \in Processes, Handler(p) PROVE Others'
    BY <1>0, <2>5 DEF Handler, EnterReap, Reap, LeaveReap
  <2> QED
    BY <2>1, <2>2, <2>3, <2>4, <2>5 DEF ForkNext
<1>9. ForkTypeOK'
  BY <1>1, <1>5, <1>8, Zenon DEF ForkTypeOK, Fine
<1> QED
  BY <1>5, <1>9

LEMMA NextForkInv == ForkInv /\ [ForkNext]_forkVars => ForkInv'
<1>1. ASSUME ForkInv, ForkNext PROVE ForkInv'
  <2>1. ForkTypeOK' /\ place' \in Everywhere
    BY <1>1, ForkTypes
  <2>2. Accepting' /\ \A d \in Conns : Holds(d)' /\ Answered(d)'
    <3>1. CASE ServerStep
      BY <1>1, <3>1, ServerInv
    <3>2. CASE Signal
      BY <1>1, <3>2 DEF Signal, ForkInv, Accepting, Holds, Answered
    <3>3. ASSUME NEW c \in Conns, ConnStep(c)
          PROVE  Accepting' /\ \A d \in Conns : Holds(d)' /\ Answered(d)'
      BY <1>1, <3>3, ConnInv
    <3> QED
      BY <1>1, <3>1, <3>2, <3>3, ForkSteps
  <2> QED
    BY <2>1, <2>2 DEF ForkInv
<1>2. ASSUME ForkInv, UNCHANGED forkVars PROVE ForkInv'
  BY <1>2 DEF forkVars, ForkInv, ForkTypeOK, Accepting, Holds, Answered
<1> QED
  BY <1>1, <1>2

(* Every state of the forking servers is of its type.                        *)
THEOREM ForkServerTypes == ForkSpec => []ForkTypeOK
BY InitForkInv, NextForkInv, PTL DEF ForkSpec, ForkInv

(* A client of the forking servers that reads end of file has read the       *)
(* greeting and then the date, for any number of connections, whatever child *)
(* the handler reaps and whenever clients leave, unless a fork failed or     *)
(* date could not be executed.                                               *)
THEOREM EofAfterAnswer == ForkSpec => []AnsweredBeforeEof
<1>1. ASSUME ForkInv PROVE AnsweredBeforeEof
  <2>1. ASSUME NEW c \in Conns, Started(c), ~Open(c), client[c] # "gone", c \notin failed
        PROVE  out[c] = <<"hello", "date">>
    <3>1. /\ place[Child(c)] \in {"off", "zombie", "reaped"} \cup Serving
          /\ Holds(c) /\ Answered(c)
      BY <1>1 DEF ForkInv, ForkTypeOK, Serving
    <3>2. c \notin fds[Child(c)] /\ c \notin fds[Date(c)]
      BY <2>1, Names DEF Open
    <3>3. place[Child(c)] \in {"zombie", "reaped"} /\ place[Date(c)] # "exec"
      BY <2>1, <3>1, <3>2 DEF Holds, Started
    <3> QED
      BY <2>1, <3>1, <3>3 DEF Answered
  <2> QED
    BY <2>1 DEF AnsweredBeforeEof
<1> QED
  BY <1>1, InitForkInv, NextForkInv, PTL DEF ForkSpec

-----------------------------------------------------------------------------
(* TerminalLoops *)

USE LoopsAssumption

(* The places of the programs. *)
Opening == {"mkfifo", "open", "open write"}
Looping == {"select", "stdin", "second", "unlink"}
Blinking == {"access", "first", "loop", "blink", "sleep", "last"}

(* A process is where its program can be, has open what it opened on the way *)
(* there, and keeps nothing from an earlier run.                             *)
PlaceOf(p) ==
    /\ pc[p] \in Opening => prog[p] = "select"
    /\ pc[p] \in Looping => prog[p] # "sysfs_led"
    /\ pc[p] \in Blinking => prog[p] = "sysfs_led"
    /\ fifo_rd[p] # "none" <=> prog[p] = "select" /\ pc[p] \in {"open write"} \cup Looping
    /\ fifo_wr[p] # "none" <=> prog[p] = "select" /\ pc[p] \in Looping
    /\ got[p] # "nothing" => pc[p] = "select" /\ prog[p] = "select"
    /\ ready[p] => pc[p] = "stdin"
    /\ pc[p] = "stdin" => tty[p] # <<>>
    /\ pc[p] \in {"mkfifo", "open"} => printed[p] = <<>>
    /\ fifo_rd[p] = "none" => pos[p] = 0

Places == \A p \in Procs : PlaceOf(p)

(* While the LED is on there is somebody who will turn it off, or could not. *)
Minding == {"loop", "blink", "sleep", "last"}
LedLit == led = 1 => \E p \in Procs : ~put[p] \/ pc[p] \in Minding

(* A regular file holds one message, which went through no FIFO; a FIFO      *)
(* holds messages that did.  A reader has read all of a regular file or      *)
(* nothing.                                                                  *)
Kinds ==
    /\ \A f \in Files :
         IF kind[f] = "regular" THEN Len(data[f]) = 1 /\ Range(data[f]) \cap direct = {}
                                ELSE Range(data[f]) \subseteq direct
    /\ \A p \in Procs : fifo_rd[p] # "none" =>
         IF kind[fifo_rd[p]] = "regular"
         THEN pos[p] \in {0, 1} /\ (pos[p] = 0 => printed[p] = <<>>)
         ELSE pos[p] = 0

(* Types: of the files, of the processes, of what sysfs_led.c works with. *)

FileTypes ==
    /\ path \in Files \cup {"none"} /\ kind \in [Files -> {"fifo", "regular"}]
    /\ data \in [Files -> Seq(1 .. Echoes)]
    /\ echoes \in 0 .. Echoes /\ direct \subseteq 1 .. Echoes /\ shared \subseteq Files

ProcTypes ==
    /\ prog \in [Procs -> Programs]
    /\ pc \in [Procs -> {"off"} \cup Opening \cup Looping \cup Blinking]
    /\ fifo_rd \in [Procs -> Files \cup {"none"}] /\ fifo_wr \in [Procs -> Files \cup {"none"}]
    /\ pos \in [Procs -> 0 .. Echoes] /\ ready \in [Procs -> BOOLEAN]
    /\ got \in [Procs -> {"nothing", "data", "eof", "EAGAIN"}]
    /\ tty \in [Procs -> Seq({"line", "eof"})] /\ printed \in [Procs -> Seq(1 .. Echoes)]

LedTypes == /\ running \in [Procs -> BOOLEAN] /\ state \in [Procs -> {0, 1}]
            /\ led \in {0, 1} /\ put \in [Procs -> BOOLEAN]

LEMMA TypeParts ==
    /\ TypeOK <=> FileTypes /\ ProcTypes /\ LedTypes
    /\ TypeOK' <=> FileTypes' /\ ProcTypes' /\ LedTypes'
<1>1. {"off", "mkfifo", "open", "open write", "select", "stdin", "second", "unlink", "access",
       "first", "loop", "blink", "sleep", "last"}
          = {"off"} \cup Opening \cup Looping \cup Blinking
  BY DEF Opening, Looping, Blinking
<1> QED
  BY <1>1, Zenon DEF TypeOK, FileTypes, ProcTypes, LedTypes

(* What a read of a file that holds data gives: its first n messages. *)
LEMMA RestType ==
    ASSUME TypeOK, Kinds, NEW p \in Procs, fifo_rd[p] # "none"
    PROVE  /\ fifo_rd[p] \in Files /\ data[fifo_rd[p]] \in Seq(1 .. Echoes)
           /\ pos[p] \in {0, 1}
           /\ pos[p] = 0 => Rest(p) = data[fifo_rd[p]]
           /\ pos[p] = 1 => Rest(p) = <<>>
           /\ kind[fifo_rd[p]] = "regular" => Len(data[fifo_rd[p]]) = 1 /\ 1 <= Echoes
<1> DEFINE f == fifo_rd[p]
<1> DEFINE s == data[f]
<1>1. f \in Files /\ s \in Seq(1 .. Echoes) /\ kind[f] \in {"fifo", "regular"}
  <2>1. FileTypes /\ ProcTypes
    BY TypeParts
  <2> QED
    BY <2>1 DEF FileTypes, ProcTypes
<1>2. pos[p] \in {0, 1} /\ (pos[p] = 1 => kind[f] = "regular")
  BY <1>1 DEF Kinds
<1>3. ASSUME pos[p] = 0 PROVE Rest(p) = s
  <2>1. Rest(p) = SubSeq(s, 1, Len(s))
    BY <1>3 DEF Rest
  <2>2. SubSeq(s, 1, Len(s)) = s
    BY <1>1
  <2> QED
    BY <2>1, <2>2
<1>4. ASSUME kind[f] = "regular" PROVE Len(s) = 1 /\ 1 <= Echoes
  <2>1. Len(s) = 1
    BY <1>1, <1>4 DEF Kinds
  <2>2. s[1] \in 1 .. Echoes
    BY <1>1, <2>1
  <2> QED
    BY <2>1, <2>2
<1>5. ASSUME pos[p] = 1 PROVE Rest(p) = <<>>
  <2>1. Len(s) = 1
    BY <1>2, <1>4, <1>5
  <2>2. Rest(p) = SubSeq(s, 2, 1)
    BY <1>5, <2>1 DEF Rest
  <2> QED
    BY <1>1, <2>1, <2>2
<1> QED
  BY <1>1, <1>2, <1>3, <1>4, <1>5

-----------------------------------------------------------------------------
(* What the steps do. *)

(* A new file is one that nobody has open. *)
LEMMA MakeFacts ==
    ASSUME NEW k, NEW d, Make(k, d)
    PROVE  \E f \in Files :
             /\ f # path /\ \A p \in Procs : fifo_rd[p] # f /\ fifo_wr[p] # f
             /\ path' = f /\ kind' = [kind EXCEPT ![f] = k]
             /\ data' = [data EXCEPT ![f] = d] /\ shared' = shared \ {f}
BY DEF Make, Unused, Opens

(* When a process ends, the files that another one has open stay as they     *)

(* are; data is only lost, and all of a file's at once.                      *)
LEMMA EndFacts ==
    ASSUME TypeOK, NEW p \in Procs, NEW b, End(p, b)
    PROVE  /\ pc' = [pc EXCEPT ![p] = "off"] /\ path' = b
           /\ fifo_rd' = [fifo_rd EXCEPT ![p] = "none"]
           /\ fifo_wr' = [fifo_wr EXCEPT ![p] = "none"]
           /\ ready' = [ready EXCEPT ![p] = FALSE] /\ got' = [got EXCEPT ![p] = "nothing"]
           /\ tty' = [tty EXCEPT ![p] = <<>>] /\ pos' = [pos EXCEPT ![p] = 0]
           /\ UNCHANGED <<prog, echoes, direct, printed, ledVars>>
           /\ \A f \in Files, q \in Procs : q # p /\ f \in {fifo_rd[q], fifo_wr[q]} =>
                 data'[f] = data[f] /\ kind'[f] = kind[f] /\ (f \in shared => f \in shared')
           /\ \A f \in Files :
                 \/ data'[f] = data[f] /\ kind'[f] = kind[f]
                 \/ data'[f] = <<>> /\ kind'[f] = "fifo"
           /\ shared' \subseteq shared
           /\ kind' \in [Files -> {"fifo", "regular"}]
<1> DEFINE gone == {f \in Files : Opens(f) \subseteq {p} /\ f # b}
<1> HIDE DEF gone
<1>1. /\ data' = [f \in Files |-> IF f \in gone \/ (Opens(f) = {p} /\ kind[f] = "fifo")
                                  THEN <<>> ELSE data[f]]
      /\ kind' = [f \in Files |-> IF f \in gone THEN "fifo" ELSE kind[f]]
      /\ shared' = shared \ gone
  BY DEF End, gone
<1>2. \A f \in Files, q \in Procs : q # p /\ f \in {fifo_rd[q], fifo_wr[q]} =>
         f \notin gone /\ Opens(f) # {p}
  BY DEF gone, Opens
<1>3. \A f \in Files, q \in Procs : q # p /\ f \in {fifo_rd[q], fifo_wr[q]} =>
         data'[f] = data[f] /\ kind'[f] = kind[f] /\ (f \in shared => f \in shared')
  BY <1>1, <1>2
<1>4. \A f \in Files :
         \/ data'[f] = data[f] /\ kind'[f] = kind[f]
         \/ data'[f] = <<>> /\ kind'[f] = "fifo"
  BY <1>1
<1>5. kind' \in [Files -> {"fifo", "regular"}]
  BY <1>1 DEF TypeOK
<1> QED
  BY <1>1, <1>3, <1>4, <1>5 DEF End, Goto

(* The steps of sysfs_led.c and of its users change where the process is,    *)

(* and nothing that the others work with.                                    *)
LEMMA LedFacts ==
    ASSUME TypeOK, Places, NEW p \in Procs, Led(p) \/ CtrlCLed(p)
    PROVE  /\ prog[p] = "sysfs_led" /\ pc[p] # "off"
           /\ \E l \in Blinking \cup {"off"} : pc' = [pc EXCEPT ![p] = l]
           /\ UNCHANGED <<prog, fileVars, procVars, tty>>
<1>0. ProcTypes /\ PlaceOf(p)
  BY TypeParts DEF Places
<1>1. CASE CtrlCLed(p)
  <2>1. prog[p] = "sysfs_led" /\ pc[p] \in Blinking
    BY <1>0, <1>1 DEF CtrlCLed, ProcTypes, PlaceOf, Opening, Looping
  <2>2. pc' = [pc EXCEPT ![p] = "loop"] \/ pc' = [pc EXCEPT ![p] = pc[p]]
    BY <1>0, <1>1 DEF CtrlCLed, Goto, ProcTypes
  <2> QED
    BY <1>1, <2>1, <2>2 DEF CtrlCLed, Blinking
<1>2. CASE Led(p)
  <2>1. pc[p] \in Blinking /\ UNCHANGED <<prog, fileVars, procVars, tty>>
    BY <1>2 DEF Led, LedAccess, LedFirst, LedLoop, LedBlink, LedSleep, LedLast, Blinking
  <2>2. \E l \in Blinking \cup {"off"} : pc' = [pc EXCEPT ![p] = l]
    BY <1>2 DEF Led, LedAccess, LedFirst, LedLoop, LedBlink, LedSleep, LedLast, SetLed, Goto,
                Blinking
  <2> QED
    BY <2>1, <2>2 DEF Places, PlaceOf, Blinking
<1> QED
  BY <1>1, <1>2

(* A process of a select program ends. *)
Ends(p) == /\ pc[p] # "off" /\ prog[p] # "sysfs_led"
           /\ \E b \in {path, "none"} : End(p, b)

(* The two outcomes of OpenWrite. *)
OpensWrite(p) ==
    /\ pc[p] = "open write" /\ Goto(p, "select")
    /\ path # "none" /\ (kind[path] = "fifo" => \E q \in Procs : fifo_rd[q] = path)
    /\ fifo_wr' = [fifo_wr EXCEPT ![p] = path]
    /\ UNCHANGED <<prog, fileVars, fifo_rd, pos, ready, got, printed, tty, ledVars>>

(* The steps that leave the files, and what is open, as they are. *)
Quiet(p) == \/ Type(p, "line") \/ Type(p, "eof") \/ Led(p) \/ CtrlCLed(p) \/ Start(p)
            \/ Select(p) \/ Stdin(p) \/ ReadRandom(p)

Step(p) == Quiet(p) \/ Ends(p) \/ Mkfifo(p) \/ OpenRead(p) \/ OpensWrite(p) \/ ReadFifo(p)

(* The steps, by what they do to processes and files. *)
LEMMA Steps ==
    ASSUME TypeOK, Places, Next
    PROVE  Echo \/ \E p \in Procs : Step(p)
<1>1. ASSUME NEW p \in Procs, OpenWrite(p) PROVE Ends(p) \/ OpensWrite(p)
  <2>1. pc[p] = "open write" /\ prog[p] # "sysfs_led"
    BY <1>1 DEF OpenWrite, Places, PlaceOf, Opening
  <2>2. End(p, path) \/ OpensWrite(p)
    BY <1>1, <2>1, ZenonT(30) DEF OpenWrite, OpensWrite
  <2> QED
    BY <2>1, <2>2 DEF Ends
<1>2. ASSUME NEW p \in Procs, CtrlC(p) PROVE Ends(p)
  BY <1>2 DEF CtrlC, Ends
<1>3. ASSUME NEW p \in Procs, Unlink(p) PROVE Ends(p)
  BY <1>3 DEF Unlink, Ends, Places, PlaceOf, Looping
<1> QED
  BY <1>1, <1>2, <1>3 DEF Next, Loop, Step, Quiet

LEMMA QuietFacts ==
    ASSUME TypeOK, Places, NEW p \in Procs, Quiet(p)
    PROVE  UNCHANGED <<prog, path, kind, data, echoes, direct, shared, fifo_rd, fifo_wr, pos>>
<1>1. CASE Led(p) \/ CtrlCLed(p)
  BY <1>1, LedFacts DEF fileVars, procVars
<1>2. CASE Type(p, "line") \/ Type(p, "eof") \/ ReadRandom(p)
  BY <1>2 DEF Type, ReadRandom, fileVars, procVars
<1>3. CASE Start(p) \/ Select(p) \/ Stdin(p)
  BY <1>3 DEF Start, Select, Stdin, fileVars
<1> QED
  BY <1>1, <1>2, <1>3 DEF Quiet

(* What a step does to one process it does to no other. *)
Alone(p) ==
    /\ prog' = prog
    /\ \A q \in Procs : q # p =>
         /\ pc'[q] = pc[q] /\ fifo_rd'[q] = fifo_rd[q] /\ fifo_wr'[q] = fifo_wr[q]
         /\ pos'[q] = pos[q] /\ ready'[q] = ready[q] /\ got'[q] = got[q]
         /\ tty'[q] = tty[q] /\ printed'[q] = printed[q]

LEMMA StepsAlone ==
    ASSUME TypeOK, Places, NEW p \in Procs, Step(p)
    PROVE  Alone(p)
<1>0. ProcTypes
  BY TypeParts
<1>1. ASSUME Type(p, "line") \/ Type(p, "eof") PROVE Alone(p)
  BY <1>0, <1>1 DEF Type, Alone, ProcTypes, procVars
<1>2. ASSUME Led(p) \/ CtrlCLed(p) PROVE Alone(p)
  <2>1. PICK l \in Blinking \cup {"off"} : pc' = [pc EXCEPT ![p] = l]
    BY <1>2, LedFacts
  <2>2. UNCHANGED <<prog, procVars, tty>>
    BY <1>2, LedFacts
  <2> QED
    BY <1>0, <2>1, <2>2 DEF Alone, ProcTypes, procVars
<1>3. ASSUME Ends(p) PROVE Alone(p)
  <2>1. PICK b \in {path, "none"} : End(p, b)
    BY <1>3 DEF Ends
  <2>2. /\ pc' = [pc EXCEPT ![p] = "off"]
        /\ fifo_rd' = [fifo_rd EXCEPT ![p] = "none"]
        /\ fifo_wr' = [fifo_wr EXCEPT ![p] = "none"]
        /\ ready' = [ready EXCEPT ![p] = FALSE] /\ got' = [got EXCEPT ![p] = "nothing"]
        /\ tty' = [tty EXCEPT ![p] = <<>>] /\ pos' = [pos EXCEPT ![p] = 0]
        /\ UNCHANGED <<prog, printed>>
    BY <2>1 DEF End, Goto
  <2> QED
    BY <1>0, <2>2 DEF Alone, ProcTypes
<1>4. ASSUME Start(p) PROVE Alone(p)
  BY <1>0, <1>4 DEF Start, Goto, Alone, ProcTypes
<1>5. ASSUME Mkfifo(p) PROVE Alone(p)
  <2>1. \E l \in {"off", "open"} : pc' = [pc EXCEPT ![p] = l]
    BY <1>5 DEF Mkfifo, Goto
  <2>2. UNCHANGED <<prog, procVars, tty>>
    BY <1>5 DEF Mkfifo
  <2> QED
    BY <1>0, <2>1, <2>2 DEF Alone, ProcTypes, procVars
<1>6. ASSUME OpenRead(p) \/ OpensWrite(p) PROVE Alone(p)
  <2>1. CASE OpenRead(p)
    BY <1>0, <2>1 DEF OpenRead, Goto, Alone, ProcTypes
  <2>2. CASE OpensWrite(p)
    BY <1>0, <2>2 DEF OpensWrite, Goto, Alone, ProcTypes
  <2> QED
    BY <1>0, <1>6, <2>1, <2>2
<1>7. ASSUME Select(p) PROVE Alone(p)
  BY <1>7 DEF Select, Goto, Alone, ProcTypes
<1>8. ASSUME Stdin(p) PROVE Alone(p)
  BY <1>0, <1>8 DEF Stdin, Goto, Alone, ProcTypes
<1>9. ASSUME ReadRandom(p) PROVE Alone(p)
  BY <1>0, <1>9 DEF ReadRandom, Goto, Alone, ProcTypes, procVars
<1>10. ASSUME ReadFifo(p) PROVE Alone(p)
  <2>1. /\ pc' = [pc EXCEPT ![p] = "select"]
        /\ UNCHANGED <<prog, fifo_rd, fifo_wr, ready, tty>>
    BY <1>10 DEF ReadFifo, Goto
  <2>2. \E g : got' = [got EXCEPT ![p] = g]
    BY <1>10 DEF ReadFifo
  <2>3. (\E n : pos' = [pos EXCEPT ![p] = n]) \/ pos' = pos
    BY <1>10 DEF ReadFifo
  <2>4. (\E s : printed' = [printed EXCEPT ![p] = s]) \/ printed' = printed
    BY <1>10 DEF ReadFifo
  <2> QED
    BY <1>0, <2>1, <2>2, <2>3, <2>4 DEF Alone, ProcTypes
<1> QED
  BY <1>1, <1>2, <1>3, <1>4, <1>5, <1>6, <1>7, <1>8, <1>9, <1>10 DEF Step, Quiet

-----------------------------------------------------------------------------
(* Types are kept. *)

LEMMA InitTypes == Init => TypeOK
<1> SUFFICES ASSUME Init PROVE TypeOK
    OBVIOUS
<1>1. prog \in [Procs -> Programs]
  BY DEF Init
<1>2. <<>> \in Seq(1 .. Echoes) /\ <<>> \in Seq({"line", "eof"})
  OBVIOUS
<1> QED
  BY <1>1, <1>2 DEF Init, TypeOK

(* A new file. *)
LEMMA MakeTypes ==
    ASSUME FileTypes, NEW k \in {"fifo", "regular"}, NEW d \in Seq(1 .. Echoes), Make(k, d),
           echoes' \in 0 .. Echoes, direct' \subseteq 1 .. Echoes
    PROVE  FileTypes'
<1>1. PICK f \in Files :
           /\ path' = f /\ kind' = [kind EXCEPT ![f] = k]
           /\ data' = [data EXCEPT ![f] = d] /\ shared' = shared \ {f}
  BY MakeFacts
<1> QED
  BY <1>1 DEF FileTypes

(* Messages sent to a file. *)
LEMMA EchoTypes == ASSUME TypeOK, Echo PROVE TypeOK'
<1>1. FileTypes /\ ProcTypes /\ LedTypes
  BY TypeParts
<1>2. echoes < Echoes /\ echoes' = echoes + 1 /\ UNCHANGED <<prog, pc, procVars, tty, ledVars>>
  BY Zenon DEF Echo
<1>3. echoes' \in 1 .. Echoes /\ echoes' \in 0 .. Echoes
  BY <1>1, <1>2 DEF FileTypes
<1>4. PICK d \in Seq(1 .. Echoes) : d = <<echoes'>>
  <2>1. <<echoes'>> \in Seq(1 .. Echoes)
    BY <1>3
  <2> QED
    BY <2>1, Zenon
<1>5. path # "none" => path \in Files
  BY <1>1 DEF FileTypes
<1>6. ASSUME path = "none", Make("regular", d), UNCHANGED direct
      PROVE  FileTypes'
  <2>1. direct' \subseteq 1 .. Echoes
    BY <1>1, <1>6 DEF FileTypes
  <2> QED
    BY <1>1, <1>3, <1>6, <2>1, MakeTypes
<1>7. ASSUME path # "none", data' = [data EXCEPT ![path] = d],
             UNCHANGED <<path, kind, direct, shared>>
      PROVE  FileTypes'
  <2>1. data' \in [Files -> Seq(1 .. Echoes)]
    BY <1>1, <1>5, <1>7 DEF FileTypes
  <2> QED
    BY <1>1, <1>3, <1>7, <2>1 DEF FileTypes
<1>8. ASSUME path # "none", data' = [data EXCEPT ![path] = Append(@, echoes')],
             direct' = direct \cup {echoes'}, UNCHANGED <<path, kind, shared>>
      PROVE  FileTypes'
  <2>1. data \in [Files -> Seq(1 .. Echoes)] /\ data[path] \in Seq(1 .. Echoes)
    BY <1>1, <1>5, <1>8 DEF FileTypes
  <2>2. PICK a \in Seq(1 .. Echoes) : a = Append(data[path], echoes')
    BY <1>3, <2>1, AppendProperties
  <2>3. data' = [data EXCEPT ![path] = a]
    BY <1>8, <2>2
  <2>4. data' \in [Files -> Seq(1 .. Echoes)]
    BY <1>5, <1>8, <2>1, <2>3
  <2> QED
    BY <1>1, <1>3, <1>8, <2>4 DEF FileTypes
<1>9. FileTypes'
  BY <1>4, <1>6, <1>7, <1>8, Zenon DEF Echo
<1>10. ProcTypes' /\ LedTypes'
  BY <1>1, <1>2 DEF ProcTypes, LedTypes, procVars, ledVars
<1> QED
  BY <1>9, <1>10, TypeParts

(* The steps of sysfs_led.c. *)
LEMMA LedStepTypes ==
    ASSUME TypeOK, Places, NEW p \in Procs, Led(p) \/ CtrlCLed(p)
    PROVE  TypeOK'
<1>1. FileTypes /\ ProcTypes /\ LedTypes
  BY TypeParts
<1>2. PICK l \in Blinking \cup {"off"} : pc' = [pc EXCEPT ![p] = l]
  BY LedFacts
<1>3. UNCHANGED <<prog, fileVars, procVars, tty>>
  BY LedFacts
<1>4. LedTypes'
  <2>1. CASE LedFirst(p) \/ LedBlink(p) \/ LedLast(p)
    <3>1. /\ UNCHANGED <<running, state>>
          /\ led' \in {0, state[p], led}
          /\ put' = [put EXCEPT ![p] = TRUE] \/ put' = [put EXCEPT ![p] = FALSE]
      BY <2>1 DEF LedFirst, LedBlink, LedLast, SetLed
    <3> QED
      BY <1>1, <3>1 DEF LedTypes
  <2>2. CASE LedLoop(p)
    <3>1. state' = state \/ state' = [state EXCEPT ![p] = 1 - state[p]]
      BY <2>2 DEF LedLoop
    <3>2. 1 - state[p] \in {0, 1}
      BY <1>1 DEF LedTypes
    <3>3. state' \in [Procs -> {0, 1}]
      BY <1>1, <3>1, <3>2 DEF LedTypes
    <3> QED
      BY <1>1, <2>2, <3>3 DEF LedLoop, LedTypes
  <2>3. CASE LedAccess(p) \/ LedSleep(p)
    BY <1>1, <2>3 DEF LedAccess, LedSleep, LedTypes, ledVars
  <2>4. CASE CtrlCLed(p)
    BY <1>1, <2>4 DEF CtrlCLed, LedTypes
  <2> QED
    BY <2>1, <2>2, <2>3, <2>4 DEF Led
<1>5. FileTypes' /\ ProcTypes'
  BY <1>1, <1>2, <1>3 DEF FileTypes, ProcTypes, fileVars, procVars
<1> QED
  BY <1>4, <1>5, TypeParts

(* Where a program begins, and where it goes from the terminal. *)
LEMMA StartPlace ==
    ASSUME NEW p \in Procs, Start(p)
    PROVE  \E l \in {"mkfifo", "open", "access", "select"} :
              /\ pc' = [pc EXCEPT ![p] = l]
              /\ l \in Opening => prog[p] = "select"
              /\ l = "access" => prog[p] = "sysfs_led"
              /\ l = "select" => prog[p] \notin {"select", "sysfs_led"}
<1>1. CASE prog[p] = "select" /\ path = "none"
  BY <1>1 DEF Start, Goto, Opening
<1>2. CASE prog[p] = "select" /\ path # "none"
  BY <1>2 DEF Start, Goto, Opening
<1>3. CASE prog[p] = "sysfs_led"
  BY <1>3 DEF Start, Goto, Opening
<1>4. CASE prog[p] \notin {"select", "sysfs_led"}
  BY <1>4 DEF Start, Goto, Opening
<1> QED
  BY <1>1, <1>2, <1>3, <1>4

LEMMA StdinPlace ==
    ASSUME NEW p \in Procs, Stdin(p)
    PROVE  \E l \in {"unlink", "second", "select"} :
              /\ pc' = [pc EXCEPT ![p] = l]
              /\ l = "second" => ready[p]
<1>1. CASE Head(tty[p]) = "eof" /\ prog[p] # "select_simple"
  BY <1>1 DEF Stdin, Goto
<1>2. CASE ~(Head(tty[p]) = "eof" /\ prog[p] # "select_simple") /\ ready[p]
  BY <1>2 DEF Stdin, Goto
<1>3. CASE ~(Head(tty[p]) = "eof" /\ prog[p] # "select_simple") /\ ~ready[p]
  BY <1>3 DEF Stdin, Goto
<1> QED
  BY <1>1, <1>2, <1>3

(* The steps of the select programs that leave all files as they are. *)
LEMMA StillTypes ==
    ASSUME TypeOK, Places, NEW p \in Procs,
           Type(p, "line") \/ Type(p, "eof") \/ Start(p) \/ OpensWrite(p) \/ Select(p)
             \/ Stdin(p) \/ ReadRandom(p)
    PROVE  TypeOK'
<1>1. FileTypes /\ ProcTypes /\ LedTypes
  BY TypeParts
<1>2. tty[p] \in Seq({"line", "eof"}) /\ pc[p] \in {"off"} \cup Opening \cup Looping \cup Blinking
  BY <1>1 DEF ProcTypes
<1>3. UNCHANGED fileVars
  BY Zenon DEF Type, Start, OpensWrite, Select, Stdin, ReadRandom
<1>4. FileTypes'
  BY <1>1, <1>3 DEF FileTypes, fileVars
<1>5. LedTypes'
  <2>1. CASE Start(p)
    BY <1>1, <2>1 DEF Start, LedTypes
  <2>2. CASE Type(p, "line") \/ Type(p, "eof") \/ OpensWrite(p) \/ Select(p) \/ Stdin(p)
               \/ ReadRandom(p)
    <3>1. UNCHANGED ledVars
      BY <2>2, Zenon DEF Type, OpensWrite, Select, Stdin, ReadRandom
    <3> QED
      BY <1>1, <3>1 DEF ledVars, LedTypes
  <2> QED
    BY <2>1, <2>2
<1>6. ProcTypes'
  <2>1. ASSUME NEW x \in {"line", "eof"}, Type(p, x) PROVE ProcTypes'
    <3>1. PICK t \in Seq({"line", "eof"}) : t = Append(tty[p], x)
      BY <1>2, AppendProperties
    <3>2. tty' = [tty EXCEPT ![p] = t] /\ UNCHANGED <<prog, pc, procVars>>
      BY <2>1, <3>1 DEF Type
    <3> QED
      BY <1>1, <3>2 DEF ProcTypes, procVars
  <2>2. CASE Start(p)
    <3>1. <<>> \in Seq(1 .. Echoes)
      OBVIOUS
    <3>2. PICK l \in {"mkfifo", "open", "access", "select"} : pc' = [pc EXCEPT ![p] = l]
      BY <2>2, StartPlace
    <3>3. /\ printed' = [printed EXCEPT ![p] = <<>>]
          /\ UNCHANGED <<prog, fifo_rd, fifo_wr, pos, ready, got, tty>>
      BY <2>2 DEF Start
    <3>4. printed' \in [Procs -> Seq(1 .. Echoes)]
      BY <1>1, <3>1, <3>3 DEF ProcTypes
    <3> QED
      BY <1>1, <3>2, <3>3, <3>4 DEF ProcTypes, Opening, Looping, Blinking
  <2>3. CASE OpensWrite(p)
    BY <1>1, <2>3 DEF OpensWrite, Goto, ProcTypes, FileTypes, Looping
  <2>4. CASE Select(p)
    <3>1. /\ \E l \in {"stdin", "second"} : pc' = [pc EXCEPT ![p] = l]
          /\ \E r \in BOOLEAN : ready' = [ready EXCEPT ![p] = r]
          /\ got' = [got EXCEPT ![p] = "nothing"]
          /\ UNCHANGED <<prog, fifo_rd, fifo_wr, pos, printed, tty>>
      BY <2>4 DEF Select, Goto
    <3> QED
      BY <1>1, <3>1 DEF ProcTypes, Looping
  <2>5. CASE Stdin(p)
    <3>1. tty[p] # <<>>
      BY <2>5 DEF Stdin, Places, PlaceOf
    <3>2. PICK t \in Seq({"line", "eof"}) : t = Tail(tty[p])
      BY <1>2, <3>1, HeadTailProperties
    <3>3. PICK l \in {"unlink", "second", "select"} : pc' = [pc EXCEPT ![p] = l]
      BY <2>5, StdinPlace
    <3>4. /\ ready' = [ready EXCEPT ![p] = FALSE] /\ tty' = [tty EXCEPT ![p] = t]
          /\ UNCHANGED <<prog, fifo_rd, fifo_wr, pos, got, printed>>
      BY <2>5, <3>2 DEF Stdin
    <3> QED
      BY <1>1, <3>3, <3>4 DEF ProcTypes, Looping
  <2>6. CASE ReadRandom(p)
    BY <1>1, <2>6 DEF ReadRandom, Goto, ProcTypes, procVars, Looping
  <2> QED
    BY <2>1, <2>2, <2>3, <2>4, <2>5, <2>6
<1> QED
  BY <1>4, <1>5, <1>6, TypeParts

LEMMA EndsTypes == ASSUME TypeOK, NEW p \in Procs, Ends(p) PROVE TypeOK'
<1>1. FileTypes /\ ProcTypes /\ LedTypes
  BY TypeParts
<1>2. PICK b \in {path, "none"} : End(p, b)
  BY DEF Ends
<1>3. /\ path' = b /\ UNCHANGED <<prog, echoes, direct, printed, ledVars>>
      /\ shared' \subseteq shared /\ kind' \in [Files -> {"fifo", "regular"}]
  BY <1>2, EndFacts
<1>4. data' \in [Files -> Seq(1 .. Echoes)]
  <2>1. <<>> \in Seq(1 .. Echoes)
    OBVIOUS
  <2>2. PICK lost \in SUBSET Files : data' = [f \in Files |-> IF f \in lost THEN <<>> ELSE data[f]]
    <3> DEFINE gone == {f \in Files : Opens(f) \subseteq {p} /\ f # b}
    <3> DEFINE lost == {f \in Files : f \in gone \/ (Opens(f) = {p} /\ kind[f] = "fifo")}
    <3>1. data' = [f \in Files |-> IF f \in lost THEN <<>> ELSE data[f]]
      BY <1>2 DEF End
    <3> QED
      BY <3>1
  <2> QED
    BY <1>1, <2>1, <2>2 DEF FileTypes
<1>5. FileTypes'
  BY <1>1, <1>3, <1>4 DEF FileTypes
<1>6. ProcTypes'
  <2>1. /\ pc' = [pc EXCEPT ![p] = "off"]
        /\ fifo_rd' = [fifo_rd EXCEPT ![p] = "none"]
        /\ fifo_wr' = [fifo_wr EXCEPT ![p] = "none"]
        /\ ready' = [ready EXCEPT ![p] = FALSE] /\ got' = [got EXCEPT ![p] = "nothing"]
        /\ tty' = [tty EXCEPT ![p] = <<>>] /\ pos' = [pos EXCEPT ![p] = 0]
    BY <1>2 DEF End, Goto
  <2>2. <<>> \in Seq({"line", "eof"}) /\ 0 \in 0 .. Echoes
    OBVIOUS
  <2>3. tty' \in [Procs -> Seq({"line", "eof"})]
    BY <1>1, <2>1, <2>2 DEF ProcTypes
  <2> QED
    BY <1>1, <1>3, <2>1, <2>2, <2>3 DEF ProcTypes
<1>7. LedTypes'
  BY <1>1, <1>3 DEF LedTypes, ledVars
<1> QED
  BY <1>5, <1>6, <1>7, TypeParts

LEMMA OpenTypes ==
    ASSUME TypeOK, NEW p \in Procs, Mkfifo(p) \/ OpenRead(p)
    PROVE  TypeOK'
<1>1. FileTypes /\ ProcTypes /\ LedTypes
  BY TypeParts
<1>2. CASE Mkfifo(p)
  <2>1. <<>> \in Seq(1 .. Echoes)
    OBVIOUS
  <2>2. /\ Make("fifo", <<>>) \/ UNCHANGED <<path, kind, data, shared>>
        /\ UNCHANGED <<prog, echoes, direct, procVars, tty, ledVars>>
        /\ \E l \in {"open", "off"} : pc' = [pc EXCEPT ![p] = l]
    BY <1>2 DEF Mkfifo, Goto
  <2>3. echoes' \in 0 .. Echoes /\ direct' \subseteq 1 .. Echoes
    BY <1>1, <2>2 DEF FileTypes
  <2>4. FileTypes'
    <3>1. CASE Make("fifo", <<>>)
      BY <1>1, <2>1, <2>3, <3>1, MakeTypes
    <3>2. CASE UNCHANGED <<path, kind, data, shared>>
      BY <1>1, <2>3, <3>2 DEF FileTypes
    <3> QED
      BY <2>2, <3>1, <3>2
  <2>5. PICK l \in {"open", "off"} : pc' = [pc EXCEPT ![p] = l]
    BY <2>2
  <2>6. UNCHANGED <<prog, procVars, tty, ledVars>>
    BY <2>2
  <2>7. ProcTypes' /\ LedTypes'
    BY <1>1, <2>5, <2>6 DEF ProcTypes, LedTypes, procVars, ledVars, Opening
  <2> QED
    BY <2>4, <2>7, TypeParts
<1>3. CASE OpenRead(p)
  <2>1. /\ \E l \in {"open write", "off"} : pc' = [pc EXCEPT ![p] = l]
        /\ fifo_rd' = [fifo_rd EXCEPT ![p] = path]
        /\ UNCHANGED <<prog, path, kind, data, echoes, direct,
                       fifo_wr, pos, ready, got, printed, tty, ledVars>>
        /\ shared' = shared \/ (path # "none" /\ shared' = shared \cup {path})
    BY <1>3 DEF OpenRead, Goto
  <2>2. FileTypes'
    BY <1>1, <2>1 DEF FileTypes
  <2>3. PICK l \in {"open write", "off"} : pc' = [pc EXCEPT ![p] = l]
    BY <2>1
  <2>4. path \in Files \cup {"none"}
    BY <1>1 DEF FileTypes
  <2>5. ProcTypes'
    BY <1>1, <2>1, <2>3, <2>4 DEF ProcTypes, Opening
  <2>6. LedTypes'
    BY <1>1, <2>1 DEF LedTypes, ledVars
  <2> QED
    BY <2>2, <2>5, <2>6, TypeParts
<1> QED
  BY <1>2, <1>3

(* What a read of the FIFO takes, and what stays: a part of a file that ends *)
(* with what stays, or the one message of a regular file.                    *)
Taken(p, n, f, s, a) ==
    /\ f = fifo_rd[p] /\ s = data[f] /\ s \in Seq(1 .. Echoes) /\ n \in 1 .. Len(s)
    /\ a = SubSeq(s, 1, n) /\ pos[p] = 0
    /\ printed' = [printed EXCEPT ![p] = @ \o a] /\ got' = [got EXCEPT ![p] = "data"]
    /\ \/ /\ kind[f] = "fifo" /\ pos' = pos
          /\ data' = [data EXCEPT ![f] = SubSeq(s, n + 1, Len(s))]
       \/ /\ kind[f] = "regular" /\ n = 1 /\ data' = data
          /\ pos' = [pos EXCEPT ![p] = 1]

LEMMA ReadFacts ==
    ASSUME TypeOK, Places, Kinds, NEW p \in Procs, ReadFifo(p)
    PROVE  /\ fifo_rd[p] \in Files /\ prog[p] = "select" /\ pc[p] = "second"
           /\ pc' = [pc EXCEPT ![p] = "select"]
           /\ UNCHANGED <<prog, path, kind, echoes, direct, shared, fifo_rd, fifo_wr, ready, tty, ledVars>>
           /\ \/ \E n, f, s, a : Taken(p, n, f, s, a)
              \/ /\ UNCHANGED <<data, pos, printed>>
                 /\ \/ got' = [got EXCEPT ![p] = "EAGAIN"]
                    \/ got' = [got EXCEPT ![p] = "eof"]
                 /\ got'[p] = "EAGAIN" => /\ kind[fifo_rd[p]] = "fifo" /\ data[fifo_rd[p]] = <<>>
                                          /\ \E q \in Procs : fifo_wr[q] = fifo_rd[p]
                 /\ got'[p] = "eof" => \/ kind[fifo_rd[p]] = "regular"
                                       \/ \A q \in Procs : fifo_wr[q] # fifo_rd[p]
<1> DEFINE f == fifo_rd[p]
<1> DEFINE s == data[f]
<1>1. /\ prog[p] = "select" /\ pc[p] = "second" /\ pc' = [pc EXCEPT ![p] = "select"]
      /\ UNCHANGED <<prog, path, kind, echoes, direct, shared, fifo_rd, fifo_wr, ready, tty, ledVars>>
  BY DEF ReadFifo, Goto
<1>2. f # "none"
  BY <1>1 DEF Places, PlaceOf, Looping
<1>3. /\ f \in Files /\ s \in Seq(1 .. Echoes) /\ pos[p] \in {0, 1}
      /\ pos[p] = 0 => Rest(p) = s
      /\ pos[p] = 1 => Rest(p) = <<>>
      /\ kind[f] = "regular" => Len(s) = 1
  BY <1>2, RestType
<1>4. kind[f] \in {"fifo", "regular"} /\ (kind[f] = "fifo" => pos[p] = 0)
  BY <1>2, <1>3 DEF TypeOK, Kinds
<1>5. ASSUME NEW n \in 1 .. Len(Rest(p)),
             printed' = [printed EXCEPT ![p] = @ \o SubSeq(Rest(p), 1, n)],
             IF kind[f] = "fifo"
             THEN data' = [data EXCEPT ![f] = SubSeq(@, n + 1, Len(@))] /\ UNCHANGED pos
             ELSE pos' = [pos EXCEPT ![p] = @ + n] /\ UNCHANGED data,
             got' = [got EXCEPT ![p] = "data"]
      PROVE  Taken(p, n, f, s, SubSeq(s, 1, n))
  <2>1. pos[p] = 0 /\ Rest(p) = s
    BY <1>3, <1>5
  <2>2. n \in 1 .. Len(s)
    BY <2>1
  <2>3. ASSUME kind[f] = "fifo" PROVE data' = [data EXCEPT ![f] = SubSeq(s, n + 1, Len(s))]
    BY <1>5, <2>3
  <2>4. ASSUME kind[f] = "regular"
        PROVE  n = 1 /\ data' = data /\ pos' = [pos EXCEPT ![p] = 1]
    <3>1. n = 1
      <4>1. Len(s) = 1
        BY <1>3, <2>4
      <4>2. n \in 1 .. 1
        BY <2>2, <4>1
      <4> QED
        BY <4>2
    <3>2. pos' = [pos EXCEPT ![p] = pos[p] + n] /\ data' = data
      BY <1>5, <2>4
    <3>3. pos[p] + n = 1
      BY <2>1, <3>1
    <3> QED
      BY <3>1, <3>2, <3>3
  <2> HIDE DEF f, s
  <2> QED
    BY <1>3, <1>4, <1>5, <2>1, <2>2, <2>3, <2>4 DEF Taken, f, s
<1>6. ASSUME Rest(p) = <<>>,
             got' = [got EXCEPT ![p] = IF kind[f] = "fifo" /\ \E q \in Procs : fifo_wr[q] = f
                                       THEN "EAGAIN" ELSE "eof"]
      PROVE  /\ \/ got' = [got EXCEPT ![p] = "EAGAIN"]
                \/ got' = [got EXCEPT ![p] = "eof"]
             /\ got'[p] = "EAGAIN" => /\ kind[f] = "fifo" /\ s = <<>>
                                      /\ \E q \in Procs : fifo_wr[q] = f
             /\ got'[p] = "eof" => kind[f] = "regular" \/ \A q \in Procs : fifo_wr[q] # f
  <2>1. got \in [Procs -> {"nothing", "data", "eof", "EAGAIN"}]
    BY DEF TypeOK
  <2>2. CASE kind[f] = "fifo" /\ \E q \in Procs : fifo_wr[q] = f
    BY <1>3, <1>4, <1>6, <2>1, <2>2
  <2>3. CASE ~(kind[f] = "fifo" /\ \E q \in Procs : fifo_wr[q] = f)
    BY <1>4, <1>6, <2>1, <2>3
  <2> QED
    BY <2>2, <2>3
<1>7. \/ \E n \in 1 .. Len(Rest(p)) :
            /\ printed' = [printed EXCEPT ![p] = @ \o SubSeq(Rest(p), 1, n)]
            /\ IF kind[f] = "fifo"
               THEN data' = [data EXCEPT ![f] = SubSeq(@, n + 1, Len(@))] /\ UNCHANGED pos
               ELSE pos' = [pos EXCEPT ![p] = @ + n] /\ UNCHANGED data
            /\ got' = [got EXCEPT ![p] = "data"]
      \/ /\ Rest(p) = <<>>
         /\ got' = [got EXCEPT ![p] = IF kind[f] = "fifo" /\ \E q \in Procs : fifo_wr[q] = f
                                      THEN "EAGAIN" ELSE "eof"]
         /\ UNCHANGED <<data, pos, printed>>
  BY Zenon DEF ReadFifo
<1> HIDE DEF f, s
<1>8. CASE \E n \in 1 .. Len(Rest(p)) :
            /\ printed' = [printed EXCEPT ![p] = @ \o SubSeq(Rest(p), 1, n)]
            /\ IF kind[f] = "fifo"
               THEN data' = [data EXCEPT ![f] = SubSeq(@, n + 1, Len(@))] /\ UNCHANGED pos
               ELSE pos' = [pos EXCEPT ![p] = @ + n] /\ UNCHANGED data
            /\ got' = [got EXCEPT ![p] = "data"]
  <2>1. \E n, g, t, a : Taken(p, n, g, t, a)
    BY <1>5, <1>8, Zenon
  <2> QED
    BY <1>1, <1>3, <2>1 DEF f
<1>9. CASE /\ Rest(p) = <<>>
           /\ got' = [got EXCEPT ![p] = IF kind[f] = "fifo" /\ \E q \in Procs : fifo_wr[q] = f
                                        THEN "EAGAIN" ELSE "eof"]
           /\ UNCHANGED <<data, pos, printed>>
  BY <1>1, <1>3, <1>6, <1>9, Zenon DEF f, s
<1> QED
  BY <1>7, <1>8, <1>9

LEMMA ReadTypes == ASSUME TypeOK, Places, Kinds, NEW p \in Procs, ReadFifo(p) PROVE TypeOK'
<1>1. FileTypes /\ ProcTypes /\ LedTypes
  BY TypeParts
<1>2. /\ pc' = [pc EXCEPT ![p] = "select"]
      /\ UNCHANGED <<prog, path, kind, echoes, direct, shared, fifo_rd, fifo_wr, ready, tty, ledVars>>
  BY ReadFacts
<1>3. /\ data' \in [Files -> Seq(1 .. Echoes)] /\ pos' \in [Procs -> 0 .. Echoes]
      /\ printed' \in [Procs -> Seq(1 .. Echoes)]
      /\ got' \in [Procs -> {"nothing", "data", "eof", "EAGAIN"}]
  <2>1. CASE \E n, f, s, a : Taken(p, n, f, s, a)
    <3>1. PICK n, f, s, a : Taken(p, n, f, s, a)
      BY <2>1
    <3>2. /\ f \in Files /\ s \in Seq(1 .. Echoes) /\ n \in 1 .. Len(s)
          /\ a = SubSeq(s, 1, n)
      BY <3>1, ReadFacts DEF Taken
    <3>3. a \in Seq(1 .. Echoes) /\ SubSeq(s, n + 1, Len(s)) \in Seq(1 .. Echoes)
      BY <3>2
    <3>4. PICK t \in Seq(1 .. Echoes) : t = printed[p] \o a
      BY <1>1, <3>3, ConcatProperties DEF ProcTypes
    <3>5. printed' \in [Procs -> Seq(1 .. Echoes)]
      <4>1. printed' = [printed EXCEPT ![p] = t]
        BY <3>1, <3>4 DEF Taken
      <4> QED
        BY <1>1, <4>1 DEF ProcTypes
    <3>6. data' \in [Files -> Seq(1 .. Echoes)]
      <4>1. PICK b \in Seq(1 .. Echoes) : b = SubSeq(s, n + 1, Len(s))
        BY <3>3
      <4>2. data' = [data EXCEPT ![f] = b] \/ data' = data
        BY <3>1, <4>1 DEF Taken
      <4> QED
        BY <1>1, <4>1, <4>2 DEF FileTypes
    <3>7. pos' \in [Procs -> 0 .. Echoes]
      <4>1. s[1] \in 1 .. Echoes
        BY <3>2
      <4>2. 1 \in 0 .. Echoes
        BY <4>1
      <4> QED
        BY <1>1, <3>1, <4>2 DEF Taken, ProcTypes
    <3>8. got' \in [Procs -> {"nothing", "data", "eof", "EAGAIN"}]
      BY <1>1, <3>1 DEF Taken, ProcTypes
    <3> QED
      BY <3>5, <3>6, <3>7, <3>8
  <2>2. CASE /\ UNCHANGED <<data, pos, printed>>
             /\ got' = [got EXCEPT ![p] = "EAGAIN"] \/ got' = [got EXCEPT ![p] = "eof"]
    BY <1>1, <2>2 DEF FileTypes, ProcTypes
  <2> QED
    BY <2>1, <2>2, ReadFacts
<1>4. FileTypes' /\ LedTypes'
  BY <1>1, <1>2, <1>3 DEF FileTypes, LedTypes, ledVars
<1>5. ProcTypes'
  BY <1>1, <1>2, <1>3 DEF ProcTypes, Looping
<1> QED
  BY <1>4, <1>5, TypeParts

LEMMA NextTypes == ASSUME TypeOK, Places, Kinds, Next PROVE TypeOK'
BY Steps, EchoTypes, LedStepTypes, StillTypes, EndsTypes, OpenTypes, ReadTypes, Zenon
   DEF Step, Quiet

-----------------------------------------------------------------------------
(* Where processes are. *)

LEMMA InitPlaces == Init => Places
BY DEF Init, Places, PlaceOf, Opening, Looping, Blinking

LEMMA NextPlaces == ASSUME TypeOK, Places, Kinds, Next PROVE Places'
<1>1. ASSUME NEW p \in Procs, Alone(p), PlaceOf(p)' PROVE Places'
  <2>1. ASSUME NEW q \in Procs, q # p PROVE PlaceOf(q)'
    <3>1. PlaceOf(q)
      BY DEF Places
    <3> QED
      BY <1>1, <2>1, <3>1 DEF Alone, PlaceOf
  <2> QED
    BY <1>1, <2>1, Zenon DEF Places
<1>2. ProcTypes
  BY TypeParts
<1>3. ASSUME NEW p \in Procs PROVE PlaceOf(p)
  BY <1>3 DEF Places
<1>4. CASE Echo
  BY <1>4 DEF Echo, procVars, Places, PlaceOf
<1>5. ASSUME NEW p \in Procs, NEW x \in {"line", "eof"}, Type(p, x) PROVE PlaceOf(p)'
  <2>1. tty'[p] # <<>>
    <3>1. tty[p] \in Seq({"line", "eof"}) /\ tty'[p] = Append(tty[p], x)
      BY <1>2, <1>5 DEF Type, ProcTypes
    <3> QED
      BY <3>1, AppendProperties
  <2> QED
    BY <1>3, <1>5, <2>1 DEF Type, procVars, PlaceOf
<1>6. ASSUME NEW p \in Procs, Led(p) \/ CtrlCLed(p) PROVE PlaceOf(p)'
  <2>1. PICK l \in Blinking \cup {"off"} : pc' = [pc EXCEPT ![p] = l]
    BY <1>6, LedFacts
  <2>2. prog[p] = "sysfs_led" /\ UNCHANGED <<prog, procVars, tty>>
    BY <1>6, LedFacts
  <2>3. pc'[p] = l
    BY <1>2, <2>1 DEF ProcTypes
  <2> QED
    BY <1>3, <2>2, <2>3 DEF PlaceOf, procVars, Opening, Looping, Blinking
<1>7. ASSUME NEW p \in Procs, Ends(p) PROVE PlaceOf(p)'
  <2>1. PICK b \in {path, "none"} : End(p, b)
    BY <1>7 DEF Ends
  <2>2. /\ pc'[p] = "off" /\ fifo_rd'[p] = "none" /\ fifo_wr'[p] = "none"
        /\ ready'[p] = FALSE /\ got'[p] = "nothing" /\ pos'[p] = 0
    BY <1>2, <2>1 DEF End, Goto, ProcTypes
  <2> QED
    BY <2>2 DEF PlaceOf, Opening, Looping, Blinking
<1>8. ASSUME NEW p \in Procs, Start(p) PROVE PlaceOf(p)'
  <2>1. PICK l \in {"mkfifo", "open", "access", "select"} :
              /\ pc' = [pc EXCEPT ![p] = l]
              /\ l \in Opening => prog[p] = "select"
              /\ l = "access" => prog[p] = "sysfs_led"
              /\ l = "select" => prog[p] \notin {"select", "sysfs_led"}
    BY <1>8, StartPlace
  <2>2. /\ pc'[p] = l /\ printed'[p] = <<>> /\ pc[p] = "off"
        /\ UNCHANGED <<prog, fifo_rd, fifo_wr, pos, ready, got, tty>>
    BY <1>2, <1>8, <2>1 DEF Start, ProcTypes
  <2> QED
    BY <1>3, <2>1, <2>2 DEF PlaceOf, Opening, Looping, Blinking
<1>9. ASSUME NEW p \in Procs, Mkfifo(p) PROVE PlaceOf(p)'
  <2>1. /\ pc'[p] \in {"open", "off"} /\ pc[p] = "mkfifo" /\ UNCHANGED <<prog, procVars, tty>>
    BY <1>2, <1>9 DEF Mkfifo, Goto, ProcTypes
  <2> QED
    BY <1>3, <2>1 DEF PlaceOf, procVars, Opening, Looping, Blinking
<1>10. ASSUME NEW p \in Procs, OpenRead(p) PROVE PlaceOf(p)'
  <2>1. /\ pc[p] = "open" /\ fifo_rd'[p] = path
        /\ pc'[p] = IF path = "none" THEN "off" ELSE "open write"
        /\ UNCHANGED <<prog, fifo_wr, pos, ready, got, printed, tty>>
    BY <1>2, <1>10 DEF OpenRead, Goto, ProcTypes
  <2> QED
    BY <1>3, <2>1 DEF PlaceOf, Opening, Looping, Blinking
<1>11. ASSUME NEW p \in Procs, OpensWrite(p) PROVE PlaceOf(p)'
  <2>1. /\ pc[p] = "open write" /\ pc'[p] = "select" /\ fifo_wr'[p] = path /\ path # "none"
        /\ UNCHANGED <<prog, fifo_rd, pos, ready, got, printed, tty>>
    BY <1>2, <1>11 DEF OpensWrite, Goto, ProcTypes
  <2> QED
    BY <1>3, <2>1 DEF PlaceOf, Opening, Looping, Blinking
<1>12. ASSUME NEW p \in Procs, Select(p) PROVE PlaceOf(p)'
  <2>1. /\ pc[p] = "select" /\ pc'[p] = IF tty[p] # <<>> THEN "stdin" ELSE "second"
        /\ got'[p] = "nothing" /\ (ready'[p] => tty[p] # <<>>)
        /\ UNCHANGED <<prog, fifo_rd, fifo_wr, pos, printed, tty>>
    BY <1>2, <1>12 DEF Select, Goto, ProcTypes
  <2> QED
    BY <1>3, <2>1 DEF PlaceOf, Opening, Looping, Blinking
<1>13. ASSUME NEW p \in Procs, Stdin(p) PROVE PlaceOf(p)'
  <2>1. PICK l \in {"unlink", "second", "select"} : pc' = [pc EXCEPT ![p] = l]
    BY <1>13, StdinPlace
  <2>2. /\ pc[p] = "stdin" /\ pc'[p] = l /\ ready'[p] = FALSE
        /\ UNCHANGED <<prog, fifo_rd, fifo_wr, pos, got, printed>>
    BY <1>2, <1>13, <2>1 DEF Stdin, ProcTypes
  <2> QED
    BY <1>3, <2>1, <2>2 DEF PlaceOf, Opening, Looping, Blinking
<1>14. ASSUME NEW p \in Procs, ReadRandom(p) PROVE PlaceOf(p)'
  <2>1. pc[p] = "second" /\ pc'[p] = "select" /\ UNCHANGED <<prog, procVars, tty>>
    BY <1>2, <1>14 DEF ReadRandom, Goto, ProcTypes
  <2> QED
    BY <1>3, <2>1 DEF PlaceOf, procVars, Opening, Looping, Blinking
<1>15. ASSUME NEW p \in Procs, ReadFifo(p) PROVE PlaceOf(p)'
  <2>1. /\ pc[p] = "second" /\ pc'[p] = "select" /\ fifo_rd[p] # "none"
        /\ UNCHANGED <<prog, fifo_rd, fifo_wr, ready, tty>>
    <3>1. /\ prog[p] = "select" /\ pc[p] = "second" /\ pc' = [pc EXCEPT ![p] = "select"]
          /\ UNCHANGED <<prog, fifo_rd, fifo_wr, ready, tty>>
      BY <1>15, ReadFacts
    <3>2. fifo_rd[p] # "none"
      BY <1>3, <3>1 DEF PlaceOf, Looping
    <3> QED
      BY <1>2, <3>1, <3>2 DEF ProcTypes
  <2> QED
    BY <1>3, <2>1 DEF PlaceOf, Opening, Looping, Blinking
<1> QED
  BY Steps, StepsAlone, <1>1, <1>4, <1>5, <1>6, <1>7, <1>8, <1>9, <1>10, <1>11, <1>12, <1>13,
     <1>14, <1>15, Zenon DEF Step, Quiet

-----------------------------------------------------------------------------
(* The LED. *)

LEMMA InitLedLit == Init => LedLit
BY DEF Init, LedLit

LEMMA NextLedLit == ASSUME TypeOK, Places, LedLit, Next PROVE LedLit'
<1>1. ProcTypes /\ LedTypes
  BY TypeParts
<1>2. ASSUME UNCHANGED <<led, put>>, \A q \in Procs : pc[q] \in Minding => pc'[q] \in Minding
      PROVE  LedLit'
  BY <1>2 DEF LedLit
<1>3. CASE Echo
  BY <1>2, <1>3 DEF Echo, ledVars
<1>4. ASSUME NEW p \in Procs, Alone(p), UNCHANGED <<led, put>>, pc[p] \notin Minding
      PROVE  LedLit'
  BY <1>2, <1>4 DEF Alone
<1>5. ASSUME NEW p \in Procs, pc[p] \in {"off"} \cup Opening \cup Looping
      PROVE  pc[p] \notin Minding
  BY <1>5 DEF Opening, Looping, Minding
<1>6. ASSUME NEW p \in Procs,
             Type(p, "line") \/ Type(p, "eof") \/ Start(p) \/ Mkfifo(p) \/ OpenRead(p)
               \/ OpensWrite(p) \/ Select(p) \/ Stdin(p) \/ ReadRandom(p) \/ ReadFifo(p)
      PROVE  LedLit'
  <2>1. UNCHANGED <<led, put>>
    BY <1>6 DEF Type, Start, Mkfifo, OpenRead, OpensWrite, Select, Stdin, ReadRandom, ReadFifo,
                ledVars
  <2>2. pc[p] \in {"off"} \cup Opening \cup Looping
    BY <1>6 DEF Type, Start, Mkfifo, OpenRead, OpensWrite, Select, Stdin, ReadRandom, ReadFifo,
                Opening, Looping
  <2> QED
    BY <1>4, <1>5, <1>6, <2>1, <2>2, StepsAlone DEF Step, Quiet
<1>7. ASSUME NEW p \in Procs, Ends(p) PROVE LedLit'
  <2>1. UNCHANGED <<led, put>>
    BY <1>7 DEF Ends, End, ledVars
  <2>2. pc[p] \in {"off"} \cup Opening \cup Looping
    BY <1>1, <1>7 DEF Ends, Places, PlaceOf, ProcTypes
  <2> QED
    BY <1>4, <1>5, <1>7, <2>1, <2>2, StepsAlone DEF Step, Quiet
<1>8. ASSUME NEW p \in Procs, NEW v, NEW ok, NEW fails, SetLed(p, v, ok, fails),
             v = 0 \/ ok \in Minding
      PROVE  LedLit'
  <2>1. CASE /\ led' = v /\ put' = [put EXCEPT ![p] = TRUE] /\ Goto(p, ok)
    <3>1. pc'[p] = ok
      BY <1>1, <2>1 DEF Goto, ProcTypes
    <3> QED
      BY <1>8, <2>1, <3>1 DEF LedLit
  <2>2. CASE /\ UNCHANGED led /\ put' = [put EXCEPT ![p] = FALSE] /\ Goto(p, fails)
    <3>1. ~put'[p]
      BY <1>1, <2>2 DEF LedTypes
    <3> QED
      BY <3>1 DEF LedLit
  <2> QED
    BY <1>8, <2>1, <2>2 DEF SetLed
<1>9. ASSUME NEW p \in Procs, UNCHANGED <<led, put>>, pc'[p] \in Minding, Alone(p)
      PROVE  LedLit'
  BY <1>2, <1>9 DEF Alone
<1>10. ASSUME NEW p \in Procs, Led(p) PROVE LedLit'
  <2>1. CASE LedAccess(p)
    <3>1. UNCHANGED <<led, put>> /\ pc[p] \notin Minding
      BY <2>1 DEF LedAccess, ledVars, Minding
    <3> QED
      BY <1>4, <1>10, <3>1, StepsAlone DEF Step, Quiet
  <2>2. CASE LedFirst(p)
    BY <1>8, <2>2, Zenon DEF LedFirst
  <2>3. CASE LedLoop(p)
    <3>1. UNCHANGED <<led, put>> /\ pc'[p] \in Minding
      BY <1>1, <2>3 DEF LedLoop, Goto, ProcTypes, Minding
    <3> QED
      BY <1>9, <1>10, <3>1, StepsAlone DEF Step, Quiet
  <2>4. CASE LedBlink(p)
    <3>1. "sleep" \in Minding
      BY DEF Minding
    <3> QED
      BY <1>8, <2>4, <3>1, Zenon DEF LedBlink
  <2>5. CASE LedSleep(p)
    <3>1. UNCHANGED <<led, put>> /\ pc'[p] \in Minding
      BY <1>1, <2>5 DEF LedSleep, Goto, ProcTypes, ledVars, Minding
    <3> QED
      BY <1>9, <1>10, <3>1, StepsAlone DEF Step, Quiet
  <2>6. CASE LedLast(p)
    BY <1>8, <2>6, Zenon DEF LedLast
  <2> QED
    BY <1>10, <2>1, <2>2, <2>3, <2>4, <2>5, <2>6 DEF Led
<1>11. ASSUME NEW p \in Procs, CtrlCLed(p) PROVE LedLit'
  <2>1. UNCHANGED <<led, put>> /\ (pc[p] \in Minding => pc'[p] \in Minding)
    BY <1>1, <1>11 DEF CtrlCLed, Goto, ProcTypes, Minding
  <2>2. Alone(p)
    BY <1>11, StepsAlone DEF Step, Quiet
  <2> QED
    BY <1>2, <2>1, <2>2 DEF Alone
<1> QED
  BY Steps, <1>3, <1>6, <1>7, <1>10, <1>11, Zenon DEF Step, Quiet

-----------------------------------------------------------------------------
(* What select reports is still there when it is read. *)

(* A process whose two opens found different files reads one that the path   *)
(* has left for ever.                                                        *)
Moved(p) == fifo_wr[p] \notin {"none", fifo_rd[p]} => path # fifo_rd[p]

Sharers == \A p, q \in Procs :
    p # q /\ fifo_rd[p] = fifo_rd[q] /\ fifo_rd[p] # "none" => fifo_rd[p] \in shared

(* Between select and the read the FIFO has data, or somebody else may have  *)
(* taken it, or nobody has it open for writing.                              *)
Reported(p) ==
    fifo_rd[p] # "none" /\ (pc[p] = "second" \/ ready[p]) =>
        \/ kind[fifo_rd[p]] = "regular" \/ data[fifo_rd[p]] # <<>> \/ fifo_rd[p] \in shared
        \/ \A q \in Procs : fifo_wr[q] # fifo_rd[p]

Found(p) == /\ got[p] = "eof" => kind[fifo_rd[p]] = "regular" \/ fifo_wr[p] # fifo_rd[p]
            /\ got[p] = "EAGAIN" => fifo_rd[p] \in shared

Waiting == Sharers /\ \A p \in Procs : Moved(p) /\ Reported(p) /\ Found(p)

(* What others may do to a file that somebody has open. *)
Undisturbed(f) ==
    /\ kind'[f] = kind[f] /\ (f \in shared => f \in shared') /\ (path' = f => path = f)
    /\ data[f] # <<>> => data'[f] # <<>> \/ f \in shared
    /\ \A q \in Procs : fifo_wr'[q] = f => path = f \/ \E r \in Procs : fifo_wr[r] = f

LEMMA EchoUndisturbed ==
    ASSUME TypeOK, NEW p \in Procs, fifo_rd[p] # "none", Echo
    PROVE  Undisturbed(fifo_rd[p])
<1> DEFINE f == fifo_rd[p]
<1>0. FileTypes /\ ProcTypes
  BY TypeParts
<1>1. f \in Files /\ FileTypes
  BY <1>0 DEF ProcTypes
<1>2. UNCHANGED fifo_wr
  BY DEF Echo, procVars
<1> HIDE DEF f
<1>3. ASSUME Make("regular", <<echoes'>>) PROVE Undisturbed(f)
  <2>1. PICK g \in Files :
             /\ g # f /\ path' = g /\ kind' = [kind EXCEPT ![g] = "regular"]
             /\ data' = [data EXCEPT ![g] = <<echoes'>>] /\ shared' = shared \ {g}
    BY <1>3, MakeFacts DEF f
  <2> QED
    BY <1>1, <1>2, <2>1 DEF Undisturbed, FileTypes
<1>4. ASSUME path # "none", UNCHANGED <<path, kind, shared>>,
             NEW d, data' = [data EXCEPT ![path] = d], d # <<>>
      PROVE  Undisturbed(f)
  BY <1>1, <1>2, <1>4 DEF Undisturbed, FileTypes
<1>5. <<echoes'>> # <<>>
  OBVIOUS
<1>6. path # "none" => Append(data[path], echoes') # <<>>
  BY <1>1, AppendProperties DEF FileTypes
<1>7. Undisturbed(f)
  BY <1>3, <1>4, <1>5, <1>6, Zenon DEF Echo
<1> QED
  BY <1>7 DEF f

LEMMA OthersUndisturbed ==
    ASSUME TypeOK, Places, Kinds, Sharers, NEW p \in Procs, NEW q \in Procs, q # p,
           fifo_rd[p] # "none", Step(q)
    PROVE  Undisturbed(fifo_rd[p])
<1> DEFINE f == fifo_rd[p]
<1>0. FileTypes /\ ProcTypes
  BY TypeParts
<1>1. f \in Files /\ FileTypes /\ ProcTypes
  BY <1>0 DEF ProcTypes
<1>2. ASSUME UNCHANGED <<path, kind, data, shared, fifo_wr>> PROVE Undisturbed(f)
  BY <1>2 DEF Undisturbed
<1>3. CASE Quiet(q)
  BY <1>2, <1>3, QuietFacts
<1>4. CASE Ends(q)
  <2>1. PICK b \in {path, "none"} : End(q, b)
    BY <1>4 DEF Ends
  <2>2. /\ path' = b /\ fifo_wr' = [fifo_wr EXCEPT ![q] = "none"]
        /\ data'[f] = data[f] /\ kind'[f] = kind[f] /\ (f \in shared => f \in shared')
    BY <1>1, <2>1, EndFacts
  <2>3. f # "none"
    OBVIOUS
  <2> HIDE DEF f
  <2>4. Undisturbed(f)
    BY <1>1, <2>1, <2>2, <2>3 DEF Undisturbed, ProcTypes
  <2> QED
    BY <2>4 DEF f
<1>5. CASE Mkfifo(q)
  <2>1. UNCHANGED fifo_wr /\ (Make("fifo", <<>>) \/ UNCHANGED <<path, kind, data, shared>>)
    BY <1>5 DEF Mkfifo, procVars
  <2>2. CASE Make("fifo", <<>>)
    <3>1. PICK g \in Files :
               /\ g # f /\ path' = g /\ kind' = [kind EXCEPT ![g] = "fifo"]
               /\ data' = [data EXCEPT ![g] = <<>>] /\ shared' = shared \ {g}
      BY <2>2, MakeFacts
    <3> HIDE DEF f
    <3>2. Undisturbed(f)
      BY <1>1, <2>1, <3>1 DEF Undisturbed, FileTypes
    <3> QED
      BY <3>2 DEF f
  <2> QED
    BY <1>2, <2>1, <2>2
<1>6. CASE OpenRead(q)
  <2>1. UNCHANGED <<path, kind, data, fifo_wr>> /\ shared \subseteq shared'
    BY <1>6 DEF OpenRead
  <2> QED
    BY <2>1 DEF Undisturbed
<1>7. CASE OpensWrite(q)
  <2>1. UNCHANGED <<path, kind, data, shared>> /\ fifo_wr' = [fifo_wr EXCEPT ![q] = path]
    BY <1>7 DEF OpensWrite, fileVars
  <2> HIDE DEF f
  <2>2. Undisturbed(f)
    BY <1>1, <2>1 DEF Undisturbed, ProcTypes
  <2> QED
    BY <2>2 DEF f
<1>8. CASE ReadFifo(q)
  <2>1. fifo_rd[q] \in Files /\ UNCHANGED <<path, kind, shared, fifo_wr>>
    BY <1>8, ReadFacts
  <2>2. fifo_rd[q] = f => f \in shared
    BY <2>1 DEF Sharers
  <2>3. data'[f] = data[f] \/ fifo_rd[q] = f
    <3>1. ASSUME NEW n, NEW g, NEW s, NEW a, Taken(q, n, g, s, a)
          PROVE  data'[f] = data[f] \/ fifo_rd[q] = f
      <4> HIDE DEF f
      <4> QED
        BY <1>1, <3>1 DEF Taken, FileTypes
    <3> QED
      BY <1>8, <3>1, ReadFacts
  <2> HIDE DEF f
  <2>4. Undisturbed(f)
    BY <2>1, <2>2, <2>3 DEF Undisturbed
  <2> QED
    BY <2>4 DEF f
<1> QED
  BY <1>3, <1>4, <1>5, <1>6, <1>7, <1>8 DEF Step

(* So nothing changes for a process that does not move. *)
LEMMA WaitingStays ==
    ASSUME Places, NEW p \in Procs, Moved(p), Reported(p), Found(p),
           fifo_rd[p] # "none" => Undisturbed(fifo_rd[p]),
           pc'[p] = pc[p], fifo_rd'[p] = fifo_rd[p], fifo_wr'[p] = fifo_wr[p],
           ready'[p] = ready[p], got'[p] = got[p]
    PROVE  Moved(p)' /\ Reported(p)' /\ Found(p)'
<1>1. PlaceOf(p)
  BY DEF Places
<1>2. CASE fifo_rd[p] = "none"
  BY <1>1, <1>2 DEF PlaceOf, Moved, Reported, Found, Looping
<1>3. CASE fifo_rd[p] # "none"
  <2>1. Undisturbed(fifo_rd[p])
    BY <1>3
  <2>2. Moved(p)' /\ Found(p)'
    BY <1>3, <2>1 DEF Undisturbed, Moved, Found
  <2>3. ASSUME pc[p] = "second" \/ ready[p], \A q \in Procs : fifo_wr[q] # fifo_rd[p]
        PROVE  \A q \in Procs : fifo_wr'[q] # fifo_rd[p]
    <3>1. fifo_wr[p] # "none" /\ fifo_wr[p] # fifo_rd[p]
      BY <1>1, <1>3, <2>3 DEF PlaceOf, Looping
    <3>2. path # fifo_rd[p]
      BY <3>1 DEF Moved
    <3> QED
      BY <2>1, <2>3, <3>2 DEF Undisturbed
  <2>4. Reported(p)'
    BY <1>3, <2>1, <2>3 DEF Undisturbed, Reported
  <2> QED
    BY <2>2, <2>4
<1> QED
  BY <1>2, <1>3

(* The steps of the process itself. *)
LEMMA OwnWaiting ==
    ASSUME TypeOK, Places, Places', Kinds, NEW p \in Procs, Moved(p), Reported(p), Found(p), Step(p)
    PROVE  Moved(p)' /\ Reported(p)' /\ Found(p)'
<1>1. FileTypes /\ ProcTypes /\ PlaceOf(p) /\ PlaceOf(p)'
  BY TypeParts DEF Places
<1>2. ASSUME UNCHANGED <<path, fifo_rd, fifo_wr>> PROVE Moved(p)'
  BY <1>2 DEF Moved
<1>3. ASSUME pc'[p] \notin {"stdin", "second"} PROVE Reported(p)'
  BY <1>1, <1>3 DEF PlaceOf, Reported
<1>4. ASSUME got'[p] \in {"nothing", "data"} PROVE Found(p)'
  BY <1>4 DEF Found
<1>5. ASSUME pc'[p] # "select" PROVE Found(p)'
  BY <1>1, <1>5 DEF PlaceOf, Found
<1>6. ASSUME pc'[p] \in {"off", "mkfifo", "open"} PROVE Moved(p)'
  BY <1>1, <1>6 DEF PlaceOf, Looping, Moved
<1>7. CASE Type(p, "line") \/ Type(p, "eof")
  <2>1. UNCHANGED <<path, kind, data, shared, fifo_rd, fifo_wr, pc, ready, got>>
    BY <1>7 DEF Type, fileVars, procVars
  <2> QED
    BY <2>1 DEF Moved, Reported, Found
<1>8. CASE Led(p) \/ CtrlCLed(p)
  <2>1. PICK l \in Blinking \cup {"off"} : pc' = [pc EXCEPT ![p] = l]
    BY <1>8, LedFacts
  <2>2. pc'[p] \notin Looping /\ UNCHANGED <<path, fifo_rd, fifo_wr>>
    BY <1>1, <1>8, <2>1, LedFacts DEF ProcTypes, Looping, Blinking, fileVars, procVars
  <2> QED
    BY <1>2, <1>3, <1>5, <2>2 DEF Looping
<1>9. CASE Start(p)
  <2>1. PICK l \in {"mkfifo", "open", "access", "select"} : pc' = [pc EXCEPT ![p] = l]
    BY <1>9, StartPlace
  <2>2. pc'[p] \notin {"stdin", "second"} /\ UNCHANGED <<path, fifo_rd, fifo_wr, got>>
    BY <1>1, <1>9, <2>1 DEF Start, ProcTypes, fileVars
  <2>3. got[p] = "nothing"
    BY <1>1, <1>9 DEF Start, PlaceOf
  <2> QED
    BY <1>2, <1>3, <1>4, <2>2, <2>3
<1>10. CASE Select(p)
  <2>1. /\ UNCHANGED <<path, kind, data, shared, fifo_rd, fifo_wr>> /\ got'[p] = "nothing"
        /\ pc[p] = "select"
    BY <1>1, <1>10 DEF Select, fileVars, ProcTypes
  <2>2. PICK second \in MaybeReady(p) :
          /\ second \/ tty[p] # <<>>
          /\ ready' = [ready EXCEPT ![p] = second /\ tty[p] # <<>>]
          /\ Goto(p, IF tty[p] # <<>> THEN "stdin" ELSE "second")
    BY <1>10 DEF Select
  <2>3. /\ pc'[p] = IF tty[p] # <<>> THEN "stdin" ELSE "second"
        /\ ready'[p] <=> second /\ tty[p] # <<>>
    BY <1>1, <2>2 DEF Goto, ProcTypes
  <2>4. pc'[p] = "second" \/ ready'[p] => second
    BY <2>2, <2>3
  <2>5. fifo_rd[p] # "none" => prog[p] = "select"
    BY <1>1 DEF PlaceOf
  <2>6. second => Readable(p) \/ \A q \in Procs : fifo_wr[q] # fifo_rd[p]
    BY <2>2 DEF MaybeReady
  <2>7. Reported(p)'
    BY <2>1, <2>4, <2>5, <2>6 DEF Reported, Readable
  <2> QED
    BY <1>2, <1>4, <2>1, <2>7
<1>11. CASE Stdin(p)
  <2>1. PICK l \in {"unlink", "second", "select"} :
          pc' = [pc EXCEPT ![p] = l] /\ (l = "second" => ready[p])
    BY <1>11, StdinPlace
  <2>2. /\ pc'[p] = l /\ UNCHANGED <<path, kind, data, shared, fifo_rd, fifo_wr, got>>
        /\ ready'[p] = FALSE /\ pc[p] = "stdin"
    BY <1>1, <1>11, <2>1 DEF Stdin, ProcTypes, fileVars
  <2>3. got[p] = "nothing"
    BY <1>1, <2>2 DEF PlaceOf, ProcTypes
  <2>4. Reported(p)'
    BY <2>1, <2>2 DEF Reported
  <2> QED
    BY <1>2, <1>4, <2>2, <2>3, <2>4
<1>12. CASE ReadRandom(p)
  <2>1. /\ pc'[p] = "select" /\ UNCHANGED <<path, fifo_rd, fifo_wr, got>> /\ pc[p] = "second"
    BY <1>1, <1>12 DEF ReadRandom, Goto, ProcTypes, procVars, fileVars
  <2>2. got[p] = "nothing"
    BY <1>1, <2>1 DEF PlaceOf
  <2> QED
    BY <1>2, <1>3, <1>4, <2>1, <2>2
<1>13. CASE Ends(p) \/ Mkfifo(p)
  <2>1. pc'[p] \in {"off", "open"}
    BY <1>1, <1>13 DEF Ends, End, Mkfifo, Goto, ProcTypes
  <2> QED
    BY <1>3, <1>5, <1>6, <2>1
<1>14. CASE OpenRead(p)
  <2>1. pc'[p] \in {"open write", "off"}
    BY <1>1, <1>14 DEF OpenRead, Goto, ProcTypes
  <2>2. fifo_wr'[p] = "none"
    BY <1>1, <2>1 DEF PlaceOf, Looping
  <2> QED
    BY <1>3, <1>5, <2>1, <2>2 DEF Moved
<1>15. CASE OpensWrite(p)
  <2>1. /\ pc'[p] = "select" /\ fifo_wr'[p] = path /\ UNCHANGED <<path, fifo_rd, got>>
        /\ pc[p] = "open write"
    BY <1>1, <1>15 DEF OpensWrite, Goto, ProcTypes, fileVars
  <2>2. got[p] = "nothing"
    BY <1>1, <2>1 DEF PlaceOf
  <2> QED
    BY <1>3, <1>4, <2>1, <2>2 DEF Moved
<1>16. CASE ReadFifo(p)
  <2>1. /\ pc[p] = "second" /\ pc'[p] = "select" /\ fifo_rd[p] # "none" /\ fifo_wr[p] # "none"
        /\ UNCHANGED <<path, kind, shared, fifo_rd, fifo_wr>>
    <3>1. /\ prog[p] = "select" /\ pc[p] = "second" /\ pc' = [pc EXCEPT ![p] = "select"]
          /\ UNCHANGED <<path, kind, shared, fifo_rd, fifo_wr>>
      BY <1>16, ReadFacts
    <3>2. fifo_rd[p] # "none" /\ fifo_wr[p] # "none"
      BY <1>1, <3>1 DEF PlaceOf, Looping
    <3> QED
      BY <1>1, <3>1, <3>2 DEF ProcTypes
  <2>2. Moved(p)' /\ Reported(p)'
    BY <1>2, <1>3, <2>1
  <2>3. CASE \E n, f, s, a : Taken(p, n, f, s, a)
    <3>1. got'[p] = "data"
      BY <1>1, <2>3 DEF Taken, ProcTypes
    <3> QED
      BY <1>4, <2>2, <3>1
  <2>4. CASE /\ got'[p] = "EAGAIN" => /\ kind[fifo_rd[p]] = "fifo" /\ data[fifo_rd[p]] = <<>>
                                      /\ \E q \in Procs : fifo_wr[q] = fifo_rd[p]
             /\ got'[p] = "eof" => \/ kind[fifo_rd[p]] = "regular"
                                   \/ \A q \in Procs : fifo_wr[q] # fifo_rd[p]
    <3>1. got'[p] = "EAGAIN" => fifo_rd[p] \in shared
      BY <2>1, <2>4 DEF Reported
    <3>2. Found(p)'
      BY <2>1, <2>4, <3>1 DEF Found
    <3> QED
      BY <2>2, <3>2
  <2> QED
    BY <1>16, <2>3, <2>4, ReadFacts
<1> QED
  BY <1>7, <1>8, <1>9, <1>10, <1>11, <1>12, <1>13, <1>14, <1>15, <1>16 DEF Step, Quiet

LEMMA InitWaiting == Init => Waiting
<1>1. Init => fifo_wr = [p \in Procs |-> "none"]
  BY DEF Init
<1> QED
  BY <1>1 DEF Init, Waiting, Sharers, Moved, Reported, Found

LEMMA NextWaiting ==
    ASSUME TypeOK, Places, Places', Kinds, Waiting, Next
    PROVE  Waiting'
<1>1. Sharers /\ ProcTypes /\ FileTypes
  BY TypeParts DEF Waiting
<1>2. CASE Echo
  <2>1. UNCHANGED <<pc, fifo_rd, fifo_wr, ready, got>>
    BY <1>2 DEF Echo, procVars
  <2>2. ASSUME NEW p \in Procs PROVE fifo_rd[p] # "none" => Undisturbed(fifo_rd[p])
    BY <1>2, EchoUndisturbed
  <2>3. ASSUME NEW p \in Procs PROVE Moved(p)' /\ Reported(p)' /\ Found(p)'
    <3>1. Moved(p) /\ Reported(p) /\ Found(p)
      BY DEF Waiting
    <3> QED
      BY <2>1, <2>2, <3>1, WaitingStays
  <2>4. Sharers'
    BY <1>1, <2>1, <2>2 DEF Sharers, Undisturbed
  <2> QED
    BY <2>3, <2>4, Zenon DEF Waiting
<1>3. ASSUME NEW p \in Procs, Step(p) PROVE Waiting'
  <2>1. Alone(p)
    BY <1>3, StepsAlone
  <2>2. ASSUME NEW q \in Procs, q # p PROVE fifo_rd[q] # "none" => Undisturbed(fifo_rd[q])
    BY <1>1, <1>3, <2>2, OthersUndisturbed
  <2>3. ASSUME NEW q \in Procs, q # p PROVE Moved(q)' /\ Reported(q)' /\ Found(q)'
    <3>1. Moved(q) /\ Reported(q) /\ Found(q)
      BY DEF Waiting
    <3>2. /\ pc'[q] = pc[q] /\ fifo_rd'[q] = fifo_rd[q] /\ fifo_wr'[q] = fifo_wr[q]
          /\ ready'[q] = ready[q] /\ got'[q] = got[q]
      BY <2>1, <2>3 DEF Alone
    <3> QED
      BY <2>2, <2>3, <3>1, <3>2, WaitingStays
  <2>4. Moved(p)' /\ Reported(p)' /\ Found(p)'
    <3>1. Moved(p) /\ Reported(p) /\ Found(p)
      BY DEF Waiting
    <3> QED
      BY <1>3, <3>1, OwnWaiting
  <2>5. \/ fifo_rd'[p] = fifo_rd[p] \/ fifo_rd'[p] = "none"
        \/ \A q \in Procs : q # p /\ fifo_rd[q] = fifo_rd'[p] => fifo_rd[q] \in shared'
    <3>1. CASE OpenRead(p)
      <4>1. /\ fifo_rd'[p] = path
            /\ shared' = IF path = "none" \/ Opens(path) = {} THEN shared ELSE shared \cup {path}
        BY <1>1, <3>1 DEF OpenRead, ProcTypes
      <4>2. \A q \in Procs : fifo_rd[q] = path => Opens(path) # {}
        BY DEF Opens
      <4> QED
        BY <4>1, <4>2
    <3>2. CASE Ends(p)
      BY <1>1, <3>2 DEF Ends, End, ProcTypes
    <3>3. CASE Quiet(p)
      BY <3>3, QuietFacts
    <3>4. CASE Mkfifo(p) \/ OpensWrite(p) \/ ReadFifo(p)
      BY <3>4 DEF Mkfifo, OpensWrite, ReadFifo, procVars
    <3> QED
      BY <1>3, <3>1, <3>2, <3>3, <3>4 DEF Step
  <2>6. ASSUME NEW q \in Procs, NEW r \in Procs, q # r, q # p, fifo_rd'[q] = fifo_rd'[r],
               fifo_rd'[q] # "none"
        PROVE  fifo_rd'[q] \in shared'
    <3>1. fifo_rd'[q] = fifo_rd[q] /\ (r # p => fifo_rd'[r] = fifo_rd[r])
      BY <2>1, <2>6 DEF Alone
    <3>2. Undisturbed(fifo_rd[q])
      BY <2>2, <2>6, <3>1
    <3>3. fifo_rd[r] = fifo_rd[q] => fifo_rd[q] \in shared'
      BY <1>1, <2>6, <3>1, <3>2 DEF Sharers, Undisturbed
    <3> QED
      BY <2>5, <2>6, <3>1, <3>3
  <2>7. Sharers'
    <3>1. ASSUME NEW q \in Procs, NEW r \in Procs, q # r, fifo_rd'[q] = fifo_rd'[r],
                 fifo_rd'[q] # "none"
          PROVE  fifo_rd'[q] \in shared'
      BY <2>6, <3>1
    <3> QED
      BY <3>1 DEF Sharers
  <2> QED
    BY <2>3, <2>4, <2>7, Zenon DEF Waiting
<1> QED
  BY <1>2, <1>3, Steps

-----------------------------------------------------------------------------
(* Sequences of messages. *)

Increasing(s) == \A i, j \in DOMAIN s : i < j => s[i] < s[j]
Before(s, t) == \A x \in Range(s), y \in Range(t) : x < y

(* What was taken from an increasing sequence comes before what is left. *)
LEMMA Cut ==
    ASSUME NEW s \in Seq(Nat), Increasing(s), NEW n \in 1 .. Len(s),
           NEW a, a = SubSeq(s, 1, n), NEW b, b = SubSeq(s, n + 1, Len(s))
    PROVE  /\ Increasing(a) /\ Increasing(b) /\ Before(a, b)
           /\ Range(a) \subseteq Range(s) /\ Range(b) \subseteq Range(s)
<1>1. /\ a \in Seq(Nat) /\ Len(a) = n /\ DOMAIN a = 1 .. n
      /\ \A i \in 1 .. n : a[i] = s[i]
  OBVIOUS
<1>2. /\ b \in Seq(Nat) /\ Len(b) = Len(s) - n /\ DOMAIN b = 1 .. Len(s) - n
      /\ \A i \in 1 .. Len(s) - n : b[i] = s[n + i]
  OBVIOUS
<1>3. DOMAIN s = 1 .. Len(s) /\ \A i \in 1 .. Len(s) : s[i] \in Nat
  OBVIOUS
<1> PICK m \in Nat : m = Len(s)
  OBVIOUS
<1>4. DOMAIN a \subseteq DOMAIN s /\ \A i \in DOMAIN a : i <= n
  BY <1>1, <1>3
<1>5. \A i \in DOMAIN b : n + i \in DOMAIN s /\ i > 0
  BY <1>2, <1>3
<1>6. Increasing(a)
  BY <1>1, <1>4 DEF Increasing
<1>7. Increasing(b)
  <2>1. ASSUME NEW i \in DOMAIN b, NEW j \in DOMAIN b, i < j PROVE b[i] < b[j]
    <3>1. n + i < n + j
      BY <1>2, <2>1
    <3>2. s[n + i] < s[n + j]
      BY <1>5, <3>1 DEF Increasing
    <3> QED
      BY <1>2, <3>2
  <2> QED
    BY <2>1 DEF Increasing
<1>8. Range(a) \subseteq Range(s)
  BY <1>1, <1>4 DEF Range
<1>9. Range(b) \subseteq Range(s)
  <2>1. \A i \in DOMAIN b : b[i] = s[n + i]
    BY <1>2
  <2> QED
    BY <1>5, <2>1 DEF Range
<1>10. Before(a, b)
  <2>1. ASSUME NEW i \in DOMAIN a, NEW j \in DOMAIN b PROVE a[i] < b[j]
    <3>1. i < n + j
      BY <1>1, <1>2, <2>1
    <3>2. s[i] < s[n + j]
      BY <1>4, <1>5, <3>1 DEF Increasing
    <3> QED
      BY <1>1, <1>2, <3>2
  <2> QED
    BY <2>1 DEF Before, Range
<1> QED
  BY <1>6, <1>7, <1>8, <1>9, <1>10

(* Increasing sequences one after the other. *)
LEMMA Joined ==
    ASSUME NEW s \in Seq(Nat), NEW t \in Seq(Nat)
    PROVE  /\ Range(s \o t) = Range(s) \cup Range(t)
           /\ Increasing(s) /\ Increasing(t) /\ Before(s, t) => Increasing(s \o t)
<1> DEFINE u == s \o t
<1>1. /\ DOMAIN u = 1 .. Len(s) + Len(t) /\ DOMAIN s = 1 .. Len(s) /\ DOMAIN t = 1 .. Len(t)
      /\ \A i \in 1 .. Len(s) : u[i] = s[i]
      /\ \A i \in 1 .. Len(t) : u[Len(s) + i] = t[i]
  BY ConcatProperties
<1> HIDE DEF u
<1>2. \A i \in DOMAIN u : i \in DOMAIN s \/ (i - Len(s) \in DOMAIN t /\ u[i] = t[i - Len(s)])
  <2>1. ASSUME NEW i \in DOMAIN u, i \notin DOMAIN s
        PROVE  i - Len(s) \in DOMAIN t /\ u[i] = t[i - Len(s)]
    <3>1. i - Len(s) \in 1 .. Len(t) /\ Len(s) + (i - Len(s)) = i
      BY <1>1, <2>1
    <3> QED
      BY <1>1, <3>1
  <2> QED
    BY <2>1
<1>3. Range(u) = Range(s) \cup Range(t)
  <2>1. Range(u) \subseteq Range(s) \cup Range(t)
    BY <1>1, <1>2 DEF Range
  <2>2. Range(s) \subseteq Range(u)
    BY <1>1 DEF Range
  <2>3. Range(t) \subseteq Range(u)
    <3>1. ASSUME NEW i \in 1 .. Len(t) PROVE Len(s) + i \in DOMAIN u
      BY <1>1
    <3>2. \A i \in DOMAIN t : \E j \in DOMAIN u : u[j] = t[i]
      BY <1>1, <3>1
    <3> QED
      BY <3>2, Zenon DEF Range
  <2> QED
    BY <2>1, <2>2, <2>3
<1>4. ASSUME Increasing(s), Increasing(t), Before(s, t),
             NEW i \in DOMAIN u, NEW j \in DOMAIN u, i < j
      PROVE  u[i] < u[j]
  <2>1. CASE j \in DOMAIN s
    BY <1>1, <1>4, <2>1 DEF Increasing
  <2>2. CASE i \in DOMAIN s /\ j \notin DOMAIN s
    <3>1. u[i] \in Range(s) /\ u[j] \in Range(t)
      BY <1>1, <1>2, <1>4, <2>2 DEF Range
    <3> QED
      BY <1>4, <3>1 DEF Before
  <2>3. CASE i \notin DOMAIN s /\ j \notin DOMAIN s
    BY <1>1, <1>2, <1>4, <2>3 DEF Increasing
  <2> QED
    BY <1>1, <1>4, <2>1, <2>2, <2>3
<1> QED
  BY <1>3, <1>4 DEF Increasing, u

-----------------------------------------------------------------------------
(* What becomes of messages. *)

(* Messages are numbered as they are sent. *)
Sent == /\ \A f \in Files : Range(data[f]) \subseteq 1 .. echoes
        /\ \A p \in Procs : Range(printed[p]) \subseteq 1 .. echoes
        /\ direct \subseteq 1 .. echoes

(* Files and terminals show them in order; what a process will read from a   *)
(* FIFO comes after what it has printed.                                     *)
Ordered ==
    /\ \A f \in Files : Increasing(data[f])
    /\ \A p \in Procs : Increasing(printed[p])
    /\ \A p \in Procs : fifo_rd[p] # "none" /\ kind[fifo_rd[p]] = "fifo" =>
         Before(printed[p], data[fifo_rd[p]])

(* A message that went through a FIFO is at one place at most. *)
Once == \A m \in direct :
    /\ \A f, g \in Files : m \in Range(data[f]) /\ m \in Range(data[g]) => f = g
    /\ \A f \in Files, p \in Procs : m \in Range(data[f]) => m \notin Range(printed[p])
    /\ \A p, q \in Procs : m \in Range(printed[p]) /\ m \in Range(printed[q]) => p = q

Messages == Kinds /\ Sent /\ Ordered /\ Once

LEMMA EmptyRange == Range(<<>>) = {} /\ Increasing(<<>>)
BY DEF Range, Increasing

LEMMA InitMessages == Init => Messages
<1> SUFFICES ASSUME Init PROVE Messages
    OBVIOUS
<1>1. /\ \A f \in Files : data[f] = <<>> /\ kind[f] = "fifo"
      /\ \A p \in Procs : printed[p] = <<>> /\ fifo_rd[p] = "none"
      /\ direct = {}
  BY DEF Init
<1> QED
  BY <1>1, EmptyRange DEF Messages, Kinds, Sent, Ordered, Once

(* Steps that send and read nothing: data may be lost, and a process that    *)

(* opens a file has printed nothing yet.                                     *)
LEMMA FewerMessages ==
    ASSUME Messages, TypeOK, TypeOK', UNCHANGED <<echoes, direct>>,
           \A f \in Files : \/ data'[f] = data[f] /\ kind'[f] = kind[f]
                            \/ data'[f] = <<>> /\ kind'[f] = "fifo",
           \A p \in Procs : printed'[p] = printed[p] \/ printed'[p] = <<>>,
           \A p \in Procs : fifo_rd'[p] # "none" =>
              \/ /\ fifo_rd'[p] = fifo_rd[p] /\ pos'[p] = pos[p] /\ printed'[p] = printed[p]
                 /\ kind'[fifo_rd[p]] = kind[fifo_rd[p]] /\ data'[fifo_rd[p]] = data[fifo_rd[p]]
              \/ pos'[p] = 0 /\ printed'[p] = <<>>
    PROVE  Messages'
<1>1. FileTypes /\ ProcTypes /\ FileTypes' /\ ProcTypes'
  BY TypeParts
<1>2. /\ \A f \in Files : data'[f] = data[f] \/ Range(data'[f]) = {}
      /\ \A p \in Procs : printed'[p] = printed[p] \/ Range(printed'[p]) = {}
  BY EmptyRange
<1>3. Kinds'
  <2>1. ASSUME NEW f \in Files
        PROVE  IF kind'[f] = "regular" THEN Len(data'[f]) = 1 /\ Range(data'[f]) \cap direct' = {}
                                       ELSE Range(data'[f]) \subseteq direct'
    BY <2>1, EmptyRange DEF Messages, Kinds
  <2>2. ASSUME NEW p \in Procs, fifo_rd'[p] # "none"
        PROVE  IF kind'[fifo_rd'[p]] = "regular"
               THEN pos'[p] \in {0, 1} /\ (pos'[p] = 0 => printed'[p] = <<>>)
               ELSE pos'[p] = 0
    BY <2>2 DEF Messages, Kinds
  <2> QED
    BY <2>1, <2>2 DEF Kinds
<1>4. Sent'
  BY <1>2 DEF Messages, Sent
<1>5. Ordered'
  <2>1. \A f \in Files : Increasing(data'[f])
    BY EmptyRange DEF Messages, Ordered
  <2>2. \A p \in Procs : Increasing(printed'[p])
    BY EmptyRange DEF Messages, Ordered
  <2>3. ASSUME NEW p \in Procs, fifo_rd'[p] # "none", kind'[fifo_rd'[p]] = "fifo"
        PROVE  Before(printed'[p], data'[fifo_rd'[p]])
    <3>1. CASE printed'[p] = <<>>
      BY <3>1, EmptyRange DEF Before
    <3>2. CASE printed'[p] # <<>>
      BY <2>3, <3>2 DEF Messages, Ordered
    <3> QED
      BY <3>1, <3>2
  <2> QED
    BY <2>1, <2>2, <2>3 DEF Ordered
<1>6. Once'
  <2>1. /\ \A f \in Files : \A m : m \in Range(data'[f]) => m \in Range(data[f])
        /\ \A p \in Procs : \A m : m \in Range(printed'[p]) => m \in Range(printed[p])
    BY <1>2
  <2>2. Once
    BY DEF Messages
  <2> QED
    BY <2>1, <2>2 DEF Once
<1> QED
  BY <1>3, <1>4, <1>5, <1>6 DEF Messages

LEMMA StillMessages ==
    ASSUME Messages, TypeOK, TypeOK', Places, NEW p \in Procs,
           Quiet(p) \/ Ends(p) \/ Mkfifo(p) \/ OpenRead(p) \/ OpensWrite(p)
    PROVE  Messages'
<1>1. FileTypes /\ ProcTypes /\ PlaceOf(p)
  BY TypeParts DEF Places
<1>2. Alone(p)
  BY StepsAlone DEF Step
<1>3. CASE Quiet(p)
  <2>1. UNCHANGED <<path, kind, data, echoes, direct, shared, fifo_rd, fifo_wr, pos>>
    BY <1>3, QuietFacts
  <2>2. printed'[p] = printed[p] \/ (printed'[p] = <<>> /\ fifo_rd[p] = "none")
    <3>1. CASE Start(p)
      BY <1>1, <3>1 DEF Start, ProcTypes, PlaceOf, Looping
    <3>2. CASE Led(p) \/ CtrlCLed(p)
      BY <3>2, LedFacts DEF procVars
    <3>3. CASE Type(p, "line") \/ Type(p, "eof") \/ Select(p) \/ Stdin(p) \/ ReadRandom(p)
      BY <3>3 DEF Type, Select, Stdin, ReadRandom, procVars
    <3> QED
      BY <1>3, <3>1, <3>2, <3>3 DEF Quiet
  <2>3. \A q \in Procs : \/ printed'[q] = printed[q]
                         \/ printed'[q] = <<>> /\ fifo_rd[q] = "none"
    BY <1>2, <2>2 DEF Alone
  <2> QED
    BY <2>1, <2>3, FewerMessages
<1>4. CASE Ends(p)
  <2>1. PICK b \in {path, "none"} : End(p, b)
    BY <1>4 DEF Ends
  <2>2. /\ UNCHANGED <<echoes, direct, printed>>
        /\ \A f \in Files : \/ data'[f] = data[f] /\ kind'[f] = kind[f]
                            \/ data'[f] = <<>> /\ kind'[f] = "fifo"
        /\ \A f \in Files, q \in Procs : q # p /\ f \in {fifo_rd[q], fifo_wr[q]} =>
              data'[f] = data[f] /\ kind'[f] = kind[f]
    BY <2>1, EndFacts
  <2>3. fifo_rd'[p] = "none"
    BY <1>1, <2>1 DEF End, ProcTypes
  <2>4. ASSUME NEW q \in Procs, fifo_rd'[q] # "none"
        PROVE  /\ fifo_rd'[q] = fifo_rd[q] /\ pos'[q] = pos[q]
               /\ kind'[fifo_rd[q]] = kind[fifo_rd[q]] /\ data'[fifo_rd[q]] = data[fifo_rd[q]]
    <3>1. q # p
      BY <2>3, <2>4
    <3>2. fifo_rd'[q] = fifo_rd[q] /\ pos'[q] = pos[q]
      BY <1>2, <3>1 DEF Alone
    <3>3. fifo_rd[q] \in Files
      BY <1>1, <2>4, <3>2 DEF ProcTypes
    <3> QED
      BY <2>2, <3>1, <3>2, <3>3
  <2> QED
    BY <2>2, <2>4, FewerMessages
<1>5. CASE Mkfifo(p)
  <2>1. /\ Make("fifo", <<>>) \/ UNCHANGED <<kind, data>>
        /\ UNCHANGED <<echoes, direct, fifo_rd, pos, printed>>
    BY <1>5 DEF Mkfifo, procVars
  <2>2. CASE UNCHANGED <<kind, data>>
    BY <2>1, <2>2, FewerMessages
  <2>3. CASE Make("fifo", <<>>)
    <3>1. PICK f \in Files :
               /\ \A q \in Procs : fifo_rd[q] # f
               /\ kind' = [kind EXCEPT ![f] = "fifo"] /\ data' = [data EXCEPT ![f] = <<>>]
      BY <2>3, MakeFacts
    <3>2. /\ data'[f] = <<>> /\ kind'[f] = "fifo"
          /\ \A g \in Files : g # f => data'[g] = data[g] /\ kind'[g] = kind[g]
      BY <1>1, <3>1 DEF FileTypes
    <3>3. \A q \in Procs : fifo_rd[q] # "none" => fifo_rd[q] \in Files /\ fifo_rd[q] # f
      BY <1>1, <3>1 DEF ProcTypes
    <3> QED
      BY <2>1, <3>2, <3>3, FewerMessages
  <2> QED
    BY <2>1, <2>2, <2>3
<1>6. CASE OpenRead(p)
  <2>1. /\ UNCHANGED <<kind, data, echoes, direct, pos, printed>> /\ pc[p] = "open"
        /\ \A q \in Procs : q # p => fifo_rd'[q] = fifo_rd[q]
    BY <1>2, <1>6 DEF OpenRead, Alone
  <2>2. pos[p] = 0 /\ printed[p] = <<>>
    BY <1>1, <2>1 DEF PlaceOf, Looping
  <2> QED
    BY <2>1, <2>2, FewerMessages
<1>7. CASE OpensWrite(p)
  <2>1. UNCHANGED <<kind, data, echoes, direct, pos, printed, fifo_rd>>
    BY <1>7 DEF OpensWrite, fileVars
  <2> QED
    BY <2>1, FewerMessages
<1> QED
  BY <1>3, <1>4, <1>5, <1>6, <1>7

(* One more message at the end. *)
LEMMA Appended ==
    ASSUME NEW s \in Seq(Nat), Increasing(s), NEW k \in Nat, Range(s) \subseteq 1 .. k,
           NEW t, t = Append(s, k + 1)
    PROVE  Increasing(t) /\ Range(t) = Range(s) \cup {k + 1}
<1>0. k + 1 \in Nat
  OBVIOUS
<1> PICK u \in Seq(Nat) : u = <<k + 1>>
  <2>1. <<k + 1>> \in Seq(Nat)
    BY <1>0
  <2> QED
    BY <2>1, Zenon
<1>1. Len(u) = 1 /\ DOMAIN u = {1} /\ u[1] = k + 1
  OBVIOUS
<1>2. Increasing(u) /\ Range(u) = {k + 1}
  BY <1>1 DEF Increasing, Range
<1>3. Before(s, u)
  BY <1>2 DEF Before
<1>4. t = s \o u
  <2>1. t = s \o <<k + 1>>
    BY <1>0, AppendIsConcat
  <2> QED
    BY <2>1
<1>5. /\ Range(s \o u) = Range(s) \cup Range(u)
      /\ Increasing(s) /\ Increasing(u) /\ Before(s, u) => Increasing(s \o u)
  BY Joined, Zenon
<1> QED
  BY <1>2, <1>3, <1>4, <1>5, Zenon

(* A message is new to all files and processes. *)
LEMMA EchoMessages == ASSUME Messages, TypeOK, TypeOK', Places, Echo PROVE Messages'
<1> DEFINE m == echoes + 1
<1>1. FileTypes /\ ProcTypes /\ FileTypes' /\ ProcTypes'
  BY TypeParts
<1>2. /\ echoes' = m /\ echoes \in Nat
      /\ UNCHANGED <<fifo_rd, pos, printed>>
  BY <1>1 DEF Echo, procVars, FileTypes
<1>3. /\ \A f \in Files : m \notin Range(data[f])
      /\ \A p \in Procs : m \notin Range(printed[p])
      /\ m \notin direct /\ 1 .. echoes \subseteq 1 .. echoes' /\ m \in 1 .. echoes'
  BY <1>2 DEF Messages, Sent
<1>4. /\ \A f \in Files : data[f] \in Seq(Nat)
      /\ \A p \in Procs : printed[p] \in Seq(Nat)
  <2>1. \A s \in Seq(1 .. Echoes) : s \in Seq(Nat)
    OBVIOUS
  <2> QED
    BY <1>1, <2>1 DEF FileTypes, ProcTypes
<1>5. PICK u \in Seq(Nat) : u = <<m>>
  <2>1. <<m>> \in Seq(Nat)
    BY <1>2
  <2> QED
    BY <2>1, Zenon
<1>6. Len(u) = 1 /\ DOMAIN u = {1} /\ Range(u) = {m} /\ Increasing(u)
  <2>1. Len(u) = 1 /\ DOMAIN u = {1} /\ u[1] = m
    BY <1>5
  <2> QED
    BY <2>1 DEF Range, Increasing
(* A regular file with the message, in place of what was there. *)
<1>7. ASSUME NEW f \in Files, data' = [data EXCEPT ![f] = u], kind'[f] = "regular",
             \A g \in Files : g # f => kind'[g] = kind[g], UNCHANGED direct,
             \A p \in Procs : fifo_rd[p] = f => kind[f] = "regular"
      PROVE  Messages'
  <2>1. data'[f] = u /\ \A g \in Files : g # f => data'[g] = data[g]
    BY <1>1, <1>7 DEF FileTypes
  <2>2. Kinds'
    <3>1. ASSUME NEW g \in Files
          PROVE  IF kind'[g] = "regular" THEN Len(data'[g]) = 1 /\ Range(data'[g]) \cap direct' = {}
                                         ELSE Range(data'[g]) \subseteq direct'
      BY <1>3, <1>6, <1>7, <2>1 DEF Messages, Kinds
    <3>2. ASSUME NEW p \in Procs, fifo_rd'[p] # "none"
          PROVE  IF kind'[fifo_rd'[p]] = "regular"
                 THEN pos'[p] \in {0, 1} /\ (pos'[p] = 0 => printed'[p] = <<>>)
                 ELSE pos'[p] = 0
      BY <1>1, <1>2, <1>7, <3>2 DEF Messages, Kinds, ProcTypes
    <3> QED
      BY <3>1, <3>2 DEF Kinds
  <2>3. Sent'
    <3>1. \A g \in Files : Range(data'[g]) \subseteq 1 .. echoes'
      BY <1>3, <1>6, <2>1 DEF Messages, Sent
    <3>2. \A p \in Procs : Range(printed'[p]) \subseteq 1 .. echoes'
      BY <1>2, <1>3 DEF Messages, Sent
    <3> QED
      BY <1>3, <1>7, <3>1, <3>2 DEF Messages, Sent
  <2>4. Ordered'
    <3>1. \A g \in Files : Increasing(data'[g])
      BY <1>6, <2>1 DEF Messages, Ordered
    <3>2. ASSUME NEW p \in Procs, fifo_rd'[p] # "none", kind'[fifo_rd'[p]] = "fifo"
          PROVE  Before(printed'[p], data'[fifo_rd'[p]])
      <4>1. fifo_rd'[p] = fifo_rd[p] /\ fifo_rd[p] \in Files /\ fifo_rd[p] # f
        BY <1>1, <1>2, <1>7, <3>2 DEF ProcTypes
      <4>2. kind[fifo_rd[p]] = "fifo" /\ data'[fifo_rd[p]] = data[fifo_rd[p]]
        BY <1>7, <2>1, <3>2, <4>1
      <4> QED
        BY <1>2, <3>2, <4>1, <4>2 DEF Messages, Ordered
    <3> QED
      BY <1>2, <3>1, <3>2 DEF Messages, Ordered
  <2>5. Once'
    <3>1. \A k \in direct, g \in Files : k \in Range(data'[g]) => k \in Range(data[g])
      BY <1>3, <1>6, <2>1
    <3> QED
      BY <1>2, <1>7, <3>1 DEF Messages, Once
  <2> QED
    BY <2>2, <2>3, <2>4, <2>5 DEF Messages
(* A FIFO. *)
<1>8. ASSUME NEW f \in Files, kind[f] = "fifo", data' = [data EXCEPT ![f] = Append(@, m)],
             direct' = direct \cup {m}, UNCHANGED kind
      PROVE  Messages'
  <2>1. /\ \A g \in Files : g # f => data'[g] = data[g]
        /\ Range(data'[f]) = Range(data[f]) \cup {m} /\ Increasing(data'[f])
    <3>1. data'[f] = Append(data[f], m) /\ \A g \in Files : g # f => data'[g] = data[g]
      BY <1>1, <1>8 DEF FileTypes
    <3>2. Increasing(data[f]) /\ Range(data[f]) \subseteq 1 .. echoes
      BY DEF Messages, Sent, Ordered
    <3> QED
      BY <1>2, <1>4, <3>1, <3>2, Appended
  <2>2. Kinds'
    <3>1. ASSUME NEW g \in Files
          PROVE  IF kind'[g] = "regular" THEN Len(data'[g]) = 1 /\ Range(data'[g]) \cap direct' = {}
                                         ELSE Range(data'[g]) \subseteq direct'
      BY <1>3, <1>8, <2>1 DEF Messages, Kinds
    <3>2. ASSUME NEW p \in Procs, fifo_rd'[p] # "none"
          PROVE  IF kind'[fifo_rd'[p]] = "regular"
                 THEN pos'[p] \in {0, 1} /\ (pos'[p] = 0 => printed'[p] = <<>>)
                 ELSE pos'[p] = 0
      BY <1>2, <1>8, <3>2 DEF Messages, Kinds
    <3> QED
      BY <3>1, <3>2 DEF Kinds
  <2>3. Sent'
    BY <1>2, <1>3, <1>8, <2>1 DEF Messages, Sent
  <2>4. Ordered'
    <3>1. \A g \in Files : Increasing(data'[g])
      BY <2>1 DEF Messages, Ordered
    <3>2. ASSUME NEW p \in Procs, fifo_rd'[p] # "none", kind'[fifo_rd'[p]] = "fifo"
          PROVE  Before(printed'[p], data'[fifo_rd'[p]])
      <4>1. Before(printed[p], data[fifo_rd[p]]) /\ fifo_rd[p] \in Files
        BY <1>1, <1>2, <1>8, <3>2 DEF Messages, Ordered, ProcTypes
      <4>2. \A x \in Range(printed[p]) : x < m
        <5>1. Range(printed[p]) \subseteq 1 .. echoes
          BY DEF Messages, Sent
        <5> QED
          BY <1>2, <5>1
      <4>3. Range(data'[fifo_rd[p]]) \subseteq Range(data[fifo_rd[p]]) \cup {m}
        BY <2>1, <4>1
      <4> QED
        BY <1>2, <4>1, <4>2, <4>3 DEF Before
    <3> QED
      BY <1>2, <3>1, <3>2 DEF Messages, Ordered
  <2>5. Once'
    <3>1. ASSUME NEW k \in direct', NEW g \in Files, k \in Range(data'[g])
          PROVE  (k # m /\ k \in direct /\ k \in Range(data[g])) \/ (k = m /\ g = f)
      BY <1>3, <1>8, <2>1, <3>1
    <3>2. ASSUME NEW k \in direct', NEW p \in Procs, k \in Range(printed'[p])
          PROVE  k # m /\ k \in direct /\ k \in Range(printed[p])
      BY <1>2, <1>3, <1>8, <3>2
    <3>3. ASSUME NEW k \in direct', NEW g \in Files, NEW h \in Files,
                 k \in Range(data'[g]), k \in Range(data'[h])
          PROVE  g = h
      BY <3>1, <3>3 DEF Messages, Once
    <3>4. ASSUME NEW k \in direct', NEW g \in Files, NEW p \in Procs,
                 k \in Range(data'[g]), k \in Range(printed'[p])
          PROVE  FALSE
      BY <3>1, <3>2, <3>4 DEF Messages, Once
    <3>5. ASSUME NEW k \in direct', NEW p \in Procs, NEW q \in Procs,
                 k \in Range(printed'[p]), k \in Range(printed'[q])
          PROVE  p = q
      BY <3>2, <3>5 DEF Messages, Once
    <3> QED
      BY <3>3, <3>4, <3>5, Zenon DEF Once
  <2> QED
    BY <2>2, <2>3, <2>4, <2>5 DEF Messages
<1>9. path # "none" => path \in Files
  BY <1>1 DEF FileTypes
<1>10. CASE path = "none" /\ Make("regular", <<echoes'>>) /\ UNCHANGED direct
  <2>1. Make("regular", u)
    BY <1>2, <1>5, <1>10
  <2>2. PICK f \in Files : /\ \A p \in Procs : fifo_rd[p] # f
                           /\ kind' = [kind EXCEPT ![f] = "regular"]
                           /\ data' = [data EXCEPT ![f] = u]
    BY <2>1, MakeFacts
  <2> QED
    BY <1>1, <1>7, <1>10, <2>2 DEF FileTypes
<1>11. CASE /\ path # "none" /\ kind[path] = "regular"
            /\ data' = [data EXCEPT ![path] = <<echoes'>>]
            /\ UNCHANGED <<path, kind, direct, shared>>
  BY <1>2, <1>5, <1>7, <1>9, <1>11
<1>12. CASE /\ path # "none" /\ kind[path] = "fifo"
            /\ data' = [data EXCEPT ![path] = Append(@, echoes')]
            /\ direct' = direct \cup {echoes'} /\ UNCHANGED <<path, kind, shared>>
  BY <1>2, <1>8, <1>9, <1>12
<1> QED
  BY <1>10, <1>11, <1>12, Zenon DEF Echo

(* What is read leaves the FIFO, and is printed after what was before. *)
LEMMA ReadMessages ==
    ASSUME Messages, TypeOK, TypeOK', Places, NEW p \in Procs, ReadFifo(p)
    PROVE  Messages'
<1>1. FileTypes /\ ProcTypes /\ FileTypes' /\ ProcTypes' /\ Kinds
  BY TypeParts DEF Messages
<1>2. /\ fifo_rd[p] \in Files
      /\ UNCHANGED <<kind, echoes, direct, fifo_rd>>
      /\ (\E n, f, s, a : Taken(p, n, f, s, a)) \/ UNCHANGED <<data, pos, printed>>
  BY <1>1, ReadFacts
<1>3. CASE UNCHANGED <<data, pos, printed>>
  BY <1>2, <1>3, FewerMessages
<1>4. ASSUME NEW n, NEW f, NEW s, NEW a, Taken(p, n, f, s, a)
      PROVE  Messages'
  <2>1. /\ f \in Files /\ f = fifo_rd[p] /\ s = data[f] /\ s \in Seq(Nat) /\ n \in 1 .. Len(s)
        /\ a = SubSeq(s, 1, n) /\ pos[p] = 0
    <3>1. \A t \in Seq(1 .. Echoes) : t \in Seq(Nat)
      OBVIOUS
    <3> QED
      BY <1>2, <1>4, <3>1 DEF Taken
  <2>2. a \in Seq(Nat) /\ printed[p] \in Seq(Nat) /\ printed'[p] = printed[p] \o a
    <3>1. printed[p] \in Seq(1 .. Echoes) /\ \A t \in Seq(1 .. Echoes) : t \in Seq(Nat)
      BY <1>1 DEF ProcTypes
    <3>2. a \in Seq(Nat)
      BY <2>1
    <3>3. printed'[p] = printed[p] \o a
      BY <1>1, <1>4 DEF Taken, ProcTypes
    <3> QED
      BY <3>1, <3>2, <3>3
  <2>3. \A q \in Procs : q # p => printed'[q] = printed[q]
    BY <1>1, <1>4 DEF Taken, ProcTypes
  <2>4. Increasing(s) /\ Range(s) \subseteq 1 .. echoes
    BY <2>1 DEF Messages, Ordered, Sent
  <2> PICK b : b = SubSeq(s, n + 1, Len(s))
    OBVIOUS
  <2>5. /\ Increasing(a) /\ Increasing(b) /\ Before(a, b)
        /\ Range(a) \subseteq Range(s) /\ Range(b) \subseteq Range(s)
    <3>1. s \in Seq(Nat) /\ Increasing(s) /\ n \in 1 .. Len(s) /\ a = SubSeq(s, 1, n)
      BY <2>1, <2>4
    <3> QED
      BY <3>1, Cut, Zenon
  <2>6. Before(printed[p], s)
    <3>1. CASE kind[f] = "fifo"
      BY <1>2, <2>1, <3>1 DEF Messages, Ordered
    <3>2. CASE kind[f] # "fifo"
      <4>1. kind[f] = "regular"
        BY <1>1, <2>1, <3>2 DEF FileTypes
      <4>2. printed[p] = <<>>
        BY <1>1, <1>2, <2>1, <4>1 DEF Kinds
      <4> QED
        BY <4>2, EmptyRange DEF Before
    <3> QED
      BY <3>1, <3>2
  <2>7. Increasing(printed'[p]) /\ Range(printed'[p]) = Range(printed[p]) \cup Range(a)
    <3>1. Before(printed[p], a) /\ Increasing(printed[p])
      BY <2>5, <2>6 DEF Before, Messages, Ordered
    <3>2. /\ Range(printed[p] \o a) = Range(printed[p]) \cup Range(a)
          /\ Increasing(printed[p]) /\ Increasing(a) /\ Before(printed[p], a) =>
               Increasing(printed[p] \o a)
      BY <2>2, Joined, Zenon
    <3> QED
      BY <2>2, <2>5, <3>1, <3>2, Zenon
  <2>8. \/ kind[f] = "fifo" /\ pos' = pos /\ data' = [data EXCEPT ![f] = b]
        \/ kind[f] = "regular" /\ data' = data /\ pos' = [pos EXCEPT ![p] = 1]
    BY <1>4 DEF Taken
  <2>9. \A g \in Files : /\ Range(data'[g]) \subseteq Range(data[g]) /\ Increasing(data'[g])
                         /\ kind[g] = "regular" \/ g # f => data'[g] = data[g]
    <3>1. \A g \in Files : Increasing(data[g])
      BY DEF Messages, Ordered
    <3>2. CASE data' = data
      BY <3>1, <3>2
    <3>3. CASE kind[f] = "fifo" /\ data' = [data EXCEPT ![f] = b]
      <4>1. data'[f] = b /\ \A g \in Files : g # f => data'[g] = data[g]
        BY <1>1, <2>1, <3>3 DEF FileTypes
      <4> QED
        BY <2>1, <2>5, <3>1, <3>3, <4>1
    <3> QED
      BY <2>8, <3>2, <3>3
  <2>10. Kinds'
    <3>1. ASSUME NEW g \in Files
          PROVE  IF kind'[g] = "regular" THEN Len(data'[g]) = 1 /\ Range(data'[g]) \cap direct' = {}
                                         ELSE Range(data'[g]) \subseteq direct'
      BY <1>1, <1>2, <2>9 DEF Kinds
    <3>2. ASSUME NEW q \in Procs, q # p, fifo_rd'[q] # "none"
          PROVE  IF kind'[fifo_rd'[q]] = "regular"
                 THEN pos'[q] \in {0, 1} /\ (pos'[q] = 0 => printed'[q] = <<>>)
                 ELSE pos'[q] = 0
      <4>1. pos'[q] = pos[q]
        BY <1>1, <2>8, <3>2 DEF ProcTypes
      <4> QED
        BY <1>1, <1>2, <2>3, <3>2, <4>1 DEF Kinds
    <3>3. IF kind'[fifo_rd'[p]] = "regular"
          THEN pos'[p] \in {0, 1} /\ (pos'[p] = 0 => printed'[p] = <<>>)
          ELSE pos'[p] = 0
      <4>1. fifo_rd'[p] = f /\ kind'[f] = kind[f] /\ pos[p] = 0
        BY <1>2, <2>1
      <4>2. \/ kind[f] = "fifo" /\ pos' = pos
            \/ kind[f] = "regular" /\ pos'[p] = 1
        BY <1>1, <2>8 DEF ProcTypes
      <4> QED
        BY <4>1, <4>2
    <3> QED
      BY <3>1, <3>2, <3>3 DEF Kinds
  <2>11. Sent'
    <3>1. \A q \in Procs : Range(printed'[q]) \subseteq 1 .. echoes
      BY <2>3, <2>4, <2>5, <2>7 DEF Messages, Sent
    <3>2. \A g \in Files : Range(data'[g]) \subseteq 1 .. echoes
      BY <2>9 DEF Messages, Sent
    <3> QED
      BY <1>2, <3>1, <3>2 DEF Messages, Sent
  <2>12. ASSUME NEW k \in direct, NEW q \in Procs, k \in Range(printed'[q])
         PROVE  k \in Range(printed[q]) \/ (q = p /\ k \in Range(a) /\ kind[f] = "fifo")
    <3>1. kind[f] = "regular" => k \notin Range(a)
      BY <1>1, <2>1, <2>5, <2>12 DEF Kinds
    <3> QED
      BY <2>3, <2>7, <2>8, <2>12, <3>1
  <2>13. Once'
    <3>1. ASSUME NEW k \in direct, NEW g \in Files, NEW h \in Files,
                 k \in Range(data'[g]), k \in Range(data'[h])
          PROVE  g = h
      BY <2>9, <3>1 DEF Messages, Once
    <3>2. ASSUME NEW k \in direct, NEW g \in Files, NEW q \in Procs,
                 k \in Range(data'[g]), k \in Range(printed'[q])
          PROVE  FALSE
      <4>1. k \in Range(data[g])
        BY <2>9, <3>2
      <4>2. k \notin Range(printed[q])
        BY <4>1 DEF Messages, Once
      <4>3. k \in Range(a) /\ k \in Range(data[f]) /\ kind[f] = "fifo"
        BY <2>1, <2>5, <2>12, <3>2, <4>2
      <4>4. g = f
        BY <2>1, <4>1, <4>3 DEF Messages, Once
      <4>5. k \in Range(b)
        BY <1>1, <2>1, <2>8, <3>2, <4>3, <4>4 DEF FileTypes
      <4>6. k < k /\ k \in Nat
        BY <2>4, <2>5, <4>3, <4>5 DEF Before
      <4> QED
        BY <4>6
    <3>3. ASSUME NEW k \in direct, NEW q \in Procs, NEW r \in Procs,
                 k \in Range(printed'[q]), k \in Range(printed'[r])
          PROVE  q = r
      <4>1. k \in Range(a) => k \in Range(data[f])
        BY <2>1, <2>5
      <4>2. k \in Range(data[f]) => k \notin Range(printed[q]) /\ k \notin Range(printed[r])
        BY <2>1 DEF Messages, Once
      <4> QED
        BY <2>12, <3>3, <4>1, <4>2 DEF Messages, Once
    <3> QED
      BY <1>2, <3>1, <3>2, <3>3, Zenon DEF Once
  <2>14. Ordered'
    <3>1. ASSUME NEW q \in Procs PROVE Increasing(printed'[q])
      BY <2>3, <2>7 DEF Messages, Ordered
    <3>2. ASSUME NEW q \in Procs, fifo_rd'[q] # "none", kind'[fifo_rd'[q]] = "fifo"
          PROVE  Before(printed'[q], data'[fifo_rd'[q]])
      <4>1. /\ fifo_rd'[q] = fifo_rd[q] /\ fifo_rd[q] \in Files
            /\ Before(printed[q], data[fifo_rd[q]])
        BY <1>1, <1>2, <3>2 DEF Messages, Ordered, ProcTypes
      <4>2. CASE q # p
        BY <2>3, <2>9, <4>1, <4>2 DEF Before
      <4>3. CASE q = p
        <5>1. kind[f] = "fifo" /\ data'[f] = b
          BY <1>1, <1>2, <2>1, <2>8, <3>2, <4>3 DEF FileTypes
        <5>2. Before(printed[p], b)
          BY <2>5, <2>6 DEF Before
        <5>3. Before(printed'[p], b)
          BY <2>5, <2>7, <5>2 DEF Before
        <5> QED
          BY <2>1, <4>1, <4>3, <5>1, <5>3
      <4> QED
        BY <4>2, <4>3
    <3> QED
      BY <2>9, <3>1, <3>2 DEF Ordered
  <2> QED
    BY <2>10, <2>11, <2>13, <2>14 DEF Messages
<1> QED
  BY <1>2, <1>3, <1>4

LEMMA NextMessages == ASSUME Messages, TypeOK, TypeOK', Places, Next PROVE Messages'
BY Steps, EchoMessages, StillMessages, ReadMessages DEF Step

-----------------------------------------------------------------------------
(* The inductive invariant: what the processes have open, who minds the LED, *)
(* what a reader may find, and where each message is.                        *)
LoopsInv == TypeOK /\ Places /\ LedLit /\ Waiting /\ Messages

LEMMA InitLoopsInv == Init => LoopsInv
BY InitTypes, InitPlaces, InitLedLit, InitWaiting, InitMessages DEF LoopsInv

LEMMA NextLoopsInv == LoopsInv /\ [Next]_vars => LoopsInv'
<1>1. ASSUME LoopsInv, Next PROVE LoopsInv'
  <2>1. TypeOK /\ Places /\ LedLit /\ Waiting /\ Messages /\ Kinds
    BY <1>1 DEF LoopsInv, Messages
  <2>2. TypeOK' /\ Places'
    BY <1>1, <2>1, NextTypes, NextPlaces
  <2>3. LedLit' /\ Waiting' /\ Messages'
    BY <1>1, <2>1, <2>2, NextLedLit, NextWaiting, NextMessages
  <2> QED
    BY <2>2, <2>3 DEF LoopsInv
<1>2. ASSUME LoopsInv, UNCHANGED vars PROVE LoopsInv'
  <2>1. /\ UNCHANGED <<prog, path, kind, data, echoes, direct, shared, pc, fifo_rd, fifo_wr>>
        /\ UNCHANGED <<pos, ready, got, printed, tty, running, state, led, put>>
    BY <1>2 DEF vars, fileVars, procVars, ledVars
  <2>2. TypeOK' /\ Places' /\ LedLit'
    BY <1>2, <2>1 DEF LoopsInv, TypeOK, Places, PlaceOf, LedLit
  <2>3. Waiting'
    BY <1>2, <2>1 DEF LoopsInv, Waiting, Sharers, Moved, Reported, Found
  <2>4. Messages'
    BY <1>2, <2>1 DEF LoopsInv, Messages, Kinds, Sent, Ordered, Once
  <2> QED
    BY <2>2, <2>3, <2>4 DEF LoopsInv
<1> QED
  BY <1>1, <1>2

(* Every state of the four programs is of its type, whatever they are typed, *)
(* wherever they are killed and whatever they find at the path.              *)
THEOREM LoopsTypes == Spec => []TypeOK
BY InitLoopsInv, NextLoopsInv, PTL DEF Spec, LoopsInv

(* A read that select reported finds data, with the exceptions ReadsFindData *)
(* names: a reader at the end of a FIFO has it open for writing, so there is *)
(* no end of file, and only another reader takes data away.                  *)
THEOREM SelectedReadsFindData == Spec => []ReadsFindData
<1>1. LoopsInv => ReadsFindData
  <2>1. ASSUME LoopsInv, NEW p \in Procs, got[p] = "eof"
        PROVE  kind[fifo_rd[p]] = "regular" \/ fifo_wr[p] \notin {"none", fifo_rd[p]}
    <3>1. PlaceOf(p) /\ Found(p)
      BY <2>1 DEF LoopsInv, Places, Waiting
    <3>2. fifo_wr[p] # "none"
      BY <2>1, <3>1 DEF PlaceOf, Looping
    <3> QED
      BY <2>1, <3>1, <3>2 DEF Found
  <2>2. ASSUME LoopsInv, NEW p \in Procs, got[p] = "EAGAIN" PROVE fifo_rd[p] \in shared
    BY <2>2 DEF LoopsInv, Waiting, Found
  <2> QED
    BY <2>1, <2>2 DEF ReadsFindData
<1> QED
  BY <1>1, InitLoopsInv, NextLoopsInv, PTL DEF Spec

(* For any number of instances, messages and files that FIFO_PATH is bound   *)
(* to in turn, what an instance of select.c prints is in the order it was    *)
(* sent, and what goes through a FIFO is printed by one of them, once.       *)
THEOREM MessagesPrintedOnce == Spec => []PrintedOnce
<1>1. LoopsInv => PrintedOnce
  <2>1. ASSUME LoopsInv, NEW p \in Procs, NEW q \in Procs,
               NEW i \in DOMAIN printed[p], NEW j \in DOMAIN printed[q]
        PROVE  /\ p = q /\ i < j => printed[p][i] < printed[p][j]
               /\ p # q /\ printed[p][i] = printed[q][j] => printed[p][i] \notin direct
    <3>1. Increasing(printed[p]) /\ Once
      BY <2>1 DEF LoopsInv, Messages, Ordered
    <3>2. printed[p][i] \in Range(printed[p]) /\ printed[q][j] \in Range(printed[q])
      BY <2>1 DEF Range
    <3> QED
      BY <3>1, <3>2 DEF Increasing, Once
  <2> QED
    BY <2>1 DEF PrintedOnce
<1> QED
  BY <1>1, InitLoopsInv, NextLoopsInv, PTL DEF Spec

(* However many instances of sysfs_led.c share the LED and whenever each is  *)
(* interrupted, it is off when all have ended, unless a last write failed.   *)
THEOREM LedIsOffAtEnd == Spec => []LedOffAtEnd
<1>1. LoopsInv => LedOffAtEnd
  BY DEF LoopsInv, LedLit, LedOffAtEnd, Minding, TypeOK
<1> QED
  BY <1>1, InitLoopsInv, NextLoopsInv, PTL DEF Spec
=============================================================================
