------------------------------ MODULE ForkServer ------------------------------
(***************************************************************************)
(* src/C/server_tcp.c and src/C/server_unix.c: a server that forks a child *)
(* for each connection; the child reads the request, answers, forks date   *)
(* with the connection as its standard output, waits for it and exits.     *)
(* The handler of SIGCHLD reaps whatever child has ended; the children     *)
(* inherit it, and have their own waitpid beside it.                       *)
(*                                                                         *)
(* A pending SIGCHLD is one bit.  A forked process gets a copy of every    *)
(* descriptor its parent holds, and a client reads end of file when nobody *)
(* holds its connection any more.  Clients send a request the buffer can   *)
(* hold, or leave.  Names that every module has begin with Fork here:      *)
(* ProcessProofs extends this module beside TerminalLoops.                 *)
(***************************************************************************)
EXTENDS Sequences

CONSTANT
    Conns       \* the connections clients make

Server == <<"server", "main">>
Child(c) == <<"child", c>>
Date(c) == <<"date", c>>
Processes == {Server} \cup ({"child", "date"} \X Conns)
Parent(p) == IF p[1] = "child" THEN Server ELSE Child(p[2])

VARIABLES
    client,     \* each client: "away", "queued", "asked" (its request is on
                \* the way) or "gone"
    out,        \* what each client was sent
    fds,        \* the connections each process has a descriptor of
    place,      \* where each process is
    cur,        \* the connection the server accepted last
    sigchld,    \* the processes with a pending SIGCHLD
    reaping,    \* the processes in the handler reap
    failed      \* the connections a fork or the exec of date failed for
                \* (history)

forkVars == <<client, out, fds, place, cur, sigchld, reaping, failed>>

ForkTypeOK == /\ client \in [Conns -> {"away", "queued", "asked", "gone"}]
              /\ out \in [Conns -> Seq({"hello", "date", "listening"})]
              /\ fds \in [Processes -> SUBSET Conns]
              /\ place[Server] \in {"accept", "fork", "close"}
              /\ \A c \in Conns :
                    /\ place[Child(c)] \in {"off", "read", "write", "fork", "waitpid", "close",
                                            "zombie", "reaped"}
                    /\ place[Date(c)] \in {"off", "exec", "zombie", "reaped"}
              /\ cur \in Conns
              /\ sigchld \subseteq Processes /\ reaping \subseteq Processes
              /\ failed \subseteq Conns

ForkInit == /\ client = [c \in Conns |-> "away"]
            /\ out = [c \in Conns |-> <<>>]
            /\ fds = [p \in Processes |-> {}]
            /\ place = [p \in Processes |-> IF p = Server THEN "accept" ELSE "off"]
            /\ cur \in Conns
            /\ sigchld = {} /\ reaping = {}
            /\ failed = {}

Move(p, l) == place' = [place EXCEPT ![p] = l]
At(p, l) == place[p] = l /\ p \notin reaping
Alive(p) == place[p] \notin {"off", "zombie", "reaped"}
ZombiesOf(p) == {q \in Processes \ {Server} : Parent(q) = p /\ place[q] = "zombie"}

-----------------------------------------------------------------------------
(* A client connects, sends its request, or leaves, its answer read or not. *)
ClientStep(c) ==
    /\ \/ client[c] = "away" /\ client' = [client EXCEPT ![c] = "queued"]
       \/ client[c] = "queued" /\ client' = [client EXCEPT ![c] = "asked"]
       \/ client[c] \in {"queued", "asked"} /\ client' = [client EXCEPT ![c] = "gone"]
    /\ UNCHANGED <<out, fds, place, cur, sigchld, reaping, failed>>

-----------------------------------------------------------------------------
(* The server's loop.  A SIGCHLD does not disturb it: accept restarts. *)

Accept(c) ==
    /\ At(Server, "accept")
    /\ client[c] # "away" /\ place[Child(c)] = "off" /\ c \notin failed
    /\ fds' = [fds EXCEPT ![Server] = @ \cup {c}]
    /\ cur' = c
    /\ Move(Server, "fork")
    /\ UNCHANGED <<client, out, sigchld, reaping, failed>>

(* When fork fails it returns -1, which is not 0: the parent's branch. *)
ForkChild ==
    /\ At(Server, "fork")
    /\ \/ /\ place' = [place EXCEPT ![Server] = "close", ![Child(cur)] = "read"]
          /\ fds' = [fds EXCEPT ![Child(cur)] = fds[Server]]
          /\ UNCHANGED failed
       \/ /\ failed' = failed \cup {cur}
          /\ Move(Server, "close")
          /\ UNCHANGED fds
    /\ UNCHANGED <<client, out, cur, sigchld, reaping>>

ServerClose ==
    /\ At(Server, "close")
    /\ fds' = [fds EXCEPT ![Server] = @ \ {cur}]
    /\ Move(Server, "accept")
    /\ UNCHANGED <<client, out, cur, sigchld, reaping, failed>>

-----------------------------------------------------------------------------
(* handle_client, in the child. *)

(* What the kernel does at the end of a process. *)
Exit(p) ==
    /\ Move(p, "zombie")
    /\ fds' = [fds EXCEPT ![p] = {}]
    /\ sigchld' = (sigchld \ {p}) \cup {q \in {Parent(p)} : Alive(q)}

Read(c) ==
    /\ At(Child(c), "read")
    /\ client[c] \in {"asked", "gone"}
    /\ Move(Child(c), "write")
    /\ UNCHANGED <<client, out, fds, cur, sigchld, reaping, failed>>

(* The greeting.  If the client has left, SIGPIPE may end the child. *)
Write(c) ==
    /\ At(Child(c), "write")
    /\ out' = IF client[c] = "gone" THEN out ELSE [out EXCEPT ![c] = Append(@, "hello")]
    /\ \/ Move(Child(c), "fork") /\ UNCHANGED <<fds, sigchld>>
       \/ client[c] = "gone" /\ Exit(Child(c))
    /\ UNCHANGED <<client, cur, reaping, failed>>

ForkDateNoDup(c) ==             \* mutant: the dup2 to standard output is missing
    /\ At(Child(c), "fork")
    /\ place' = [place EXCEPT ![Child(c)] = "waitpid", ![Date(c)] = "exec"]
    /\ UNCHANGED <<client, out, fds, cur, sigchld, reaping, failed>>

ForkDate(c) ==
    /\ At(Child(c), "fork")
    /\ \/ /\ place' = [place EXCEPT ![Child(c)] = "waitpid", ![Date(c)] = "exec"]
          /\ fds' = [fds EXCEPT ![Date(c)] = fds[Child(c)]]
          /\ UNCHANGED failed
       \/ /\ failed' = failed \cup {c}
          /\ Move(Child(c), "waitpid")
          /\ UNCHANGED fds
    /\ UNCHANGED <<client, out, cur, sigchld, reaping>>

Prints(c, text) == out' = IF client[c] # "gone" /\ c \in fds[Date(c)]
                          THEN [out EXCEPT ![c] = Append(@, text)] ELSE out

(* date writes to the connection and ends.  Where it cannot be executed the  *)
(* process ends with exit(1), without the date; exit writes out what stdio   *)
(* still holds: when the server's output is no terminal, its first line.     *)
RunDate(c) ==
    /\ place[Date(c)] = "exec"
    /\ \/ Prints(c, "date") /\ UNCHANGED failed
       \/ /\ failed' = failed \cup {c}
          /\ out' = out \/ Prints(c, "listening")
    /\ Exit(Date(c))
    /\ UNCHANGED <<client, cur, reaping>>

WaitpidAny(c) ==                \* mutant: an error of waitpid is tried again
    /\ At(Child(c), "waitpid")
    /\ place[Date(c)] = "zombie"
    /\ place' = [place EXCEPT ![Child(c)] = "close", ![Date(c)] = "reaped"]
    /\ UNCHANGED <<client, out, fds, cur, sigchld, reaping, failed>>

(* waitpid returns when date has ended, or with an error because the        *)
(* handler has reaped it, or because there never was a date.                *)
Waitpid(c) ==
    /\ At(Child(c), "waitpid")
    /\ ~Alive(Date(c))
    /\ place' = [place EXCEPT ![Child(c)] = "close",
                        ![Date(c)] = IF @ = "zombie" THEN "reaped" ELSE @]
    /\ UNCHANGED <<client, out, fds, cur, sigchld, reaping, failed>>

(* close and exit(0) *)
CloseExit(c) ==
    /\ At(Child(c), "close")
    /\ Exit(Child(c))
    /\ UNCHANGED <<client, out, cur, reaping, failed>>

-----------------------------------------------------------------------------
(* The handler reap runs between any two steps of its process. *)

EnterReap(p) ==
    /\ p \in sigchld \ reaping
    /\ sigchld' = sigchld \ {p}
    /\ reaping' = reaping \cup {p}
    /\ UNCHANGED <<client, out, fds, place, cur, failed>>

ReapIf(p) ==                    \* mutant: if instead of while
    /\ p \in reaping
    /\ \E q \in ZombiesOf(p) : Move(q, "reaped")
    /\ reaping' = reaping \ {p}
    /\ UNCHANGED <<client, out, fds, cur, sigchld, failed>>

(* One successful waitpid of the loop, *)
Reap(p) ==
    /\ p \in reaping
    /\ \E q \in ZombiesOf(p) : Move(q, "reaped")
    /\ UNCHANGED <<client, out, fds, cur, sigchld, reaping, failed>>

(* and the one that ends it. *)
LeaveReap(p) ==
    /\ p \in reaping
    /\ ZombiesOf(p) = {}
    /\ reaping' = reaping \ {p}
    /\ UNCHANGED <<client, out, fds, place, cur, sigchld, failed>>

Handler(p) == EnterReap(p) \/ Reap(p) \/ LeaveReap(p)

ServerStep == ForkChild \/ ServerClose \/ \E c \in Conns : Accept(c)
ChildStep(c) == Read(c) \/ Write(c) \/ ForkDate(c) \/ Waitpid(c) \/ CloseExit(c)

ForkNext == \/ ServerStep
            \/ \E c \in Conns : ClientStep(c) \/ ChildStep(c) \/ RunDate(c)
            \/ \E p \in Processes : Handler(p)

(* Every process runs when it can; the listen queue is first in, first out,  *)
(* so no connection is passed over for ever.                                 *)
ForkFairness == /\ WF_forkVars(ForkChild \/ ServerClose)
                /\ \A c \in Conns : /\ SF_forkVars(Accept(c)) /\ SF_forkVars(ChildStep(c))
                                      /\ WF_forkVars(RunDate(c))
                /\ \A p \in Processes : WF_forkVars(Handler(p))

ForkSpec == ForkInit /\ [][ForkNext]_forkVars /\ ForkFairness

-----------------------------------------------------------------------------
Open(c) == \E p \in Processes : c \in fds[p]
Started(c) == place[Child(c)] # "off" \/ c \in failed

(* When a client that stays reads end of file, it has read the greeting and  *)
(* the date before, in this order, unless a fork failed or date could not be *)
(* executed.                                                                 *)
AnsweredBeforeEof ==
    \A c \in Conns : Started(c) /\ ~Open(c) /\ client[c] # "gone" /\ c \notin failed =>
        out[c] = <<"hello", "date">>

(* A client that asks or leaves has its connection closed in the end,        *)
(* however slow other clients are, whoever reaps date.                       *)
Closes == \A c \in Conns :
    client[c] \in {"asked", "gone"} ~> (Started(c) /\ ~Open(c))

(* No process stays a zombie, although signals that arrive together are one. *)
ZombiesReaped ==
    \A p \in Processes : place[p] = "zombie" ~> place[p] = "reaped"
=============================================================================
