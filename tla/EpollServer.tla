----------------------------- MODULE EpollServer -----------------------------
(***************************************************************************)
(* src/C/epoll_server.c: the front end of the payment example.  One thread *)
(* serves TCP clients through epoll: it accepts, reads, looks at the first *)
(* byte of what it read, forwards the rest to payment for 'P', answers,    *)
(* and closes a connection on end of file.                                 *)
(*                                                                         *)
(* A command is two tokens, its first byte and its body: TCP may hand the  *)
(* server any prefix of what a client sent, several commands at once or    *)
(* half of one.  The socket to payment is a stream of bounded size that    *)
(* payment (src/C/payment.c) empties with one read when it is not busy.    *)
(* payment is started first (src/C/run_poll.sh), but the server connects   *)
(* to it once only, at its own start, and exits if nobody listens yet.     *)
(*                                                                         *)
(* epoll_wait hands out at most slots events of what is ready.  Which, is  *)
(* the kernel's choice: its ready list, from which it takes from the front *)
(* and at whose end it puts back what it reported.                         *)
(***************************************************************************)
EXTENDS Integers, Sequences, FiniteSets, FiniteSetsExt, SequencesExt

CONSTANTS
    Clients,    \* the clients
    Commands,   \* the first bytes they send
    NumFds,     \* bound: file descriptors left for connections, at most
    MaxEvents,  \* bound: the size of the event array, at most
    PayCap,     \* tokens the socket to payment holds
    MaxSend,    \* bound: commands of a client that are told apart at a time
    MaxTotal    \* bound: of all clients together

ASSUME ServerAssumption ==
    /\ NumFds \in Nat \ {0} /\ MaxEvents \in Nat \ {0} /\ PayCap \in Nat \ {0}
    /\ MaxSend \in Nat
    /\ IsFiniteSet(Clients) /\ "body" \notin Commands

listenfd == 0

VARIABLES
    limit,      \* file descriptors left for connections
    slots,      \* MAX_EVENTS, the size of the event array: any, but it stays
    conn,       \* each client's connection: "none", "queued" or "accepted"
    queue,      \* the clients waiting in the listen queue
    fdOf,       \* the descriptor of an accepted connection, 0 if none
    out,        \* what each client sent and the server has not read
    eof,        \* has the client closed its end
    rst,        \* "no"; "sent": the server wrote to a closed end; "in": the
                \* reset has come back
    sent,       \* the number of each client's last command
    payment,    \* where payment is: "start", "bound", "listening", "serving"
                \* or "ended"
    pc,         \* where the server is; "exit" when it could not
                \* connect to payment, "dead" after SIGPIPE
    ready,      \* the kernel's ready list: what may have something to read,
                \* clients or, for the listening socket, NoClient
    events,     \* the events still to handle: the descriptor, and (history)
                \* the client the event was raised for
    cur,        \* the descriptor being served
    buf,        \* what was read from it
    forwarded,  \* everything written to payment
    taken       \* how much of it payment has read

Fds == 1 .. limit

connVars == <<conn, queue, fdOf, out, eof, rst, sent>>
vars == <<limit, slots, connVars, payment, pc, ready, events, cur, buf, forwarded, taken>>

Token == (Commands \cup {"body"}) \X Clients \X (1 .. MaxSend)
NoClient == "nobody"
Sources == Clients \cup {NoClient}

TypeOK == /\ limit \in 1 .. NumFds /\ slots \in 1 .. MaxEvents
          /\ conn \in [Clients -> {"none", "queued", "accepted"}]
          /\ queue \in Seq(Clients)
          /\ fdOf \in [Clients -> {0} \cup Fds]
          /\ out \in [Clients -> Seq(Token)]
          /\ eof \in [Clients -> BOOLEAN]
          /\ rst \in [Clients -> {"no", "sent", "in"}]
          /\ sent \in [Clients -> 0 .. MaxSend]
          /\ payment \in {"start", "bound", "listening", "serving", "ended"}
          /\ pc \in {"start", "exit", "listen", "epoll", "dispatch", "forward", "reply", "dead"}
          /\ ready \in Seq(Sources)
          /\ \A i \in DOMAIN events : events[i].fd \in {listenfd} \cup Fds
          /\ cur \in {listenfd} \cup Fds
          /\ buf \in Seq(Token) /\ forwarded \in Seq(Token)
          /\ taken \in 0 .. Len(forwarded)
          /\ Len(forwarded) - taken <= PayCap + 2 * MaxSend

Init == /\ limit \in 1 .. NumFds /\ slots \in 1 .. MaxEvents
        /\ conn = [c \in Clients |-> "none"]
        /\ queue = <<>>
        /\ fdOf = [c \in Clients |-> 0]
        /\ out = [c \in Clients |-> <<>>]
        /\ eof = [c \in Clients |-> FALSE]
        /\ rst = [c \in Clients |-> "no"]
        /\ sent = [c \in Clients |-> 0]
        /\ payment = "start"
        /\ pc = "start" /\ ready = <<>> /\ events = <<>> /\ cur = listenfd /\ buf = <<>>
        /\ forwarded = <<>> /\ taken = 0

Owns(c, fd) == conn[c] = "accepted" /\ fdOf[c] = fd
FreeFds == {fd \in Fds : \A c \in Clients : ~Owns(c, fd)}

(* A registered socket that gets something to read is put on the ready list, *)
(* unless it is there already.                                               *)
Wake(s) == ready' = IF s \in ToSet(ready) THEN ready ELSE Append(ready, s)
WakeIfRegistered(c) == IF conn[c] = "accepted" THEN Wake(c) ELSE UNCHANGED ready

-----------------------------------------------------------------------------
(* The clients. *)

Connect(c) ==
    /\ conn[c] = "none" /\ pc \notin {"start", "exit", "listen", "dead"}
    /\ conn' = [conn EXCEPT ![c] = "queued"]
    /\ queue' = Append(queue, c)
    /\ Wake(NoClient)
    /\ UNCHANGED <<fdOf, out, eof, rst, sent>>

(* What is on its way to payment, or there. *)
Pipe == IF pc = "forward" THEN forwarded \o Tail(buf) ELSE forwarded

(* Commands are numbered to be compared.  A client none of whose commands is *)
(* left anywhere starts again: it can send for ever.                         *)
LastSent(c) ==
    IF out[c] = <<>> /\ \A i \in DOMAIN Pipe : Pipe[i][2] # c THEN 0 ELSE sent[c]

Send(c, k) ==
    /\ conn[c] # "none" /\ ~eof[c]
    /\ LastSent(c) < MaxSend /\ MapThenSumSet(LastSent, Clients) < MaxTotal
    /\ sent' = [sent EXCEPT ![c] = LastSent(c) + 1]
    /\ out' = [out EXCEPT ![c] = @ \o << <<k, c, sent'[c]>>, <<"body", c, sent'[c]>> >>]
    /\ WakeIfRegistered(c)
    /\ UNCHANGED <<conn, queue, fdOf, eof, rst>>

(* A client may leave without waiting for its answers. *)
Close(c) ==
    /\ conn[c] # "none" /\ ~eof[c]
    /\ eof' = [eof EXCEPT ![c] = TRUE]
    /\ WakeIfRegistered(c)
    /\ UNCHANGED <<conn, queue, fdOf, out, rst, sent>>

(* The server wrote to a closed end; the reset arrives. *)
ResetArrives(c) ==
    /\ rst[c] = "sent"
    /\ rst' = [rst EXCEPT ![c] = "in"]
    /\ WakeIfRegistered(c)
    /\ UNCHANGED <<conn, queue, fdOf, out, eof, sent>>

Client == /\ \E c \in Clients : \/ Connect(c) \/ Close(c) \/ ResetArrives(c)
                                \/ \E k \in Commands : Send(c, k)
          /\ UNCHANGED <<limit, slots, payment, pc, events, cur, buf, forwarded, taken>>

-----------------------------------------------------------------------------
(* payment. *)

(* socket, unlink and bind, then listen, then accept, which waits for the   *)
(* server to have connected.                                                *)
PaymentStart ==
    /\ \/ payment = "start" /\ payment' = "bound"
       \/ payment = "bound" /\ payment' = "listening"
       \/ payment = "listening" /\ pc \notin {"start", "exit"} /\ payment' = "serving"
    /\ UNCHANGED <<limit, slots, connVars, pc, ready, events, cur, buf, forwarded, taken>>

(* payment reads what is there, then is busy for two seconds. *)
PaymentRead ==
    /\ payment = "serving" /\ taken < Len(forwarded)
    /\ taken' = Len(forwarded)
    /\ UNCHANGED <<limit, slots, connVars, payment, pc, ready, events, cur, buf, forwarded>>

(* Once the server is gone and everything is read, read returns 0. *)
PaymentEnds ==
    /\ payment = "serving" /\ pc = "dead" /\ taken = Len(forwarded)
    /\ payment' = "ended"
    /\ UNCHANGED <<limit, slots, connVars, pc, ready, events, cur, buf, forwarded, taken>>

Payment == PaymentStart \/ PaymentRead \/ PaymentEnds

-----------------------------------------------------------------------------
(* The server. *)

(* init_payment_connection: without a listening payment the server exits. *)
InitPayment ==
    /\ pc = "start"
    /\ pc' = IF payment = "listening" THEN "listen" ELSE "exit"
    /\ UNCHANGED <<limit, slots, connVars, payment, ready, events, cur, buf, forwarded, taken>>

(* The server listens, and registers its listening socket with epoll. *)
Listen ==
    /\ pc = "listen"
    /\ pc' = "epoll"
    /\ UNCHANGED <<limit, slots, connVars, payment, ready, events, cur, buf, forwarded, taken>>

(* Level triggered readiness: a connection to accept, data, or end of file. *)
Readable(c) == conn[c] = "accepted" /\ (out[c] # <<>> \/ eof[c])
Pollable(s) == IF s = NoClient THEN queue # <<>> ELSE Readable(s)
EventOf(s) == [fd |-> IF s = NoClient THEN listenfd ELSE fdOf[s], for |-> s]

(* epoll_wait looks at the first n entries of the ready list: until it has   *)
(* it has slots events or the list ends.  An entry with nothing to read any  *)
(* more is dropped, a reported one goes to the end of the list.              *)
EpollWait ==
    /\ pc = "epoll"
    /\ \E n \in 1 .. Len(ready) :
       \E hits \in SetToSeqs({i \in 1 .. n : Pollable(ready[i])}) :
          /\ hits # <<>> /\ \A i, j \in DOMAIN hits : i < j => hits[i] < hits[j]
          /\ \/ Len(hits) = slots /\ hits[slots] = n
             \/ Len(hits) < slots /\ n = Len(ready)
          /\ events' = [i \in DOMAIN hits |-> EventOf(ready[hits[i]])]
          /\ ready' = SubSeq(ready, n + 1, Len(ready)) \o [i \in DOMAIN hits |-> ready[hits[i]]]
    /\ pc' = "dispatch"
    /\ UNCHANGED <<limit, slots, connVars, payment, cur, buf, forwarded, taken>>

(* Everything on the list has been read already: epoll_wait waits. *)
EpollIdle ==
    /\ pc = "epoll" /\ ready # <<>> /\ \A i \in DOMAIN ready : ~Pollable(ready[i])
    /\ ready' = <<>>
    /\ UNCHANGED <<limit, slots, connVars, payment, pc, events, cur, buf, forwarded, taken>>

BatchDone ==
    /\ pc = "dispatch" /\ events = <<>>
    /\ pc' = "epoll"
    /\ UNCHANGED <<limit, slots, connVars, payment, ready, events, cur, buf, forwarded, taken>>

Event(isListen) == /\ pc = "dispatch" /\ events # <<>>
                   /\ isListen <=> events[1].fd = listenfd

(* The first in the queue is accepted and registered with epoll, which looks *)
(* whether it is readable already.                                           *)
AcceptFirst ==
    LET c == Head(queue) IN
    /\ conn' = [conn EXCEPT ![c] = "accepted"]
    /\ fdOf' = [fdOf EXCEPT ![c] = Min(FreeFds)]
    /\ queue' = Tail(queue)
    /\ IF out[c] # <<>> \/ eof[c] THEN Wake(c) ELSE UNCHANGED ready

AcceptKeepsOneFree ==           \* mutant: the last descriptor is never used
    /\ Event(TRUE)
    /\ events' = Tail(events)
    /\ IF Cardinality(FreeFds) < 2 THEN UNCHANGED <<conn, queue, fdOf, ready>>
                                   ELSE AcceptFirst
    /\ UNCHANGED <<limit, slots, out, eof, rst, sent, payment, pc, cur, buf, forwarded, taken>>

(* accept gives the lowest free descriptor.  Without one it fails, and the  *)
(* connection stays in the queue: no error is looked at.                    *)
Accept ==
    /\ Event(TRUE)
    /\ events' = Tail(events)
    /\ IF FreeFds = {} THEN UNCHANGED <<conn, queue, fdOf, ready>> ELSE AcceptFirst
    /\ UNCHANGED <<limit, slots, out, eof, rst, sent, payment, pc, cur, buf, forwarded, taken>>

(* read returns some of what was sent. *)
ReadData(c) ==
    /\ Event(FALSE) /\ Owns(c, events[1].fd) /\ out[c] # <<>>
    /\ events' = Tail(events)
    /\ cur' = events[1].fd
    /\ \E n \in 1 .. Len(out[c]) :
          /\ buf' = SubSeq(out[c], 1, n)
          /\ out' = [out EXCEPT ![c] = SubSeq(@, n + 1, Len(@))]
    /\ pc' = IF buf'[1][1] = "P" THEN "forward" ELSE "reply"
    /\ UNCHANGED <<limit, slots, conn, queue, fdOf, eof, rst, sent, payment, ready, forwarded, taken>>

Unregister(c) == \E i \in DOMAIN ready : ready[i] = c /\ ready' = RemoveAt(ready, i)

ReadEofKeepsEvent(c) ==         \* mutant: the event is looked at again
    /\ Event(FALSE) /\ Owns(c, events[1].fd) /\ out[c] = <<>> /\ eof[c]
    /\ conn' = [conn EXCEPT ![c] = "none"]
    /\ fdOf' = [fdOf EXCEPT ![c] = 0]
    /\ eof' = [eof EXCEPT ![c] = FALSE]
    /\ rst' = [rst EXCEPT ![c] = "no"]
    /\ Unregister(c)
    /\ UNCHANGED <<limit, slots, queue, out, sent, payment, pc, events, cur, buf, forwarded, taken>>

(* read returns 0, or an error after a reset: the connection is closed, and *)
(* leaves the ready list, where its event came from.  The client may then   *)
(* connect anew.                                                            *)
ReadEof(c) ==
    /\ Event(FALSE) /\ Owns(c, events[1].fd) /\ out[c] = <<>> /\ eof[c]
    /\ events' = Tail(events)
    /\ conn' = [conn EXCEPT ![c] = "none"]
    /\ fdOf' = [fdOf EXCEPT ![c] = 0]
    /\ eof' = [eof EXCEPT ![c] = FALSE]
    /\ rst' = [rst EXCEPT ![c] = "no"]
    /\ Unregister(c)
    /\ UNCHANGED <<limit, slots, queue, out, sent, payment, pc, cur, buf, forwarded, taken>>

ForwardAllOrNothing ==          \* mutant: waits for room for all it read
    /\ pc = "forward"
    /\ Len(forwarded) - taken + Len(buf) <= PayCap
    /\ forwarded' = forwarded \o Tail(buf)
    /\ pc' = "reply"
    /\ UNCHANGED <<limit, slots, connVars, payment, ready, events, cur, buf, taken>>

ForwardAgain ==                 \* mutant: a blocked write is repeated
    /\ pc = "forward"
    /\ forwarded' = forwarded \o Tail(buf)
    /\ pc' = IF Len(forwarded) - taken < PayCap THEN "reply" ELSE "forward"
    /\ UNCHANGED <<limit, slots, connVars, payment, ready, events, cur, buf, taken>>

(* The write to payment blocks while its socket is full. *)
Forward ==
    /\ pc = "forward"
    /\ Len(forwarded) - taken < PayCap
    /\ forwarded' = forwarded \o Tail(buf)
    /\ pc' = "reply"
    /\ UNCHANGED <<limit, slots, connVars, payment, ready, events, cur, buf, taken>>

(* The answer: an acknowledgement for 'P', 'L' and 'H', else "ERR: unknown". *)
(* The second write to a client that is gone raises SIGPIPE.                 *)
Reply(c) ==
    /\ pc = "reply" /\ Owns(c, cur)
    /\ rst' = IF eof[c] /\ rst[c] = "no" THEN [rst EXCEPT ![c] = "sent"] ELSE rst
    /\ pc' = IF rst[c] = "in" THEN "dead" ELSE "dispatch"
    /\ buf' = <<>> /\ cur' = listenfd
    /\ UNCHANGED <<limit, slots, conn, queue, fdOf, out, eof, sent, payment, ready, events, forwarded, taken>>

Server == \/ InitPayment \/ Listen \/ EpollWait \/ EpollIdle \/ BatchDone \/ Accept \/ Forward
          \/ \E c \in Clients : ReadData(c) \/ ReadEof(c) \/ Reply(c)

Next == Client \/ Payment \/ Server

(* The server runs whenever it is not blocked, and so does payment, which    *)
(* comes back to its read after each payment.                                *)
Fairness == WF_vars(Server) /\ WF_vars(Payment)

Spec == Init /\ [][Next]_vars /\ Fairness

-----------------------------------------------------------------------------
(* A pending event is still true when its turn comes: its descriptor is the *)
(* connection the event was raised for, although descriptors are closed and *)
(* reused while the batch is handled, and accept and read will not block    *)
(* the only thread.                                                         *)
EventsFresh ==
    \A i \in DOMAIN events :
        IF events[i].fd = listenfd THEN queue # <<>>
        ELSE Owns(events[i].for, events[i].fd) /\ Readable(events[i].for)

(* Each client's payments reach payment in the order they were sent and at   *)
(* most once, whatever reads they came in and whoever sent in between.       *)
PaymentsInOrder ==
    \A i, j \in DOMAIN forwarded :
        i < j /\ forwarded[i][2] = forwarded[j][2] =>
            \/ forwarded[i][3] < forwarded[j][3]
            \/ forwarded[i][3] = forwarded[j][3] /\ forwarded[i][1] # "body"

(* What an accepted client sends is read, though the server blocks while     *)
(* payment is busy, and may hand out one event at a time while the other     *)
(* clients come, send and go for ever (or the server has died of SIGPIPE).   *)
Drained ==
    \A c \in Clients :
        (conn[c] = "accepted" /\ out[c] # <<>>) ~> (out[c] = <<>> \/ pc = "dead")

(* A client that waits is accepted, however many others have events that     *)
(* compete for the array, unless no descriptor is left (or the server has    *)
(* died).                                                                    *)
Accepted ==
    \A c \in Clients :
        conn[c] = "queued" ~> (conn[c] # "queued" \/ FreeFds = {} \/ pc = "dead")
=============================================================================
