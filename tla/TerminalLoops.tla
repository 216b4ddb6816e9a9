---------------------------- MODULE TerminalLoops ----------------------------
(***************************************************************************)
(* Programs of src/C that loop at a terminal until their user ends them:   *)
(* select.c, which prints what comes from the terminal and from the FIFO   *)
(* FIFO_PATH, select_urandom.c and select_simple.c, whose second           *)
(* descriptor is /dev/urandom, and sysfs_led.c, which blinks a LED.  Each  *)
(* process runs its program again and again; two instances of select.c     *)
(* meet at the path, two of sysfs_led.c at the LED.                        *)
(*                                                                         *)
(* The kernel's part: the terminal keeps lines and ends of input in order, *)
(* and an end of input is read once.  A shell's > makes a regular file of  *)
(* a path that is free, empties one that is there, and waits for a reader  *)
(* of a FIFO.  A FIFO's data is gone when nobody has it open; a regular    *)
(* file, and a FIFO without a writer, are readable at their end.  Messages *)
(* are numbered and of one length.                                         *)
(***************************************************************************)
EXTENDS Integers, Sequences, SequencesExt

CONSTANTS
    Procs,      \* processes, each at a terminal
    Programs,   \* what they may run
    Echoes,     \* bound: messages
    Typed,      \* bound: what a terminal keeps
    Files       \* the files FIFO_PATH may be bound to, one after the other

ASSUME LoopsAssumption ==
    /\ Programs \subseteq {"select", "select_urandom", "select_simple", "sysfs_led"}
    /\ Echoes \in Nat /\ Typed \in Nat /\ "none" \notin Files

VARIABLES
    prog,       \* what each process runs
    path,       \* the file FIFO_PATH is bound to, or "none"
    kind, data, \* of each file: "fifo" or "regular", and the messages in it
    pc,         \* where each process is
    fifo_rd, fifo_wr, \* the files it has open, or "none"
    pos,        \* its position in a regular file
    ready,      \* select reported the second descriptor after the terminal
    got,        \* what its last read of fifo_rd gave
    tty,        \* what its user has typed
    printed,    \* the messages it has printed in this run
    echoes,     \* messages sent
    direct,     \* those that went through a FIFO (history)
    shared,     \* the files two processes had open at once (history)
    running, state, led, \* sysfs_led.c's, and the LED
    put         \* the last write of each process to the LED succeeded (history)

fileVars == <<path, kind, data, echoes, direct, shared>>
procVars == <<fifo_rd, fifo_wr, pos, ready, got, printed>>
ledVars  == <<running, state, led, put>>
vars     == <<prog, fileVars, pc, procVars, tty, ledVars>>

TypeOK == /\ prog \in [Procs -> Programs]
          /\ path \in Files \cup {"none"} /\ kind \in [Files -> {"fifo", "regular"}]
          /\ data \in [Files -> Seq(1 .. Echoes)]
          /\ pc \in [Procs -> {"off", "mkfifo", "open", "open write", "select", "stdin",
                               "second", "unlink", "access", "first", "loop", "blink",
                               "sleep", "last"}]
          /\ fifo_rd \in [Procs -> Files \cup {"none"}] /\ fifo_wr \in [Procs -> Files \cup {"none"}]
          /\ pos \in [Procs -> 0 .. Echoes]
          /\ ready \in [Procs -> BOOLEAN]
          /\ got \in [Procs -> {"nothing", "data", "eof", "EAGAIN"}]
          /\ tty \in [Procs -> Seq({"line", "eof"})] /\ printed \in [Procs -> Seq(1 .. Echoes)]
          /\ echoes \in 0 .. Echoes /\ direct \subseteq 1 .. Echoes /\ shared \subseteq Files
          /\ running \in [Procs -> BOOLEAN] /\ state \in [Procs -> {0, 1}] /\ led \in {0, 1}
          /\ put \in [Procs -> BOOLEAN]

(* Different programs do not meet: all processes run one. *)
Init == /\ \E x \in Programs : prog = [p \in Procs |-> x]
        /\ path = "none" /\ kind = [f \in Files |-> "fifo"] /\ data = [f \in Files |-> <<>>]
        /\ pc = [p \in Procs |-> "off"]
        /\ fifo_rd = [p \in Procs |-> "none"] /\ fifo_wr = fifo_rd
        /\ pos = [p \in Procs |-> 0] /\ ready = [p \in Procs |-> FALSE]
        /\ got = [p \in Procs |-> "nothing"] /\ tty = [p \in Procs |-> <<>>]
        /\ printed = tty /\ echoes = 0 /\ direct = {} /\ shared = {}
        /\ running = [p \in Procs |-> TRUE] /\ state = pos /\ led = 0 /\ put = running

Goto(p, l) == pc' = [pc EXCEPT ![p] = l]
Opens(f)   == {p \in Procs : f \in {fifo_rd[p], fifo_wr[p]}}
Unused     == {f \in Files : f # path /\ Opens(f) = {}}

-----------------------------------------------------------------------------
(* The users. *)

Make(k, d) == \E f \in Unused :
                /\ f = CHOOSE g \in Unused : TRUE
                /\ path' = f /\ kind' = [kind EXCEPT ![f] = k]
                /\ data' = [data EXCEPT ![f] = d] /\ shared' = shared \ {f}

(* echo message > FIFO_PATH *)
Echo ==
    /\ echoes < Echoes /\ echoes' = echoes + 1
    /\ \/ path = "none" /\ Make("regular", <<echoes'>>) /\ UNCHANGED direct
       \/ /\ path # "none" /\ kind[path] = "regular"
          /\ data' = [data EXCEPT ![path] = <<echoes'>>]
          /\ UNCHANGED <<path, kind, direct, shared>>
       \/ /\ path # "none" /\ kind[path] = "fifo" /\ \E p \in Procs : fifo_rd[p] = path
          /\ data' = [data EXCEPT ![path] = Append(@, echoes')]
          /\ direct' = direct \cup {echoes'}
          /\ UNCHANGED <<path, kind, shared>>
    /\ UNCHANGED <<prog, pc, procVars, tty, ledVars>>

(* A line, or Ctrl+D. *)
Type(p, x) ==
    /\ pc[p] \in {"select", "stdin", "second"} /\ Len(tty[p]) < Typed
    /\ tty' = [tty EXCEPT ![p] = Append(@, x)]
    /\ UNCHANGED <<prog, fileVars, pc, procVars, ledVars>>

(* The kernel closes what the process had open; with the path bound to b *)
(* from now on, what else is lost.                                       *)
End(p, b) ==
    /\ Goto(p, "off") /\ path' = b
    /\ fifo_rd' = [fifo_rd EXCEPT ![p] = "none"] /\ fifo_wr' = [fifo_wr EXCEPT ![p] = "none"]
    /\ LET gone == {f \in Files : Opens(f) \subseteq {p} /\ f # b}
       IN /\ data' = [f \in Files |-> IF f \in gone \/ (Opens(f) = {p} /\ kind[f] = "fifo")
                                      THEN <<>> ELSE data[f]]
          /\ kind' = [f \in Files |-> IF f \in gone THEN "fifo" ELSE kind[f]]
          /\ shared' = shared \ gone
    /\ ready' = [ready EXCEPT ![p] = FALSE] /\ got' = [got EXCEPT ![p] = "nothing"]
    /\ tty' = [tty EXCEPT ![p] = <<>>] /\ pos' = [pos EXCEPT ![p] = 0]
    /\ UNCHANGED <<prog, echoes, direct, printed, ledVars>>

(* Ctrl+C ends the process where it is, and leaves the path as it is. *)
CtrlC(p) == pc[p] # "off" /\ prog[p] # "sysfs_led" /\ End(p, path)

(* signal_handler of sysfs_led.c, which sleep returns for *)
CtrlCLed(p) ==
    /\ prog[p] = "sysfs_led" /\ pc[p] # "off" /\ running' = [running EXCEPT ![p] = FALSE]
    /\ IF pc[p] = "sleep" THEN Goto(p, "loop") ELSE UNCHANGED pc
    /\ UNCHANGED <<prog, fileVars, procVars, tty, state, led, put>>

-----------------------------------------------------------------------------
(* select.c: access tells whether the path is bound, to anything. *)
Start(p) ==
    /\ pc[p] = "off"
    /\ Goto(p, CASE prog[p] = "select"    -> IF path = "none" THEN "mkfifo" ELSE "open"
                 [] prog[p] = "sysfs_led" -> "access"
                 [] OTHER                 -> "select")
    /\ printed' = [printed EXCEPT ![p] = <<>>]
    /\ running' = [running EXCEPT ![p] = TRUE] /\ state' = [state EXCEPT ![p] = 0]
    /\ UNCHANGED <<prog, fileVars, fifo_rd, fifo_wr, pos, ready, got, tty, led, put>>

(* It fails, and the program exits, if the path is bound by now. *)
Mkfifo(p) ==
    /\ pc[p] = "mkfifo"
    /\ IF path = "none"
       THEN Make("fifo", <<>>) /\ Goto(p, "open")
       ELSE Goto(p, "off") /\ UNCHANGED <<path, kind, data, shared>>
    /\ UNCHANGED <<prog, echoes, direct, procVars, tty, ledVars>>

(* The path may be gone again. *)
OpenRead(p) ==
    /\ pc[p] = "open"
    /\ Goto(p, IF path = "none" THEN "off" ELSE "open write")
    /\ fifo_rd' = [fifo_rd EXCEPT ![p] = path]
    /\ shared' = IF path = "none" \/ Opens(path) = {} THEN shared ELSE shared \cup {path}
    /\ UNCHANGED <<prog, path, kind, data, echoes, direct,
                   fifo_wr, pos, ready, got, printed, tty, ledVars>>

OpenWriteForgotten(p) ==        \* mutant: the writing end is not opened
    /\ pc[p] = "open write" /\ Goto(p, "select")
    /\ UNCHANGED <<prog, fileVars, fifo_rd, fifo_wr, pos, ready, got, printed, tty, ledVars>>

(* So it may here, or be another FIFO that nobody reads (ENXIO). *)
OpenWrite(p) ==
    /\ pc[p] = "open write"
    /\ IF path = "none" \/ (kind[path] = "fifo" /\ \A q \in Procs : fifo_rd[q] # path)
       THEN End(p, path)
       ELSE /\ Goto(p, "select")
            /\ fifo_wr' = [fifo_wr EXCEPT ![p] = path]
            /\ UNCHANGED <<prog, fileVars, fifo_rd, pos, ready, got, printed, tty, ledVars>>

-----------------------------------------------------------------------------
(* The loop of the three select programs. *)

Rest(p) == SubSeq(data[fifo_rd[p]], pos[p] + 1, Len(data[fifo_rd[p]]))

Readable(p) == prog[p] # "select" \/ kind[fifo_rd[p]] = "regular" \/ data[fifo_rd[p]] # <<>>

(* A FIFO that has lost its last writer is readable, too; one that had none  *)
(* since it was opened is not: either is possible here.                      *)
MaybeReady(p) ==
    {r \in BOOLEAN : /\ Readable(p) => r
                     /\ r => Readable(p) \/ \A q \in Procs : fifo_wr[q] # fifo_rd[p]}

SelectFifoFirst(p) ==           \* mutant: the terminal is served if nothing else is
    /\ pc[p] = "select"
    /\ \E second \in MaybeReady(p) :
         /\ second \/ tty[p] # <<>>
         /\ ready' = [ready EXCEPT ![p] = second /\ tty[p] # <<>>]
         /\ Goto(p, IF second THEN "second" ELSE "stdin")
    /\ got' = [got EXCEPT ![p] = "nothing"]
    /\ UNCHANGED <<prog, fileVars, fifo_rd, fifo_wr, pos, printed, tty, ledVars>>

Select(p) ==
    /\ pc[p] = "select"
    /\ \E second \in MaybeReady(p) :
         /\ second \/ tty[p] # <<>>
         /\ ready' = [ready EXCEPT ![p] = second /\ tty[p] # <<>>]
         /\ Goto(p, IF tty[p] # <<>> THEN "stdin" ELSE "second")
    /\ got' = [got EXCEPT ![p] = "nothing"]
    /\ UNCHANGED <<prog, fileVars, fifo_rd, fifo_wr, pos, printed, tty, ledVars>>

StdinContinues(p) ==            \* mutant: after a line select is called again
    /\ pc[p] = "stdin"
    /\ tty' = [tty EXCEPT ![p] = Tail(@)] /\ ready' = [ready EXCEPT ![p] = FALSE]
    /\ Goto(p, IF Head(tty[p]) = "eof" THEN "unlink" ELSE "select")
    /\ UNCHANGED <<prog, fileVars, fifo_rd, fifo_wr, pos, got, printed, ledVars>>

(* The end of the input ends the loop, whatever the FIFO still holds; in      *)
(* select_simple.c it is printed like a line.                               *)
Stdin(p) ==
    /\ pc[p] = "stdin"
    /\ tty' = [tty EXCEPT ![p] = Tail(@)] /\ ready' = [ready EXCEPT ![p] = FALSE]
    /\ Goto(p, IF Head(tty[p]) = "eof" /\ prog[p] # "select_simple" THEN "unlink"
               ELSE IF ready[p] THEN "second" ELSE "select")
    /\ UNCHANGED <<prog, fileVars, fifo_rd, fifo_wr, pos, got, printed, ledVars>>

(* Random bytes. *)
ReadRandom(p) ==
    /\ pc[p] = "second" /\ prog[p] # "select" /\ Goto(p, "select")
    /\ UNCHANGED <<prog, fileVars, procVars, tty, ledVars>>

ReadFifoPeeks(p) ==             \* mutant: what is printed stays in the FIFO
    /\ pc[p] = "second" /\ prog[p] = "select" /\ Goto(p, "select")
    /\ IF Rest(p) # <<>>
       THEN /\ printed' = [printed EXCEPT ![p] = @ \o Rest(p)]
            /\ got' = [got EXCEPT ![p] = "data"]
            /\ pos' = [pos EXCEPT ![p] = Len(data[fifo_rd[p]])]
       ELSE UNCHANGED <<pos, printed, got>>
    /\ UNCHANGED <<prog, fileVars, fifo_rd, fifo_wr, ready, tty, ledVars>>

(* 255 bytes at most: one message, or more. *)
ReadFifo(p) ==
    /\ pc[p] = "second" /\ prog[p] = "select" /\ Goto(p, "select")
    /\ \/ \E n \in 1 .. Len(Rest(p)) :
            /\ printed' = [printed EXCEPT ![p] = @ \o SubSeq(Rest(p), 1, n)]
            /\ IF kind[fifo_rd[p]] = "fifo"
               THEN data' = [data EXCEPT ![fifo_rd[p]] = SubSeq(@, n + 1, Len(@))] /\ UNCHANGED pos
               ELSE pos' = [pos EXCEPT ![p] = @ + n] /\ UNCHANGED data
            /\ got' = [got EXCEPT ![p] = "data"]
       \/ /\ Rest(p) = <<>>
          /\ got' = [got EXCEPT ![p] = IF kind[fifo_rd[p]] = "fifo" /\ \E q \in Procs : fifo_wr[q] = fifo_rd[p]
                                       THEN "EAGAIN" ELSE "eof"]
          /\ UNCHANGED <<data, pos, printed>>
    /\ UNCHANGED <<prog, path, kind, echoes, direct, shared, fifo_rd, fifo_wr, ready, tty, ledVars>>

(* unlink, whatever file is there *)
Unlink(p) == /\ pc[p] = "unlink"
             /\ End(p, IF prog[p] = "select" THEN "none" ELSE path)

-----------------------------------------------------------------------------
(* sysfs_led.c *)

(* A write to the LED succeeds or fails. *)
SetLed(p, v, ok, failed) ==
    \/ led' = v /\ put' = [put EXCEPT ![p] = TRUE] /\ Goto(p, ok)
    \/ UNCHANGED led /\ put' = [put EXCEPT ![p] = FALSE] /\ Goto(p, failed)

(* access *)
LedAccess(p) ==
    /\ pc[p] = "access" /\ (Goto(p, "first") \/ Goto(p, "off"))
    /\ UNCHANGED <<prog, fileVars, procVars, tty, ledVars>>

LedFirst(p) ==
    /\ pc[p] = "first" /\ SetLed(p, 0, "loop", "off")
    /\ UNCHANGED <<prog, fileVars, procVars, tty, running, state>>

(* while (running) *)
LedLoop(p) ==
    /\ pc[p] = "loop" /\ Goto(p, IF running[p] THEN "blink" ELSE "last")
    /\ state' = IF running[p] THEN [state EXCEPT ![p] = 1 - @] ELSE state
    /\ UNCHANGED <<prog, fileVars, procVars, tty, running, led, put>>

LedBlinkReturns(p) ==           \* mutant: a failed write returns at once
    /\ pc[p] = "blink"
    /\ \/ led' = state[p] /\ Goto(p, "sleep")
       \/ UNCHANGED led /\ Goto(p, "off")
    /\ UNCHANGED <<prog, fileVars, procVars, tty, running, state, put>>

(* A failed write ends the loop. *)
LedBlink(p) ==
    /\ pc[p] = "blink" /\ SetLed(p, state[p], "sleep", "last")
    /\ UNCHANGED <<prog, fileVars, procVars, tty, running, state>>

LedSleep(p) ==
    /\ pc[p] = "sleep" /\ Goto(p, "loop")
    /\ UNCHANGED <<prog, fileVars, procVars, tty, ledVars>>

LedLast(p) ==
    /\ pc[p] = "last" /\ SetLed(p, 0, "off", "off")
    /\ UNCHANGED <<prog, fileVars, procVars, tty, running, state>>

-----------------------------------------------------------------------------
Led(p) == LedAccess(p) \/ LedFirst(p) \/ LedLoop(p) \/ LedBlink(p) \/ LedSleep(p) \/ LedLast(p)
Loop(p) == \/ Mkfifo(p) \/ OpenRead(p) \/ OpenWrite(p) \/ Select(p) \/ Stdin(p)
           \/ ReadRandom(p) \/ ReadFifo(p) \/ Unlink(p)

Next == \/ Echo
        \/ \E p \in Procs : \/ Type(p, "line") \/ Type(p, "eof") \/ CtrlC(p) \/ CtrlCLed(p)
                            \/ Start(p) \/ Loop(p) \/ Led(p)

(* A program runs on while it is not blocked. *)
Fairness == \A p \in Procs : WF_vars(Loop(p)) /\ WF_vars(Led(p))

Spec == Init /\ [][Next]_vars /\ Fairness

-----------------------------------------------------------------------------
(* A read of the FIFO that select reported finds data, as the comments of      *)
(* select.c have it: no end of file, since the program has the writing end     *)
(* open, unless the path was a regular file or was bound anew between the two  *)
(* opens; and no EAGAIN, unless another instance took the data.                *)
ReadsFindData ==
    \A p \in Procs :
        /\ got[p] = "eof" => \/ kind[fifo_rd[p]] = "regular"
                            \/ fifo_wr[p] \notin {"none", fifo_rd[p]}
        /\ got[p] = "EAGAIN" => fifo_rd[p] \in shared

(* A process prints messages in the order they were sent, over kills and left  *)
(* over FIFOs; what went through a FIFO is printed by one process, once.        *)
PrintedOnce ==
    \A p, q \in Procs : \A i \in DOMAIN printed[p], j \in DOMAIN printed[q] :
        /\ p = q /\ i < j => printed[p][i] < printed[p][j]
        /\ p # q /\ printed[p][i] = printed[q][j] => printed[p][i] \notin direct

Unread(p, m) == /\ fifo_rd[p] # "none" /\ kind[fifo_rd[p]] = "fifo"
                /\ m \in Range(data[fifo_rd[p]])

(* A message in a FIFO that a process reads is printed by somebody, or the      *)
(* process ends, whatever comes from the terminals.                            *)
MessagesPrinted == \A p \in Procs, m \in 1 .. Echoes : Unread(p, m) ~> ~Unread(p, m)

Asked(p) == \/ "eof" \in Range(tty[p]) /\ prog[p] \in {"select", "select_urandom"}
            \/ ~running[p] /\ pc[p] # "off"

(* Ctrl+D ends select.c and select_urandom.c, though their second descriptor   *)
(* is always, or again and again, readable; Ctrl+C ends sysfs_led.c.           *)
EndsWhenAsked == \A p \in Procs : Asked(p) ~> pc[p] = "off"

(* When no instance runs the LED is off, unless the last write of one failed.   *)
LedOffAtEnd ==
    (\A p \in Procs : pc[p] = "off") /\ (\A p \in Procs : put[p]) => led = 0
=============================================================================
