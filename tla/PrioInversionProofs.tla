------------------------- MODULE PrioInversionProofs -------------------------
(***************************************************************************)
(* Proofs about PrioInversion, for any length of the busy wait and any     *)
(* queues: the lock excludes, under priority inheritance payment never     *)
(* runs while health waits for a logger that can run, a STOP is not lost   *)
(* whatever health reads in one go, and the logger sleeps with the lock in *)
(* hand only after a hangup.  (That health is served in the end is a       *)
(* matter of fairness and stays with the model checker.)                   *)
(***************************************************************************)
EXTENDS PrioInversion, SequenceTheorems, TLAPS

(* The lock is held by the process that is between wait and post. *)
LockHeld == /\ holder = "logger" <=> pc["logger"] \in {"read", "post"}
            /\ holder = "health" <=> pc["health"] \in {"check", "apply"}

(* What poll saw is still so when the logger reads: only it takes messages. *)
PollHolds == pc["logger"] \in {"wait", "read"} => hup \/ fifo > 0

(* Where the last command sent is: on the socket, with health, or obeyed. *)
StopOnItsWay ==
    /\ cmds # <<>> => cmds[Len(cmds)] = last
    /\ last = "STOP" /\ cmds = <<>> =>
          IF pc["health"] \in {"cwait", "apply"} THEN Has(got, "STOP") ELSE ~running

Spinning == pc["payment"] = "busy" => turns > 0

IInv == TypeOK /\ LockHeld /\ PollHolds /\ StopOnItsWay /\ Spinning
-----------------------------------------------------------------------------
LEMMA InitInv == Init => IInv
<1> SUFFICES ASSUME Init PROVE IInv
    OBVIOUS
<1>1. /\ pc["logger"] = "open" /\ pc["payment"] = "read" /\ pc["health"] = "epoll"
      /\ DOMAIN pc = Procs
  BY DEF Init, Procs
<1>2. /\ cmds = <<>> /\ got = <<>> /\ events = <<>> /\ last = "none" /\ holder = Nobody
      /\ fifo = 0 /\ pays = 0 /\ turns = 0 /\ PiMutex \in BOOLEAN
  BY DEF Init
<1>3. <<>> \in Seq(Commands) /\ <<>> \in Seq(Events) /\ Len(<<>>) = 0
  BY EmptySeq
<1>4. TypeOK
  <2>1. \A p \in Procs : pc[p] \in Label[p]
    BY <1>1 DEF Procs, Label
  <2>2. 0 \in 0 .. MaxFifo /\ 0 \in 0 .. MaxPay /\ 0 \in 0 .. BusyTurns /\ 0 <= MaxCmds
    BY InversionAssumption
  <2>3. writer \in BOOLEAN /\ hup \in BOOLEAN /\ payEof \in BOOLEAN
        /\ tick \in BOOLEAN /\ cmdEof \in BOOLEAN /\ running \in BOOLEAN
    BY DEF Init
  <2> QED
    BY <1>1, <1>2, <1>3, <2>1, <2>2, <2>3 DEF TypeOK
<1>5. LockHeld /\ PollHolds /\ StopOnItsWay /\ Spinning
  BY <1>1, <1>2 DEF LockHeld, PollHolds, StopOnItsWay, Spinning, Nobody
<1> QED
  BY <1>4, <1>5 DEF IInv

LEMMA Moved ==
    ASSUME TypeOK, NEW p \in Procs, NEW l \in Label[p], Goto(p, l)
    PROVE  /\ pc'[p] = l /\ \A q \in Procs : q # p => pc'[q] = pc[q]
           /\ DOMAIN pc' = Procs /\ \A q \in Procs : pc'[q] \in Label[q]
BY DEF TypeOK, Goto

(* The steps of the logger leave payment and health where they are. *)
LEMMA LoggerMoved ==
    ASSUME IInv, NEW l \in Label["logger"], Goto("logger", l),
           UNCHANGED <<PiMutex, paymentVars, healthVars, writer>>,
           holder' \in {"logger", "health", Nobody},
           fifo' \in {fifo, 0}, hup' \in BOOLEAN
    PROVE  /\ TypeOK' /\ StopOnItsWay' /\ Spinning'
           /\ pc'["logger"] = l /\ pc'["health"] = pc["health"]
<1> USE DEF IInv
<1>1. UNCHANGED <<PiMutex, pays, payEof, turns, tick, cmds, cmdEof, events, got, running, last>>
  BY DEF paymentVars, healthVars
<1>2. /\ pc'["logger"] = l /\ pc'["payment"] = pc["payment"] /\ pc'["health"] = pc["health"]
      /\ DOMAIN pc' = Procs /\ \A q \in Procs : pc'[q] \in Label[q]
  BY Moved DEF Procs
<1>3. fifo' \in 0 .. MaxFifo
  BY InversionAssumption DEF TypeOK
<1>4. TypeOK'
  BY <1>1, <1>2, <1>3 DEF TypeOK
<1>5. StopOnItsWay' /\ Spinning'
  BY <1>1, <1>2 DEF StopOnItsWay, Spinning
<1> QED
  BY <1>2, <1>4, <1>5

LEMMA LoggerInv == IInv /\ Logger => IInv'
<1> SUFFICES ASSUME IInv, Logger PROVE IInv'
    OBVIOUS
<1> USE DEF IInv
<1>1. UNCHANGED <<PiMutex, paymentVars, healthVars>>
  BY DEF Logger
<1>2. /\ Label["logger"] = {"open", "poll", "wait", "read", "post"}
      /\ holder \in {"logger", "health", Nobody} /\ hup \in BOOLEAN
  BY DEF Label, TypeOK
<1>3. CASE LoggerOpen
  <2>1. Goto("logger", "poll") /\ pc["logger"] = "open" /\ UNCHANGED <<holder, fifo, writer, hup>>
    BY <1>3 DEF LoggerOpen, loggerVars
  <2> QED
    BY <1>1, <1>2, <2>1, LoggerMoved DEF LockHeld, PollHolds
<1>4. CASE LoggerPoll
  <2>1. Goto("logger", "wait") /\ pc["logger"] = "poll" /\ UNCHANGED <<holder, fifo, writer>>
        /\ hup' = (fifo = 0) /\ fifo \in Nat
    BY <1>4 DEF LoggerPoll, TypeOK
  <2>2. CASE fifo = 0
    <3>1. hup' = TRUE
      BY <2>1, <2>2
    <3> QED
      BY <1>1, <1>2, <2>1, <3>1, LoggerMoved DEF LockHeld, PollHolds
  <2>3. CASE fifo # 0
    <3>1. hup' = FALSE
      BY <2>1, <2>3, Zenon
    <3>2. fifo' > 0
      BY <2>1, <2>3
    <3> QED
      BY <1>1, <1>2, <2>1, <3>1, <3>2, LoggerMoved DEF LockHeld, PollHolds
  <2> QED
    BY <2>2, <2>3
<1>5. CASE LoggerWait
  <2>1. Goto("logger", "read") /\ pc["logger"] = "wait" /\ UNCHANGED <<fifo, writer, hup>>
        /\ holder = Nobody /\ holder' = "logger"
    BY <1>5 DEF LoggerWait, Acquire, loggerVars
  <2> QED
    BY <1>1, <1>2, <2>1, LoggerMoved DEF LockHeld, PollHolds, Nobody
<1>6. CASE LoggerRead
  <2>1. Goto("logger", "post") /\ pc["logger"] = "read" /\ UNCHANGED <<holder, writer>>
        /\ fifo' = 0 /\ hup' = FALSE
    BY <1>6 DEF LoggerRead
  <2>2. fifo' \in {fifo, 0} /\ hup' \in BOOLEAN /\ "post" \in Label["logger"]
        /\ holder' \in {"logger", "health", Nobody}
    BY <1>2, <2>1
  <2>3. /\ TypeOK' /\ StopOnItsWay' /\ Spinning'
        /\ pc'["logger"] = "post" /\ pc'["health"] = pc["health"]
    BY <1>1, <2>1, <2>2, LoggerMoved
  <2>4. LockHeld' /\ PollHolds'
    BY <2>1, <2>3 DEF LockHeld, PollHolds
  <2> QED
    BY <2>3, <2>4
<1>7. CASE LoggerPost
  <2>1. Goto("logger", "poll") /\ pc["logger"] = "post" /\ UNCHANGED <<fifo, writer, hup>>
        /\ holder' = Nobody
    BY <1>7 DEF LoggerPost, Release, loggerVars
  <2> QED
    BY <1>1, <1>2, <2>1, LoggerMoved DEF LockHeld, PollHolds, Nobody
<1> QED
  BY <1>3, <1>4, <1>5, <1>6, <1>7 DEF Logger

LEMMA PaymentInv == IInv /\ Payment => IInv'
<1> SUFFICES ASSUME IInv, Payment PROVE IInv'
    OBVIOUS
<1> USE DEF IInv
<1>1. UNCHANGED <<PiMutex, holder, fifo, writer, hup, payEof,
                  tick, cmds, cmdEof, events, got, running, last>>
  BY DEF Payment, PaymentRead, PaymentBusy, loggerVars, healthVars
<1>2. Label["payment"] = {"read", "busy", "done"} /\ pc["payment"] \in Label["payment"]
      /\ 0 \in 0 .. MaxPay /\ BusyTurns \in 0 .. BusyTurns /\ BusyTurns > 0
  BY InversionAssumption DEF Label, TypeOK, Procs
<1>3. PICK l \in Label["payment"] :
        /\ Goto("payment", l) \/ (pc' = pc /\ l = pc["payment"])
        /\ pays' \in 0 .. MaxPay /\ turns' \in 0 .. BusyTurns
        /\ l = "busy" => turns' > 0
  <2>1. CASE PaymentRead
    <3>1. CASE pays > 0
      <4>1. Goto("payment", "busy") /\ turns' = BusyTurns /\ pays' = 0
        BY <2>1, <3>1 DEF PaymentRead
      <4> QED
        BY <1>2, <4>1
    <3>2. CASE ~(pays > 0)
      <4>1. Goto("payment", "done") /\ turns' = turns /\ pays' = 0
        BY <2>1, <3>2 DEF PaymentRead
      <4>2. turns \in 0 .. BusyTurns
        BY DEF TypeOK
      <4> QED
        BY <1>2, <4>1, <4>2
    <3> QED
      BY <3>1, <3>2
  <2>2. CASE PaymentBusy
    <3>1. /\ pc["payment"] = "busy" /\ turns' = turns - 1 /\ pays' = pays
          /\ IF turns = 1 THEN Goto("payment", "read") ELSE pc' = pc
      BY <2>2 DEF PaymentBusy
    <3>2. turns > 0 /\ turns \in 0 .. BusyTurns /\ pays' \in 0 .. MaxPay
      BY <3>1 DEF Spinning, TypeOK
    <3>3. turns' \in 0 .. BusyTurns /\ (turns # 1 => turns' > 0)
      BY <3>1, <3>2, InversionAssumption
    <3> QED
      BY <1>2, <3>1, <3>2, <3>3
  <2> QED
    BY <2>1, <2>2 DEF Payment
<1>4. /\ pc'["payment"] = l /\ pc'["logger"] = pc["logger"] /\ pc'["health"] = pc["health"]
      /\ DOMAIN pc' = Procs /\ \A q \in Procs : pc'[q] \in Label[q]
  BY <1>3, Moved DEF Procs, TypeOK
<1>5. TypeOK'
  BY <1>1, <1>3, <1>4 DEF TypeOK
<1>6. LockHeld' /\ PollHolds' /\ StopOnItsWay' /\ Spinning'
  BY <1>1, <1>3, <1>4 DEF LockHeld, PollHolds, StopOnItsWay, Spinning
<1> QED
  BY <1>5, <1>6

-----------------------------------------------------------------------------
(* The steps of health leave logger and payment where they are. *)
LEMMA HealthMoved ==
    ASSUME IInv, NEW l \in Label["health"],
           Goto("health", l) \/ (pc' = pc /\ l = pc["health"]),
           UNCHANGED <<PiMutex, loggerVars, paymentVars, last, cmdEof>>,
           holder' \in {"logger", "health", Nobody},
           tick' \in BOOLEAN, running' \in BOOLEAN,
           cmds' \in {cmds, <<>>}, got' \in Seq(Commands), events' \in Seq(Events)
    PROVE  /\ TypeOK' /\ PollHolds' /\ Spinning'
           /\ pc'["health"] = l /\ pc'["logger"] = pc["logger"]
<1> USE DEF IInv
<1>1. UNCHANGED <<PiMutex, fifo, writer, hup, pays, payEof, turns, cmdEof, last>>
  BY DEF loggerVars, paymentVars
<1>2. /\ pc'["health"] = l /\ pc'["payment"] = pc["payment"] /\ pc'["logger"] = pc["logger"]
      /\ DOMAIN pc' = Procs /\ \A q \in Procs : pc'[q] \in Label[q]
  BY Moved DEF Procs, TypeOK
<1>3. <<>> \in Seq(Commands) /\ Len(<<>>) = 0
  BY EmptySeq
<1>4. cmds' \in Seq(Commands) /\ Len(cmds') <= MaxCmds
  <2>1. CASE cmds' = cmds
    BY <2>1 DEF TypeOK
  <2>2. CASE cmds' = <<>>
    BY <1>3, <2>2, InversionAssumption
  <2> QED
    BY <2>1, <2>2
<1>5. TypeOK'
  BY <1>1, <1>2, <1>4 DEF TypeOK
<1>6. PollHolds' /\ Spinning'
  BY <1>1, <1>2 DEF PollHolds, Spinning
<1> QED
  BY <1>2, <1>5, <1>6

LEMMA HealthInv == IInv /\ Health => IInv'
<1> SUFFICES ASSUME IInv, Health PROVE IInv'
    OBVIOUS
<1> USE DEF IInv
<1>1. UNCHANGED <<PiMutex, loggerVars, paymentVars>>
  BY DEF Health
<1>2. /\ Label["health"] = {"epoll", "dispatch", "twait", "check", "cwait", "apply"}
      /\ holder \in {"logger", "health", Nobody} /\ tick \in BOOLEAN /\ running \in BOOLEAN
      /\ cmds \in Seq(Commands) /\ got \in Seq(Commands) /\ events \in Seq(Events)
      /\ pc["health"] \in Label["health"]
  BY DEF Label, TypeOK, Procs
<1>3. <<>> \in Seq(Commands)
  BY EmptySeq
<1>4. CASE HealthPoll
  <2>1. /\ pc["health"] = "epoll" /\ Goto("health", "dispatch")
        /\ UNCHANGED <<holder, tick, cmds, cmdEof, got, running, last>>
        /\ events' \in {<<"timer", "client">>, <<"client", "timer">>, <<"timer">>, <<"client">>}
    BY <1>4 DEF HealthPoll
  <2>2. events' \in Seq(Events)
    <3>1. "timer" \in Events /\ "client" \in Events
      BY DEF Events
    <3>2. \A a, b \in Events : <<a>> \in Seq(Events) /\ <<a, b>> \in Seq(Events)
      OBVIOUS
    <3> QED
      BY <2>1, <3>1, <3>2
  <2>3. TypeOK' /\ PollHolds' /\ Spinning'
        /\ pc'["health"] = "dispatch" /\ pc'["logger"] = pc["logger"]
    BY <1>1, <1>2, <2>1, <2>2, HealthMoved
  <2>4. LockHeld' /\ StopOnItsWay'
    BY <2>1, <2>3 DEF LockHeld, StopOnItsWay
  <2> QED
    BY <2>3, <2>4
<1>5. CASE HealthBatchDone
  <2>1. /\ pc["health"] = "dispatch" /\ Goto("health", "epoll")
        /\ UNCHANGED <<holder, tick, cmds, cmdEof, events, got, running, last>>
    BY <1>5 DEF HealthBatchDone, healthVars
  <2>2. TypeOK' /\ PollHolds' /\ Spinning'
        /\ pc'["health"] = "epoll" /\ pc'["logger"] = pc["logger"]
    BY <1>1, <1>2, <2>1, HealthMoved
  <2>3. LockHeld' /\ StopOnItsWay'
    BY <2>1, <2>2 DEF LockHeld, StopOnItsWay
  <2> QED
    BY <2>2, <2>3
<1>6. CASE HealthTimer
  <2>1. /\ pc["health"] = "dispatch" /\ events # <<>> /\ events' = Tail(events)
        /\ tick' = FALSE
        /\ IF running THEN Goto("health", "twait") ELSE pc' = pc
        /\ UNCHANGED <<holder, cmds, cmdEof, got, running, last>>
    BY <1>6 DEF HealthTimer
  <2>2. events' \in Seq(Events)
    BY <1>2, <2>1, HeadTailProperties
  <2>3. PICK l \in {"twait", "dispatch"} :
           Goto("health", l) \/ (pc' = pc /\ l = pc["health"])
    BY <2>1
  <2>4. TypeOK' /\ PollHolds' /\ Spinning'
        /\ pc'["health"] = l /\ pc'["logger"] = pc["logger"]
    BY <1>1, <1>2, <2>1, <2>2, <2>3, HealthMoved
  <2>5. LockHeld' /\ StopOnItsWay'
    BY <2>1, <2>3, <2>4 DEF LockHeld, StopOnItsWay
  <2> QED
    BY <2>4, <2>5
<1>7. CASE HealthClient
  <2>1. /\ pc["health"] = "dispatch" /\ events # <<>> /\ events' = Tail(events)
        /\ got' = cmds /\ cmds' = <<>>
        /\ IF cmds # <<>> THEN Goto("health", "cwait") ELSE pc' = pc
        /\ UNCHANGED <<holder, tick, cmdEof, running, last>>
    BY <1>7 DEF HealthClient
  <2>2. events' \in Seq(Events)
    BY <1>2, <2>1, HeadTailProperties
  <2>3. PICK l \in {"cwait", "dispatch"} :
           /\ Goto("health", l) \/ (pc' = pc /\ l = pc["health"])
           /\ l = "cwait" <=> cmds # <<>>
    BY <2>1
  <2>4. TypeOK' /\ PollHolds' /\ Spinning'
        /\ pc'["health"] = l /\ pc'["logger"] = pc["logger"]
    BY <1>1, <1>2, <2>1, <2>2, <2>3, HealthMoved
  <2>5. cmds # <<>> /\ last = "STOP" => Has(got', "STOP")
    <3> SUFFICES ASSUME cmds # <<>>, last = "STOP" PROVE Has(got', "STOP")
        OBVIOUS
    <3>1. Len(cmds) \in Nat \ {0} /\ DOMAIN cmds = 1 .. Len(cmds)
      BY <1>2, EmptySeq, LenProperties
    <3>2. Len(cmds) \in DOMAIN got' /\ got'[Len(cmds)] = "STOP"
      BY <2>1, <3>1 DEF StopOnItsWay
    <3> QED
      BY <3>2 DEF Has
  <2>6. LockHeld' /\ StopOnItsWay'
    BY <2>1, <2>3, <2>4, <2>5 DEF LockHeld, StopOnItsWay, Has
  <2> QED
    BY <2>4, <2>6
<1>8. CASE HealthWait
  <2>1. PICK l \in {"check", "apply"} :
           /\ pc["health"] = (IF l = "check" THEN "twait" ELSE "cwait")
           /\ Goto("health", l) /\ holder = Nobody /\ holder' = "health"
    BY <1>8 DEF HealthWait, Acquire
  <2>2. UNCHANGED <<tick, cmds, cmdEof, events, got, running, last>>
    BY <1>8 DEF HealthWait, healthVars
  <2>3. TypeOK' /\ PollHolds' /\ Spinning'
        /\ pc'["health"] = l /\ pc'["logger"] = pc["logger"]
    BY <1>1, <1>2, <2>1, <2>2, HealthMoved
  <2>4. LockHeld' /\ StopOnItsWay'
    BY <2>1, <2>2, <2>3 DEF LockHeld, StopOnItsWay, Has, Nobody
  <2> QED
    BY <2>3, <2>4
<1>9. CASE HealthCheck
  <2>1. /\ pc["health"] = "check" /\ Goto("health", "dispatch") /\ holder' = Nobody
        /\ UNCHANGED <<tick, cmds, cmdEof, events, got, running, last>>
    BY <1>9 DEF HealthCheck, Release, healthVars
  <2>2. TypeOK' /\ PollHolds' /\ Spinning'
        /\ pc'["health"] = "dispatch" /\ pc'["logger"] = pc["logger"]
    BY <1>1, <1>2, <2>1, HealthMoved
  <2>3. LockHeld' /\ StopOnItsWay'
    BY <2>1, <2>2 DEF LockHeld, StopOnItsWay, Nobody
  <2> QED
    BY <2>2, <2>3
<1>10. CASE HealthApply
  <2>1. /\ pc["health"] = "apply" /\ Goto("health", "dispatch") /\ holder' = Nobody
        /\ got' = <<>>
        /\ UNCHANGED <<tick, cmds, cmdEof, events, last>>
        /\ running' = IF Has(got, "STOP") THEN FALSE
                      ELSE IF Has(got, "START") THEN TRUE ELSE running
    BY <1>10 DEF HealthApply, Release
  <2>2. running' \in BOOLEAN
    BY <1>2, <2>1
  <2>3. TypeOK' /\ PollHolds' /\ Spinning'
        /\ pc'["health"] = "dispatch" /\ pc'["logger"] = pc["logger"]
    BY <1>1, <1>2, <1>3, <2>1, <2>2, HealthMoved
  <2>4. LockHeld'
    BY <2>1, <2>3 DEF LockHeld, Nobody
  <2>5. StopOnItsWay'
    BY <2>1, <2>3 DEF StopOnItsWay
  <2> QED
    BY <2>3, <2>4, <2>5
<1> QED
  BY <1>4, <1>5, <1>6, <1>7, <1>8, <1>9, <1>10 DEF Health

-----------------------------------------------------------------------------
(* Writers, the sender of payments, the timer and the client change nothing *)
(* but what is waiting to be read.                                          *)
LEMMA WorldInv == IInv /\ World => IInv'
<1> SUFFICES ASSUME IInv, World PROVE IInv'
    OBVIOUS
<1> USE DEF IInv
<1>1. UNCHANGED <<PiMutex, pc, holder, hup, turns, events, got, running>>
  BY DEF World, FifoOpen, FifoWrite, FifoClose, Pay, PayClose, Tick, Command,
         CommandClose, loggerVars, paymentVars, healthVars
<1>2. LockHeld' /\ Spinning'
  BY <1>1 DEF LockHeld, Spinning
<1>3. CASE FifoOpen \/ FifoWrite \/ FifoClose
  <2>1. UNCHANGED <<pays, payEof, tick, cmds, cmdEof, last>>
    BY <1>3 DEF FifoOpen, FifoWrite, FifoClose, paymentVars, healthVars
  <2>2. writer' \in BOOLEAN /\ fifo' \in 0 .. MaxFifo /\ fifo' >= fifo
    <3>1. fifo \in 0 .. MaxFifo /\ writer \in BOOLEAN /\ MaxFifo \in Nat
      BY InversionAssumption DEF TypeOK
    <3>2. CASE FifoOpen \/ FifoClose
      <4>1. fifo' = fifo /\ writer' \in BOOLEAN
        BY <3>2 DEF FifoOpen, FifoClose
      <4> QED
        BY <3>1, <4>1
    <3>3. CASE FifoWrite
      <4>1. writer' = writer /\ fifo < MaxFifo /\ fifo' = fifo + 1
        BY <3>3 DEF FifoWrite
      <4> QED
        BY <3>1, <4>1
    <3> QED
      BY <1>3, <3>2, <3>3
  <2>3. TypeOK'
    BY <1>1, <2>1, <2>2 DEF TypeOK
  <2>4. PollHolds' /\ StopOnItsWay'
    BY <1>1, <2>1, <2>2, InversionAssumption DEF PollHolds, StopOnItsWay, TypeOK, Has
  <2> QED
    BY <1>2, <2>3, <2>4
<1>4. CASE Pay \/ PayClose
  <2>1. UNCHANGED <<fifo, writer, tick, cmds, cmdEof, last>>
    BY <1>4 DEF Pay, PayClose, loggerVars, healthVars
  <2>2. payEof' \in BOOLEAN /\ pays' \in 0 .. MaxPay
    <3>1. pays \in 0 .. MaxPay /\ payEof \in BOOLEAN /\ MaxPay \in Nat
      BY InversionAssumption DEF TypeOK
    <3>2. CASE Pay
      <4>1. payEof' = payEof /\ pays < MaxPay /\ pays' = pays + 1
        BY <3>2 DEF Pay
      <4> QED
        BY <3>1, <4>1
    <3>3. CASE PayClose
      BY <3>1, <3>3 DEF PayClose
    <3> QED
      BY <1>4, <3>2, <3>3
  <2>3. TypeOK'
    BY <1>1, <2>1, <2>2 DEF TypeOK
  <2>4. PollHolds' /\ StopOnItsWay'
    BY <1>1, <2>1 DEF PollHolds, StopOnItsWay
  <2> QED
    BY <1>2, <2>3, <2>4
<1>5. CASE Tick \/ CommandClose
  <2>1. UNCHANGED <<fifo, writer, pays, payEof, cmds, last>>
    BY <1>5 DEF Tick, CommandClose, loggerVars, paymentVars
  <2>2. tick' \in BOOLEAN /\ cmdEof' \in BOOLEAN
    BY <1>5 DEF Tick, CommandClose, TypeOK
  <2>3. TypeOK'
    BY <1>1, <2>1, <2>2 DEF TypeOK
  <2>4. PollHolds' /\ StopOnItsWay'
    BY <1>1, <2>1 DEF PollHolds, StopOnItsWay
  <2> QED
    BY <1>2, <2>3, <2>4
<1>6. ASSUME NEW c \in Commands, Command(c) PROVE IInv'
  <2>1. /\ UNCHANGED <<fifo, writer, pays, payEof, tick, cmdEof>>
        /\ Len(cmds) < MaxCmds /\ cmds' = Append(cmds, c) /\ last' = c
    BY <1>6 DEF Command, loggerVars, paymentVars
  <2>2. cmds \in Seq(Commands) /\ Len(cmds) \in Nat
    BY LenProperties DEF TypeOK
  <2>3. /\ cmds' \in Seq(Commands) /\ cmds' # <<>>
        /\ Len(cmds') = Len(cmds) + 1 /\ cmds'[Len(cmds) + 1] = last'
    BY <2>1, <2>2, AppendProperties
  <2>4. Len(cmds') <= MaxCmds
    BY <2>1, <2>2, <2>3, InversionAssumption
  <2>5. TypeOK'
    BY <1>1, <2>1, <2>3, <2>4 DEF TypeOK
  <2>6. PollHolds' /\ StopOnItsWay'
    BY <1>1, <2>1, <2>3 DEF PollHolds, StopOnItsWay
  <2> QED
    BY <1>2, <2>5, <2>6
<1> QED
  BY <1>3, <1>4, <1>5, <1>6 DEF World

LEMMA NextInv == IInv /\ [Next]_vars => IInv'
<1>1. IInv /\ UNCHANGED vars => IInv'
  BY DEF IInv, vars, loggerVars, paymentVars, healthVars, TypeOK, LockHeld,
         PollHolds, StopOnItsWay, Spinning, Has
<1> QED
  BY <1>1, LoggerInv, PaymentInv, HealthInv, WorldInv DEF Next, Cpu

(* The inductive invariant holds for any busy wait and any queues.           *)
THEOREM Invariant == Spec => []IInv
BY InitInv, NextInv, PTL DEF Spec

(* STOP is never lost, however many commands health reads at once           *)
(* (health.c looks for STOP before START).                                   *)
THEOREM StopObeyed == Spec => []StopWins
<1>1. IInv => StopWins
  BY DEF IInv, StopOnItsWay, StopWins
<1> QED
  BY <1>1, Invariant, PTL

(* The logger sleeps in read, lock in hand, only after poll reported a       *)
(* hangup (logger.c: poll before pi_sem_wait, read after it).                *)
THEOREM SleepsAfterHangup == Spec => []BlocksOnlyAfterHangup
<1>1. IInv => BlocksOnlyAfterHangup
  BY DEF IInv, PollHolds, BlocksOnlyAfterHangup, LoggerRunnable
<1> QED
  BY <1>1, Invariant, PTL

(* With priority inheritance payment gets no CPU while health waits for a    *)
(* logger that can run.                                                      *)
THEOREM Inheritance == Spec => NoInversion
<1>1. ASSUME IInv, Payment, PiMutex, HealthBlocked, LoggerRunnable
      PROVE  FALSE
  <2>1. pc["health"] \in {"twait", "cwait"} /\ holder # Nobody
    BY <1>1 DEF HealthBlocked
  <2>2. holder = "logger"
    BY <1>1, <2>1 DEF IInv, TypeOK, LockHeld
  <2>3. Priority["logger"] = 3 /\ Priority["payment"] = 2
    BY <1>1, <2>2 DEF Priority
  <2> QED
    BY <1>1, <2>3 DEF Payment, PaymentRuns
<1>2. IInv /\ [Next]_vars
        => [PiMutex /\ HealthBlocked /\ LoggerRunnable => ~Payment]_vars
  BY <1>1
<1> QED
  BY <1>2, Invariant, PTL DEF Spec, NoInversion

(* Whoever holds the lock is inside, and nobody else is.                     *)
LEMMA InsideIsHolder ==
    ASSUME IInv
    PROVE  Inside = IF holder = Nobody THEN {} ELSE {holder}
<1>1. /\ holder \in {"logger", "health", Nobody}
      /\ pc["logger"] \in {"open", "poll", "wait", "read", "post"}
      /\ pc["health"] \in {"epoll", "dispatch", "twait", "check", "cwait", "apply"}
  BY DEF IInv, TypeOK, Procs, Label
<1>2. \A p \in {"logger", "health"} : p \in Inside <=> holder = p
  BY <1>1 DEF IInv, LockHeld, Inside
<1>3. Inside \subseteq {"logger", "health"}
  BY DEF Inside
<1> QED
  BY <1>1, <1>2, <1>3 DEF Nobody

(* The lock is taken when it is free, by one process, and given back by the  *)
(* one that holds it.                                                        *)
LEMMA HolderStep ==
    ASSUME IInv, [Next]_vars
    PROVE  \/ holder' = holder
           \/ \E p \in {"logger", "health"} :
                 \/ holder = Nobody /\ holder' = p
                 \/ holder = p /\ holder' = Nobody
<1>1. CASE Logger
  <2>1. LoggerPost => holder = "logger"
    BY DEF LoggerPost, IInv, LockHeld
  <2> QED
    BY <1>1, <2>1 DEF Logger, LoggerOpen, LoggerPoll, LoggerWait, LoggerRead, LoggerPost,
       Acquire, Release
<1>2. CASE Payment
  BY <1>2 DEF Payment
<1>3. CASE Health
  <2>1. HealthCheck \/ HealthApply => holder = "health"
    BY DEF HealthCheck, HealthApply, IInv, LockHeld
  <2> QED
    BY <1>3, <2>1 DEF Health, HealthPoll, HealthBatchDone, HealthTimer, HealthClient,
       HealthWait, HealthCheck, HealthApply, Acquire, Release
<1>4. CASE World
  BY <1>4 DEF World, FifoOpen, FifoWrite, FifoClose, Pay, PayClose, Tick, Command,
     CommandClose
<1>5. CASE UNCHANGED vars
  BY <1>5 DEF vars
<1> QED
  BY <1>1, <1>2, <1>3, <1>4, <1>5 DEF Next, Cpu

LEMMA StepRefines == IInv /\ [Next]_vars => [Section!Next]_Inside
<1> SUFFICES ASSUME IInv, [Next]_vars PROVE Section!Next \/ Inside' = Inside
    OBVIOUS
<1>1. IInv'
  BY NextInv
<1>2. Inside' = IF holder' = Nobody THEN {} ELSE {holder'}
  <2>1. (Inside = IF holder = Nobody THEN {} ELSE {holder})'
    BY <1>1, InsideIsHolder, PTL
  <2> QED
    BY <2>1
<1>3. Inside = IF holder = Nobody THEN {} ELSE {holder}
  BY InsideIsHolder
<1>4. ASSUME NEW p \in {"logger", "health"}, holder = Nobody, holder' = p
      PROVE  Section!Enter(p)
  BY <1>2, <1>3, <1>4 DEF Section!Enter, Nobody
<1>5. ASSUME NEW p \in {"logger", "health"}, holder = p, holder' = Nobody
      PROVE  Section!Leave(p)
  BY <1>2, <1>3, <1>5 DEF Section!Leave, Nobody
<1> QED
  BY <1>2, <1>3, <1>4, <1>5, HolderStep DEF Section!Next

(* logger and health implement one critical section: never both between      *)
(* pi_sem_wait and pi_sem_post, and entered and left by one at a time.       *)
THEOREM Implements == Spec => ImplementsSection
<1>1. Init => Section!Init
  <2> SUFFICES ASSUME Init PROVE Inside = {}
      BY DEF Section!Init
  <2> QED
    BY InitInv, InsideIsHolder DEF Init
<1> QED
  BY Invariant, StepRefines, <1>1, PTL DEF ImplementsSection, Section!Spec, Spec
=============================================================================
