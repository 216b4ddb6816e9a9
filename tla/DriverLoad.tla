----------------------------- MODULE DriverLoad -----------------------------
(***************************************************************************)
(* Loading and unloading the drivers of src/modules, with the calls the    *)
(* kernel makes into them meanwhile: a process that has the device open, a *)
(* use of the sysfs or debugfs files, the two halves of an interrupt       *)
(* handler, the timer's callback; and what gpio-sim-int.c and virt-int.c   *)
(* do in their handlers, one load or store at a time.                      *)
(*                                                                         *)
(* The kernel's part: a call comes as soon as what lets it in is there, so *)
(* also before the init function has returned; a device node is there from *)
(* device_create on; an open device refuses rmmod; device_remove_file,     *)
(* debugfs_remove_recursive, free_irq and hrtimer_cancel let no further    *)
(* call in and wait for those inside.  A closing device waits for nobody.  *)
(* A thread woken again before it has run runs once.  With an interrupt    *)
(* chip that masks the line until a oneshot thread ends (Masked) no        *)
(* interrupt comes meanwhile; gpio-sim does not mask.                      *)
(*                                                                         *)
(* gpio-sim-int.c's irq_time has 64 bits: two stores and two loads on      *)
(* RV32; times are numbered by the interrupts.  ledlevel and count of      *)
(* virt-int.c are plain variables: loads and stores of the interrupt and   *)
(* of a writer interleave, and gpiod_set_value may be given the register   *)
(* or the variable.                                                        *)
(***************************************************************************)
EXTENDS Integers, SequencesExt, DriverPlans

CONSTANTS
    CanFail,    \* the drivers whose acquisitions may fail
    MaxIrqs     \* bound: calls of the handler per load

ASSUME LoadAssumption == CanFail \subseteq Modules /\ MaxIrqs \in Nat

VARIABLES
    Masked,     \* TRUE: the line is masked while a oneshot thread is due
    made,       \* the lines setup-gpiosim.sh has made
    mod, pc,    \* the module, and where loading or unloading it is
    failed,     \* its probe returned an error
    todo,       \* what is yet to acquire or to release, in order
    held,       \* what is acquired
    lines,      \* virt-int.c: which of gpio_led and gpio_sw are not NULL
    active,     \* the calls in progress
    rest,       \* the steps each of them has to do
    pending,    \* "thread": it was woken; "callback": the timer is armed
    timeouts,   \* hrtimer.c's count
    level,      \* ledvalue, ledlevel
    count, led, \* the handler's count; the level of the LED line
    irq_time,   \* gpio-sim-int.c's, the two words
    reg,        \* what each call has loaded
    start,      \* level when the module was loaded (history)
    irqs, runs, \* interrupts; runs of the code that counts (history)
    overlap,    \* two of those ran at once (history)
    begun,      \* the interrupts whose hard handler had ended when the
    served      \* thread's run began: this run's, and the last's (history)

loadVars == <<Masked, made, mod, failed, todo, held, lines>>
callVars == <<active, rest, pending, timeouts>>
dataVars == <<level, count, irq_time, reg, start, irqs, runs, overlap, begun, served>>
vars     == <<loadVars, pc, callVars, led, dataVars>>

Calls == {"open", "store", "show", "hard", "thread", "callback"}
Handlers == {"hard", "thread", "store"}
Time  == (0 .. MaxIrqs) \X (0 .. MaxIrqs)

TypeOK == /\ Masked \in BOOLEAN /\ made \in {{}, {"sw"}, {"sw", "led"}}
          /\ mod \in Modules /\ pc \in {"out", "init", "undo", "in", "exit"}
          /\ failed \in BOOLEAN
          /\ todo \in Seq(Resources) /\ IsInjective(todo)
          /\ held \subseteq Resources /\ lines \subseteq {"led", "sw"}
          /\ active \subseteq Calls /\ rest \in [Calls -> Seq(Instructions)]
          /\ pending \subseteq {"thread", "callback"} /\ timeouts \in 0 .. 10
          /\ {level, led, start} \subseteq {0, 1} /\ irq_time \in Time
          /\ reg \in [Handlers -> Time]
          /\ {count, irqs, runs, begun, served} \subseteq 0 .. MaxIrqs
          /\ overlap \in BOOLEAN

(* The variables of a module that was just loaded. *)
Fresh(m, v) ==
    /\ failed' = FALSE /\ lines' = {} /\ timeouts' = 10
    /\ level' = v /\ start' = v /\ count' = 0
    /\ irq_time' = <<0, 0>> /\ reg' = [a \in Handlers |-> <<0, 0>>]
    /\ irqs' = 0 /\ runs' = 0 /\ overlap' = FALSE /\ begun' = 0 /\ served' = 0

Init == /\ Masked \in BOOLEAN /\ made = {}
        /\ mod = "hrtimer" /\ pc = "out" /\ failed = FALSE
        /\ todo = <<>> /\ held = {} /\ lines = {}
        /\ active = {} /\ rest = [a \in Calls |-> <<>>] /\ pending = {} /\ timeouts = 10
        /\ level = 0 /\ start = 0 /\ count = 0 /\ led = 0
        /\ irq_time = <<0, 0>> /\ reg = [a \in Handlers |-> <<0, 0>>]
        /\ irqs = 0 /\ runs = 0 /\ overlap = FALSE /\ begun = 0 /\ served = 0

-----------------------------------------------------------------------------
(* setup-gpiosim.sh takes down what an earlier call has made, *)
TearDown == /\ pc = "out" /\ made' = {} /\ led' = 0
            /\ UNCHANGED <<Masked, mod, failed, todo, held, lines, pc, callVars, dataVars>>

(* then makes the switch's line and the LED's.  Nobody calls it while a      *)
(* driver is loaded.                                                        *)
Setup == /\ pc = "out" /\ made' = IF made = {} THEN {"sw"} ELSE {"sw", "led"}
         /\ UNCHANGED <<Masked, mod, failed, todo, held, lines, pc, callVars, led, dataVars>>

(* ledvalue is a module parameter; ledlevel is 1. *)
Insmod(m, v) ==
    /\ pc = "out" /\ (m = "virt-int" => v = 1)
    /\ (m \notin {"virt-int", "gpio-sim-int", "gpio-sim-demo"} => v = 0)
    /\ mod' = m /\ pc' = "init" /\ todo' = Plan(m) /\ Fresh(m, v)
    /\ held' = {}
    /\ UNCHANGED <<Masked, made, active, rest, pending, led>>

(* GPIOD_OUT_LOW, then what gpio-sim's probes set before the interrupt. *)
LedAcquired(r) == CASE r = "led" -> led' = IF mod = "gpio-sim-demo" THEN level ELSE 0
                    [] r = "irq" /\ mod = "gpio-sim-int" -> led' = level
                    [] OTHER -> UNCHANGED led

Available(r) == /\ Needs(mod, r) \subseteq held
                /\ Optional(mod, r) /\ mod # "virt-int" => r \in made

Get(r) ==
    /\ Available(r)
    /\ held' = held \cup {r} /\ todo' = Tail(todo)
    /\ lines' = lines \cup ({r} \cap {"led", "sw"})
    /\ pending' = IF r = "timer" THEN {"callback"} ELSE pending
    /\ LedAcquired(r)
    /\ UNCHANGED <<pc, failed>>

GoWithout(r) ==
    /\ Optional(mod, r) \/ ~Available(r)
    /\ todo' = AfterMissing(mod, Tail(todo))
    /\ UNCHANGED <<pc, failed, held, lines, pending, led>>

(* gpio-sim's LED is set between the two calls that may fail.  *)
Fail(r) ==
    /\ mod \in CanFail /\ MayFail(mod, r) /\ Available(r)
    /\ todo' = Unwind(mod, r)
    /\ failed' = InProbe(mod, r) /\ pc' = IF failed' THEN "undo" ELSE "exit"
    /\ IF failed' /\ mod = "gpio-sim-int" THEN led' \in {led, level} ELSE UNCHANGED led
    /\ UNCHANGED <<held, lines, pending>>

Acquire == /\ pc = "init" /\ todo # <<>>
           /\ Get(Head(todo)) \/ GoWithout(Head(todo)) \/ Fail(Head(todo))
           /\ UNCHANGED <<Masked, made, mod, active, rest, timeouts, dataVars>>

Loaded == /\ pc = "init" /\ todo = <<>> /\ pc' = "in"
          /\ UNCHANGED <<loadVars, callVars, led, dataVars>>

Rmmod ==
    /\ pc = "in" /\ "open" \notin active /\ CanUnload(mod)
    /\ pc' = "exit" /\ todo' = ExitOrder(mod)
    /\ UNCHANGED <<Masked, made, mod, failed, held, lines, callVars, led, dataVars>>

(* EBUSY *)
RmmodRefused == pc = "in" /\ ("open" \in active \/ ~CanUnload(mod)) /\ UNCHANGED vars

(* The calls whose gate is closed, except of a device, are awaited. *)
Drained == /\ \A a \in active \ {"open"} : Gate(a) \in held
           /\ "thread" \in pending => "irq" \in held

(* Where no device is bound the remove function is not called: the lookup    *)
(* table of a failed probe stays.  Nothing happens for what was not acquired. *)
Kept == IF failed THEN {"table"} ELSE {}

Release ==
    /\ pc \in {"undo", "exit"} /\ todo # <<>> /\ Drained
    /\ held' = held \ ({Head(todo)} \ Kept) /\ todo' = Tail(todo)
    /\ pending' = IF Head(todo) = "timer" THEN {} ELSE pending
    /\ UNCHANGED <<Masked, made, mod, failed, lines, pc, active, rest, timeouts, led, dataVars>>

Released ==
    /\ pc \in {"undo", "exit"} /\ todo = <<>> /\ Drained
    /\ pc' = IF pc = "undo" THEN "in" ELSE "out"
    /\ UNCHANGED <<loadVars, callVars, led, dataVars>>

-----------------------------------------------------------------------------
(* Calls into the module. *)

Begin(a) == /\ a \notin active /\ active' = active \cup {a}
            /\ rest' = [rest EXCEPT ![a] = Body(mod, a)]

End(a) == /\ a \in active /\ rest[a] = <<>>
          /\ active' = active \ {a} /\ UNCHANGED rest

(* A module that is being unloaded cannot be opened. *)
Open == /\ pc # "exit" /\ "device" \in held /\ Begin("open")
        /\ UNCHANGED <<loadVars, pc, pending, timeouts, led, dataVars>>

Close == End("open") /\ UNCHANGED <<loadVars, pc, pending, timeouts, led, dataVars>>

(* trigger_store of sysfs.c calls the handler itself; nobody sees the       *)
(* IRQ_WAKE_THREAD it returns.                                              *)
Store == /\ mod = "sysfs"
         /\ \/ "file" \in held /\ Begin("store")
            \/ End("store")
         /\ UNCHANGED <<loadVars, pc, pending, timeouts, led, dataVars>>

(* One more run of virt-int.c's irq_sw. *)
IrqSw(a, other) == /\ runs < MaxIrqs /\ Begin(a)
                   /\ runs' = runs + 1 /\ overlap' = (overlap \/ other \in active)

(* trigger_write of virt-int.c calls irq_sw itself for a '1'; what is too   *)
(* long, cannot be copied or is not a '1' does nothing.                     *)
Trigger == /\ mod = "virt-int"
           /\ \/ "file" \in held /\ IrqSw("store", "hard")
              \/ End("store") /\ UNCHANGED <<runs, overlap>>
           /\ UNCHANGED <<loadVars, pc, pending, timeouts, led,
                          level, count, irq_time, reg, start, irqs, begun, served>>

(* count_read of virt-int.c *)
CountRead == /\ mod = "virt-int"
             /\ \/ "file" \in held /\ Begin("show")
                \/ End("show")
             /\ UNCHANGED <<loadVars, pc, pending, timeouts, led, dataVars>>

(* The line raises its interrupt; irqs is also what irqnet.c counts. *)
Hard == /\ "irq" \in held /\ irqs < MaxIrqs
        /\ mod = "gpio-sim-int" /\ Masked => "thread" \notin active \cup pending
        /\ irqs' = irqs + 1
        /\ IF mod = "virt-int" THEN IrqSw("hard", "store")
                               ELSE Begin("hard") /\ UNCHANGED <<runs, overlap>>
        /\ UNCHANGED <<loadVars, pc, pending, timeouts, led,
                       level, count, irq_time, reg, start, begun, served>>

HardEndsHandled ==              \* mutant: the second half is not asked for
    /\ End("hard") /\ UNCHANGED pending
    /\ UNCHANGED <<loadVars, pc, timeouts, led, dataVars>>

(* IRQ_WAKE_THREAD *)
HardEnds == /\ End("hard")
            /\ pending' = IF mod \in Threaded THEN pending \cup {"thread"} ELSE pending
            /\ UNCHANGED <<loadVars, pc, timeouts, led, dataVars>>

ThreadWaits ==                  \* mutant: the bottom half waits for the next interrupt
    /\ \/ /\ "thread" \in pending /\ Begin("thread") /\ pending' = pending \ {"thread"}
          /\ begun' = IF "hard" \in active THEN irqs - 1 ELSE irqs
          /\ runs' = runs + 1 /\ UNCHANGED served
       \/ /\ End("thread") /\ "thread" \in pending /\ UNCHANGED pending
          /\ served' = begun /\ UNCHANGED <<begun, runs>>
       \/ "thread" \in active \ pending /\ UNCHANGED <<callVars, begun, served, runs>>
    /\ UNCHANGED <<loadVars, pc, timeouts, led,
                   level, count, irq_time, reg, start, irqs, overlap>>

Thread ==
    /\ \/ /\ "thread" \in pending /\ Begin("thread") /\ pending' = pending \ {"thread"}
          /\ begun' = IF "hard" \in active THEN irqs - 1 ELSE irqs
          /\ runs' = runs + 1 /\ UNCHANGED served
       \/ /\ End("thread") /\ UNCHANGED pending
          /\ served' = begun /\ UNCHANGED <<begun, runs>>
    /\ UNCHANGED <<loadVars, pc, timeouts, led,
                   level, count, irq_time, reg, start, irqs, overlap>>

(* timer_timeout *)
Timeout == /\ "callback" \in pending /\ Begin("callback")
           /\ pending' = {} /\ timeouts' = timeouts - 1
           /\ UNCHANGED <<loadVars, pc, led, dataVars>>

(* HRTIMER_RESTART, which does nothing once the timer is being cancelled. *)
TimeoutEnds ==
    /\ End("callback")
    /\ pending' = IF timeouts > 0 /\ "timer" \in held THEN {"callback"} ELSE {}
    /\ UNCHANGED <<loadVars, pc, timeouts, led, dataVars>>

-----------------------------------------------------------------------------
(* The handlers' steps. *)

TimeStepIfNone(a, s) ==         \* mutant: a time not yet printed is not overwritten
    \/ s = "time lo" /\ UNCHANGED reg
       /\ irq_time' = IF "thread" \in pending THEN irq_time ELSE <<irqs, irq_time[2]>>
    \/ s = "time hi" /\ UNCHANGED reg
       /\ irq_time' = IF "thread" \in pending THEN irq_time ELSE <<irq_time[1], irqs>>
    \/ s = "load lo" /\ reg' = [reg EXCEPT ![a][1] = irq_time[1]] /\ UNCHANGED irq_time
    \/ s = "load hi" /\ reg' = [reg EXCEPT ![a][2] = irq_time[2]] /\ UNCHANGED irq_time

(* irq_sw_hard stores the time, irq_sw_thread loads it. *)
TimeStep(a, s) ==
    \/ s = "time lo" /\ irq_time' = <<irqs, irq_time[2]>> /\ UNCHANGED reg
    \/ s = "time hi" /\ irq_time' = <<irq_time[1], irqs>> /\ UNCHANGED reg
    \/ s = "load lo" /\ reg' = [reg EXCEPT ![a][1] = irq_time[1]] /\ UNCHANGED irq_time
    \/ s = "load hi" /\ reg' = [reg EXCEPT ![a][2] = irq_time[2]] /\ UNCHANGED irq_time

CountStepOld(a, s) ==           \* mutant: the value before the increment
    \/ s = "load count"  /\ reg' = [reg EXCEPT ![a][1] = count] /\ UNCHANGED count
    \/ s = "store count" /\ count' = reg[a][1] /\ UNCHANGED reg
    \/ s = "count"       /\ count' = count + 1 /\ UNCHANGED reg

CountStep(a, s) ==
    \/ s = "load count"  /\ reg' = [reg EXCEPT ![a][1] = count] /\ UNCHANGED count
    \/ s = "store count" /\ count' = reg[a][1] + 1 /\ UNCHANGED reg
    \/ s = "count"       /\ count' = count + 1 /\ UNCHANGED reg

LevelStep(a, s) ==
    \/ s = "load level"  /\ reg' = [reg EXCEPT ![a][1] = 1 - level] /\ UNCHANGED <<level, led>>
    \/ s = "store level" /\ level' = reg[a][1] /\ UNCHANGED <<reg, led>>
    \/ s = "flip"        /\ level' = 1 - level /\ UNCHANGED <<reg, led>>
    \/ s = "led" /\ mod = "gpio-sim-int" /\ led' = level /\ UNCHANGED <<reg, level>>
    \/ s = "led" /\ mod = "virt-int" /\ UNCHANGED <<reg, level>>
       /\ IF "led" \in lines THEN led' \in {reg[a][1], level} ELSE UNCHANGED led

Step(a) ==
    /\ rest[a] # <<>> /\ rest' = [rest EXCEPT ![a] = Tail(@)]
    /\ \/ TimeStep(a, Head(rest[a])) /\ UNCHANGED <<count, level, led>>
       \/ CountStep(a, Head(rest[a])) /\ UNCHANGED <<irq_time, level, led>>
       \/ LevelStep(a, Head(rest[a])) /\ UNCHANGED <<irq_time, count>>
    /\ UNCHANGED <<loadVars, pc, active, pending, timeouts, start, irqs, runs, overlap, begun, served>>

-----------------------------------------------------------------------------
Loader == Acquire \/ Loaded \/ Release \/ Released

Next == \/ TearDown \/ Setup
        \/ \E m \in Modules, v \in {0, 1} : Insmod(m, v)
        \/ Loader \/ Rmmod \/ RmmodRefused
        \/ Open \/ Close \/ Store \/ Trigger \/ CountRead
        \/ Hard \/ HardEnds \/ Thread \/ Timeout \/ TimeoutEnds
        \/ \E a \in Handlers : Step(a)

(* insmod and rmmod run on, calls end, a woken thread and an armed timer run. *)
Fairness == /\ WF_vars(Loader)
            /\ WF_vars((Store \/ Trigger) /\ "store" \in active)
            /\ WF_vars(CountRead /\ "show" \in active) /\ WF_vars(HardEnds)
            /\ WF_vars(Thread) /\ WF_vars(Timeout) /\ WF_vars(TimeoutEnds)
            /\ \A a \in Handlers : WF_vars(Step(a))

Spec == Init /\ [][Next]_vars /\ Fairness

-----------------------------------------------------------------------------
(* A call in progress finds in place what it uses, though calls come while   *)
(* the init function is still running, or failing, and while the exit        *)
(* function is: what lets calls in is acquired last and released first.      *)
CallsFindTheirs == \A a \in active : pc # "out" /\ Uses(mod, a, lines) \subseteq held

(* A failed insmod, or an rmmod, leaves nothing acquired and nothing to run; *)
(* only the lookup table of a gpio-sim probe that failed stays in the        *)
(* kernel's list.                                                           *)
NothingLeft == pc = "out" => /\ active = {} /\ pending = {}
                             /\ held \subseteq Kept

(* rmmod, or a failing insmod, ends, whatever was being called. *)
UnloadEnds == pc = "exit" ~> pc = "out"

(* Every interrupt of a handler with two halves is followed by a run of the  *)
(* thread that began after it, though the thread is woken once for several,  *)
(* and the module may go.                                                    *)
EveryIrqServed == \A k \in 1 .. MaxIrqs : mod \in Threaded /\ irqs = k ~> served >= k

(* Neither word of the time irq_sw_thread prints is older than the last      *)
(* interrupt whose hard handler had ended when the thread began, so that     *)
(* both are of that one if none has come since.  Where the line is masked    *)
(* none can have; where it is not the words may be of two interrupts.        *)
StampNotStale ==
    mod = "gpio-sim-int" /\ "thread" \in active /\ Len(rest["thread"]) <= 3 =>
        /\ \A w \in {1, 2} : reg["thread"][w] \in begun .. irqs
        /\ Masked => begun = irqs

(* Between the runs of the handler's code that counts, each run is counted,  *)
(* has flipped the level, and the LED shows it.  Where irq_sw ran for the     *)
(* interrupt and for a writer at once, counts are lost, but never all, and   *)
(* none is added.                                                           *)
RunsCounted ==
    mod \in {"gpio-sim-int", "virt-int"} /\ (\A a \in Calls : rest[a] = <<>>) =>
        /\ count <= runs /\ (runs > 0 => count > 0)
        /\ ~overlap => /\ count = runs /\ level = (start + runs) % 2
                       /\ "led" \in held /\ runs > 0 => led = level
        /\ mod = "gpio-sim-int" /\ "irq" \in held => led = level
=============================================================================
