-------------------------- MODULE DriverLoadProofs --------------------------
(***************************************************************************)
(* Proofs about DriverLoad, for any drivers whose acquisitions may fail    *)
(* and any number of interrupts: a call in progress finds what it uses,    *)
(* nothing is left when a driver is gone, the thread of gpio-sim-int.c     *)
(* reads the time of its own interrupt where the line is masked, and runs  *)
(* are counted.                                                            *)
(***************************************************************************)
EXTENDS DriverLoad, SequenceTheorems, TLAPS

(* What loading and unloading keep. *)

LoadTypes == /\ mod \in Modules /\ pc \in {"out", "init", "undo", "in", "exit"}
             /\ failed \in BOOLEAN
             /\ todo \in Seq(Resources) /\ held \subseteq Resources /\ lines \subseteq {"led", "sw"}
             /\ active \subseteq Calls /\ pending \subseteq {"thread", "callback"}

(* While a driver is being loaded, what is held is among the first resources *)
(* of its plan and what is to do is the rest; it is all of the first ones,   *)
(* except for virt-int.c, which does without.                                *)
PlanAt(k) == /\ Len(todo) = Len(Plan(mod)) - k
             /\ \A i \in 1 .. Len(todo) : todo[i] = Plan(mod)[i + k]
             /\ \A x \in held : \E i \in 1 .. k : Plan(mod)[i] = x
             /\ mod # "virt-int" => \A i \in 1 .. k : Plan(mod)[i] \in held

Loading == /\ held \subseteq ToSet(Plan(mod))
           /\ held \cap {"led", "sw"} \subseteq lines
           /\ pc = "init" /\ mod = "virt-int" => lines \subseteq held
           /\ pc = "init" /\ todo # <<>> => \E k \in 0 .. Len(Plan(mod)) - 1 : PlanAt(k)

(* While it is unloaded, or a probe has failed, what lets a call in goes     *)
(* before what the call uses.                                                *)
Unloading ==
    /\ pc \in {"undo", "exit"} =>
          \A a \in Calls, j \in DOMAIN todo :
              Gate(a) \in held /\ todo[j] \in Uses(mod, a, lines) =>
                  \E i \in DOMAIN todo : i < j /\ todo[i] = Gate(a)
    /\ pc = "exit" => held \subseteq ToSet(todo) \cup Kept
    /\ pc = "undo" => "device" \notin held

(* The calls in progress, and those that will come without a gate. *)
Running == active \cup pending \cup (IF "hard" \in active THEN {"thread"} ELSE {})

Called == /\ \A a \in Calls : Gate(a) \in held => Uses(mod, a, lines) \subseteq held
          /\ \A a \in Running : pc # "out" /\ Uses(mod, a, lines) \subseteq held
          /\ "open" \in active => "device" \in held /\ pc \in {"init", "in"}
          /\ "callback" \in pending => "timer" \in held
          /\ pc = "out" => held \subseteq Kept

LInv == LoadTypes /\ Loading /\ Unloading /\ Called
-----------------------------------------------------------------------------
(* What the handlers keep. *)

(* What is left of a handler's steps: the last ones. *)
Ending(s, t) == /\ s \in Seq(Instructions) /\ Len(s) <= Len(t)
                /\ \A i \in 1 .. Len(s) : s[i] = t[i + (Len(t) - Len(s))]

left(a) == Len(rest[a])

HandlerTypes == /\ Masked \in BOOLEAN /\ made \in {{}, {"sw"}, {"sw", "led"}}
                /\ IsInjective(todo)
                /\ rest \in [Calls -> Seq(Instructions)]
                /\ {level, led, start} \subseteq {0, 1}
                /\ irq_time \in Time /\ reg \in [Handlers -> Time]
                /\ {count, irqs, runs, begun, served} \subseteq 0 .. MaxIrqs
                /\ overlap \in BOOLEAN /\ timeouts \in 0 .. 10

Steps == \A a \in Calls : IF a \in active THEN Ending(rest[a], Body(mod, a)) ELSE rest[a] = <<>>

(* The interrupts before the runs of the thread; the timer.  No handler has  *)
(* run before the LED's line is there.                                       *)
Woken == /\ mod \in Threaded =>
              runs + (IF "hard" \in active THEN 1 ELSE 0) + (IF "thread" \in pending THEN 1 ELSE 0)
                  <= irqs
         /\ "hard" \in active => irqs > 0
         /\ "thread" \in active \cup pending => mod \in Threaded
         /\ "thread" \in active => runs > 0
         /\ "callback" \in pending => timeouts > 0
         /\ pc = "init" /\ "timer" \in ToSet(todo) => timeouts = 10
         /\ pc = "init" /\ "led" \in ToSet(todo) =>
                /\ runs = 0 /\ irqs = 0 /\ active = {} /\ pending = {}

(* The last interrupt whose hard handler has ended. *)
LastIrq == IF "hard" \in active THEN irqs - 1 ELSE irqs

(* gpio-sim-int.c: the words of irq_time are of the last interrupts, those   *)
(* the thread has loaded of none before its run.  Where the line is masked   *)
(* the two halves alternate.                                                 *)
Stamped ==
    mod = "gpio-sim-int" =>
        /\ irq_time[1] = IF left("hard") = 2 THEN irqs - 1 ELSE irqs
        /\ irq_time[2] = IF left("hard") \in {1, 2} THEN irqs - 1 ELSE irqs
        /\ begun <= LastIrq
        /\ "thread" \in active =>
              /\ left("thread") <= 4 => reg["thread"][1] \in begun .. irqs
              /\ left("thread") <= 3 => reg["thread"][2] \in begun .. irqs
        /\ Masked => /\ "hard" \in active => "thread" \notin active \cup pending
                     /\ "thread" \in active => begun = irqs

Parity(n) == (start + n) % 2

(* gpio-sim-int.c: one thread at a time counts. *)
ThreadCounts ==
    mod = "gpio-sim-int" =>
        LET past == IF left("thread") > 0 THEN runs - 1 ELSE runs IN
        /\ count = IF left("thread") \in {1, 2} THEN runs ELSE past
        /\ level = Parity(IF left("thread") = 1 THEN runs ELSE past)
        /\ pc # "out" /\ (irqs > 0 \/ "irq" \in held) /\ left("thread") # 1 => led = level

(* virt-int.c: irq_sw may run twice at once. *)
Mid(a) == IF left(a) > 0 THEN 1 ELSE 0
Past == runs - Mid("hard") - Mid("store")

SwCounts ==
    mod = "virt-int" =>
        /\ Past >= 0 /\ count <= Past /\ (Past > 0 => count > 0)
        /\ \A a \in {"hard", "store"} :
              /\ left(a) \in {3, 4} => reg[a][1] \in {0, 1}
              /\ left(a) = 1 => reg[a][1] <= Past

Alone ==
    mod = "virt-int" /\ ~overlap =>
        /\ ~({"hard", "store"} \subseteq active)
        /\ count = Past
        /\ left("hard") = 0 /\ left("store") = 0 =>
              /\ level = Parity(runs)
              /\ pc # "out" /\ "led" \in lines /\ runs > 0 => led = level
        /\ \A a \in {"hard", "store"} : left(a) > 0 =>
              /\ left(a) >= 4 => level = Parity(Past)
              /\ left(a) \in {3, 4} => reg[a][1] = Parity(runs)
              /\ left(a) <= 3 => level = Parity(runs)
              /\ left(a) <= 2 /\ "led" \in lines => led = level
              /\ left(a) = 1 => reg[a][1] = count

HInv == HandlerTypes /\ Steps /\ Woken /\ Stamped /\ ThreadCounts /\ SwCounts /\ Alone

IInv == LInv /\ HInv
-----------------------------------------------------------------------------
(* The order in which the drivers acquire and release. *)

LEMMA TailParts ==
    ASSUME NEW S, NEW s \in Seq(S), s # <<>>
    PROVE  /\ Tail(s) \in Seq(S) /\ Len(Tail(s)) = Len(s) - 1 /\ Len(s) \in Nat \ {0}
           /\ DOMAIN s = 1 .. Len(s) /\ DOMAIN Tail(s) = 1 .. Len(s) - 1
           /\ Head(s) = s[1] /\ Head(s) \in S /\ 1 \in DOMAIN s
           /\ \A i \in DOMAIN Tail(s) : i + 1 \in DOMAIN s /\ Tail(s)[i] = s[i + 1]
<1>1. /\ Tail(s) \in Seq(S) /\ Len(Tail(s)) = Len(s) - 1 /\ Head(s) = s[1] /\ Head(s) \in S
      /\ \A i \in 1 .. Len(Tail(s)) : Tail(s)[i] = s[i + 1]
  BY HeadTailProperties
<1>2. DOMAIN Tail(s) = 1 .. Len(Tail(s)) /\ DOMAIN s = 1 .. Len(s) /\ Len(s) \in Nat \ {0}
  BY <1>1, LenProperties, EmptySeq
<1> QED
  BY <1>1, <1>2

LEMMA PlanParts ==
    ASSUME NEW m \in Modules
    PROVE  /\ Plan(m) \in Seq(Resources) /\ Len(Plan(m)) \in Nat
           /\ DOMAIN Plan(m) = 1 .. Len(Plan(m)) /\ IsInjective(Plan(m))
<1>1. Plan(m) \in Seq(Resources)
  <2>1. CASE m = "chardev"
    BY <2>1 DEF Plan, ChardevInit, Resources
  <2>2. CASE m = "mychardev"
    BY <2>2 DEF Plan, Resources
  <2>3. CASE m = "sysfs"
    BY <2>3 DEF Plan, Resources
  <2>4. CASE m = "irqnet" \/ m = "vint_net"
    <3>1. Plan(m) = <<"irq">>
      BY <2>4 DEF Plan
    <3> QED
      BY <3>1 DEF Resources
  <2>5. CASE m = "hrtimer"
    BY <2>5 DEF Plan, Resources
  <2>6. CASE m = "gpio-sim-demo"
    BY <2>6 DEF Plan, Resources
  <2>7. CASE m = "gpio-sim-int"
    BY <2>7 DEF Plan, Resources
  <2>8. CASE m = "virt-int"
    BY <2>8 DEF Plan, Resources
  <2> QED
    BY <2>1, <2>2, <2>3, <2>4, <2>5, <2>6, <2>7, <2>8 DEF Modules
<1>2. IsInjective(Plan(m))
  BY DEF Modules, Plan, ChardevInit, IsInjective
<1> QED
  BY <1>1, <1>2, LenProperties

(* Which calls use something, and what. *)
LEMMA UsesParts ==
    ASSUME NEW m \in Modules, NEW a \in Calls, NEW ls, NEW x \in Uses(m, a, ls)
    PROVE  \/ /\ m = "virt-int" /\ a \in {"store", "hard"} /\ Gate(a) \in {"file", "irq"}
              /\ x = "led" /\ x \in ls
           \/ m = "gpio-sim-int" /\ Gate(a) = "irq" /\ x \in {"sw", "led"}
           \/ m = "chardev" /\ Gate(a) = "device" /\ x \in {"page", "region", "cdev"}
           \/ m = "mychardev" /\ Gate(a) = "device" /\ x \in {"region", "cdev"}
           \/ m = "sysfs" /\ Gate(a) = "file" /\ x = "root"
BY DEF Calls, Gate, Uses

(* What a call uses is acquired before what lets it in. *)
LEMMA UsedFirst ==
    ASSUME NEW m \in Modules, m # "virt-int", NEW a \in Calls, NEW ls,
           NEW i \in DOMAIN Plan(m), Plan(m)[i] = Gate(a), NEW x \in Uses(m, a, ls)
    PROVE  \E j \in DOMAIN Plan(m) : j < i /\ Plan(m)[j] = x
<1>1. CASE m = "gpio-sim-int" /\ Gate(a) = "irq" /\ x \in {"sw", "led"}
  BY <1>1 DEF Plan
<1>2. CASE m = "chardev" /\ Gate(a) = "device" /\ x \in {"page", "region", "cdev"}
  BY <1>2 DEF Plan, ChardevInit
<1>3. CASE m = "mychardev" /\ Gate(a) = "device" /\ x \in {"region", "cdev"}
  BY <1>3 DEF Plan
<1>4. CASE m = "sysfs" /\ Gate(a) = "file" /\ x = "root"
  BY <1>4 DEF Plan
<1> QED
  BY <1>1, <1>2, <1>3, <1>4, UsesParts

(* The LED's line is there before a handler can run. *)
LEMMA LedFirst ==
    ASSUME NEW m \in Modules, NEW i \in DOMAIN Plan(m), NEW j \in DOMAIN Plan(m),
           Plan(m)[i] = "led", Plan(m)[j] \in {"irq", "file", "timer", "device"}
    PROVE  i < j
BY DEF Modules, Plan, ChardevInit

(* What lets in a call that uses something is not yet there when something   *)
(* cannot be had.                                                            *)
LEMMA NoGateYet ==
    ASSUME NEW m \in Modules, NEW i \in DOMAIN Plan(m), MayFail(m, Plan(m)[i]),
           NEW j \in DOMAIN Plan(m), j < i
    PROVE  /\ Plan(m)[j] # "device"
           /\ \A a \in Calls : \A ls : Uses(m, a, ls) # {} => Plan(m)[j] # Gate(a)
<1> DEFINE g == Plan(m)[j]
<1>1. g # "device"
  BY DEF Modules, Plan, ChardevInit
<1>2. m = "virt-int" => g \notin {"file", "irq"}
  BY DEF Plan, MayFail, Optional
<1>3. m = "gpio-sim-int" => g # "irq"
  BY DEF Plan
<1>4. m = "sysfs" => g # "file"
  BY DEF Plan
<1> HIDE DEF g
<1>5. ASSUME NEW a \in Calls, NEW ls, Uses(m, a, ls) # {} PROVE g # Gate(a)
  <2>1. PICK x \in Uses(m, a, ls) : TRUE
    BY <1>5
  <2> QED
    BY <1>1, <1>2, <1>3, <1>4, <2>1, UsesParts
<1> QED
  BY <1>1, <1>5 DEF g

LEMMA UnwindTypes ==
    ASSUME NEW m, NEW r
    PROVE  Unwind(m, r) \in Seq(Resources) /\ IsInjective(Unwind(m, r))
<1> DEFINE Good(s) == s \in Seq(Resources) /\ IsInjective(s)
<1>1. Good(<<>>)
  BY EmptySeq DEF IsInjective
<1>2. Good(<<"page">>) /\ Good(<<"irq">>) /\ Good(<<"pdev">>)
  BY DEF Resources, IsInjective
<1>3. Good(<<"region", "page">>) /\ Good(<<"root", "irq">>)
  BY DEF Resources, IsInjective
<1>4. Good(<<"led", "sw">>) /\ Good(<<"sw", "led">>)
  BY DEF Resources, IsInjective
<1>5. Good(<<"cdev", "region", "page">>)
  BY DEF Resources, IsInjective
<1>6. Good(<<"class", "cdev", "region", "page">>)
  BY DEF Resources, IsInjective
<1> HIDE DEF Good
<1>7. Good(ChardevUnwind(r))
  BY <1>1, <1>2, <1>3, <1>5, <1>6 DEF ChardevUnwind
<1>8. Good(Unwind(m, r))
  BY <1>1, <1>2, <1>3, <1>4, <1>7 DEF Unwind
<1> QED
  BY <1>8 DEF Good

(* What had been acquired is undone, unless the probe failed. *)
LEMMA UnwindAll ==
    ASSUME NEW m \in Modules, NEW i \in DOMAIN Plan(m), MayFail(m, Plan(m)[i]),
           ~InProbe(m, Plan(m)[i]), NEW j \in DOMAIN Plan(m), j < i
    PROVE  Plan(m)[j] \in ToSet(Unwind(m, Plan(m)[i]))
<1>1. CASE m = "chardev"
  <2>1. Plan(m) = <<"page", "region", "cdev", "class", "device">> /\ i \in 1 .. 5
    BY <1>1 DEF Plan, ChardevInit
  <2>2. Unwind(m, Plan(m)[i]) = ChardevUnwind(Plan(m)[i])
    BY <1>1 DEF Unwind
  <2>3. /\ ToSet(<<"page">>) = {"page"} /\ ToSet(<<"region", "page">>) = {"region", "page"}
        /\ ToSet(<<"cdev", "region", "page">>) = {"cdev", "region", "page"}
        /\ ToSet(<<"class", "cdev", "region", "page">>) = {"class", "cdev", "region", "page"}
    BY DEF ToSet
  <2>4. CASE i = 2
    BY <2>1, <2>2, <2>3, <2>4 DEF ChardevUnwind
  <2>5. CASE i = 3
    BY <2>1, <2>2, <2>3, <2>5 DEF ChardevUnwind
  <2>6. CASE i = 4
    BY <2>1, <2>2, <2>3, <2>6 DEF ChardevUnwind
  <2>7. CASE i = 5
    BY <2>1, <2>2, <2>3, <2>7 DEF ChardevUnwind
  <2> QED
    BY <2>1, <2>4, <2>5, <2>6, <2>7
<1>2. CASE m = "mychardev" \/ m = "hrtimer"
  BY <1>2 DEF MayFail
<1>3. CASE m = "sysfs"
  <2>1. Plan(m) = <<"irq", "root", "file">>
    BY <1>3 DEF Plan
  <2>2. Unwind(m, "root") = <<"irq">> /\ Unwind(m, "file") = <<"root", "irq">>
    BY <1>3 DEF Unwind
  <2>3. ToSet(<<"irq">>) = {"irq"} /\ ToSet(<<"root", "irq">>) = {"root", "irq"}
    BY DEF ToSet
  <2> QED
    BY <2>1, <2>2, <2>3
<1>4. CASE m = "irqnet" \/ m = "vint_net"
  <2>1. Plan(m) = <<"irq">>
    BY <1>4 DEF Plan
  <2> QED
    BY <2>1
<1>5. CASE m = "gpio-sim-demo" \/ m = "gpio-sim-int"
  <2>1. Plan(m)[1] = "pdev" /\ Plan(m)[2] = "driver" /\ Plan(m)[i] \in {"pdev", "driver"} /\ i \in {1, 2}
    <3>1. /\ Plan(m)[i] \notin {"table", "sw", "led"}
          /\ ~(m = "gpio-sim-int" /\ Plan(m)[i] = "irq")
      BY <1>5 DEF MayFail, Optional, InProbe
    <3>2. CASE m = "gpio-sim-demo"
      <4>1. Plan(m) = <<"pdev", "driver", "table", "sw", "led">>
        BY <3>2 DEF Plan
      <4> QED
        BY <3>1, <4>1
    <3>3. CASE m = "gpio-sim-int"
      <4>1. Plan(m) = <<"pdev", "driver", "table", "sw", "led", "irq">>
        BY <3>3 DEF Plan
      <4> QED
        BY <3>1, <3>3, <4>1
    <3> QED
      BY <1>5, <3>2, <3>3
  <2>2. Unwind(m, "driver") = <<"pdev">>
    BY <1>5 DEF Unwind
  <2>3. ToSet(<<"pdev">>) = {"pdev"}
    BY DEF ToSet
  <2>4. DOMAIN Plan(m) \subseteq Nat \ {0}
    BY PlanParts
  <2> QED
    BY <2>1, <2>2, <2>3, <2>4
<1>6. CASE m = "virt-int"
  BY <1>6 DEF Plan, MayFail, Optional, InProbe
<1> QED
  BY <1>1, <1>2, <1>3, <1>4, <1>5, <1>6 DEF Modules

LEMMA ExitTypes ==
    ASSUME NEW m
    PROVE  ExitOrder(m) \in Seq(Resources) /\ IsInjective(ExitOrder(m))
<1> DEFINE Good(s) == s \in Seq(Resources) /\ IsInjective(s)
<1>1. Good(<<"device", "class", "cdev", "region", "page">>)
  BY DEF Resources, IsInjective
<1>2. Good(<<"device", "class", "cdev", "region">>)
  BY DEF Resources, IsInjective
<1>3. Good(<<"file", "root", "irq">>)
  BY DEF Resources, IsInjective
<1>4. Good(<<"irq">>) /\ Good(<<"timer">>)
  BY DEF Resources, IsInjective
<1>5. Good(VirtIntExit)
  BY DEF VirtIntExit, Resources, IsInjective
<1>6. Good(GpioSimExit)
  BY DEF GpioSimExit, Resources, IsInjective
<1> HIDE DEF Good
<1>7. Good(ExitOrder(m))
  BY <1>1, <1>2, <1>3, <1>4, <1>5, <1>6 DEF ExitOrder
<1> QED
  BY <1>7 DEF Good

(* All that was acquired is released. *)
LEMMA ExitAll ==
    ASSUME NEW m \in Modules, NEW i \in DOMAIN Plan(m)
    PROVE  Plan(m)[i] \in ToSet(ExitOrder(m))
<1>1. CASE m = "chardev"
  BY <1>1 DEF Plan, ChardevInit, ExitOrder, ToSet
<1>2. CASE m = "mychardev"
  BY <1>2 DEF Plan, ExitOrder, ToSet
<1>3. CASE m = "sysfs"
  BY <1>3 DEF Plan, ExitOrder, ToSet
<1>4. CASE m = "irqnet"
  BY <1>4 DEF Plan, ExitOrder, ToSet
<1>5. CASE m = "hrtimer"
  BY <1>5 DEF Plan, ExitOrder, ToSet
<1>6. CASE m = "virt-int"
  BY <1>6 DEF Plan, ExitOrder, VirtIntExit, ToSet
<1>7. CASE m = "vint_net"
  BY <1>7 DEF Plan, ExitOrder, GpioSimExit, ToSet
<1>8. CASE m = "gpio-sim-demo"
  BY <1>8 DEF Plan, ExitOrder, GpioSimExit, ToSet
<1>9. CASE m = "gpio-sim-int"
  BY <1>9 DEF Plan, ExitOrder, GpioSimExit, ToSet
<1> QED
  BY <1>1, <1>2, <1>3, <1>4, <1>5, <1>6, <1>7, <1>8, <1>9 DEF Modules

(* What lets a call in is released before what it uses. *)
LEMMA UsedLast ==
    ASSUME NEW m \in Modules, NEW a \in Calls, NEW ls,
           NEW j \in DOMAIN ExitOrder(m), ExitOrder(m)[j] \in Uses(m, a, ls)
    PROVE  \E i \in DOMAIN ExitOrder(m) : i < j /\ ExitOrder(m)[i] = Gate(a)
<1> DEFINE x == ExitOrder(m)[j]
<1>1. CASE m = "virt-int" /\ Gate(a) \in {"file", "irq"} /\ x = "led"
  BY <1>1 DEF ExitOrder, VirtIntExit
<1>2. CASE m = "gpio-sim-int" /\ Gate(a) = "irq" /\ x \in {"sw", "led"}
  BY <1>2 DEF ExitOrder, GpioSimExit
<1>3. CASE m = "chardev" /\ Gate(a) = "device" /\ x \in {"page", "region", "cdev"}
  BY <1>3 DEF ExitOrder
<1>4. CASE m = "mychardev" /\ Gate(a) = "device" /\ x \in {"region", "cdev"}
  BY <1>4 DEF ExitOrder
<1>5. CASE m = "sysfs" /\ Gate(a) = "file" /\ x = "root"
  BY <1>5 DEF ExitOrder
<1> QED
  BY <1>1, <1>2, <1>3, <1>4, <1>5, UsesParts
-----------------------------------------------------------------------------
(* Loading and unloading. *)

LEMMA GateTypes ==
    /\ \A a \in Calls : Gate(a) \in {"device", "file", "irq", "timer"}
    /\ Gate("open") = "device" /\ Gate("thread") = "irq" /\ Gate("hard") = "irq"
    /\ Gate("callback") = "timer" /\ Gate("store") = "file" /\ Gate("show") = "file"
    /\ \A m, ls : Uses(m, "callback", ls) = {}
BY DEF Calls, Gate, Uses

LEMMA RunningTypes == LoadTypes => Running \subseteq Calls
BY DEF LoadTypes, Running, Calls

(* A step of a call: what is new in it comes through a gate that is open. *)
LEMMA LoadKept ==
    ASSUME LInv, UNCHANGED <<mod, pc, failed, todo, held, lines>>,
           active' \subseteq Calls, pending' \subseteq {"thread", "callback"},
           \A a \in Running' : a \in Running \/ Gate(a) \in held,
           "open" \in active' => "open" \in active \/ ("device" \in held /\ pc \in {"init", "in"}),
           "callback" \in pending' => "timer" \in held
    PROVE  LInv'
<1>1. LoadTypes /\ Loading /\ Unloading /\ Called
  BY DEF LInv
<1>2. LoadTypes'
  BY <1>1 DEF LoadTypes
<1>3. Loading' /\ Unloading'
  BY <1>1 DEF Loading, Unloading, PlanAt, Kept
<1>4. ASSUME NEW a \in Running' PROVE pc # "out" /\ Uses(mod, a, lines) \subseteq held
  <2>1. CASE a \in Running
    BY <1>1, <2>1 DEF Called
  <2>2. CASE Gate(a) \in held
    <3>1. a \in Calls
      BY <1>2, RunningTypes DEF LoadTypes, Running, Calls
    <3> QED
      BY <1>1, <2>2, <3>1, GateTypes DEF Called, Kept
  <2> QED
    BY <1>4, <2>1, <2>2
<1>5. Called'
  BY <1>1, <1>4 DEF Called, Kept
<1> QED
  BY <1>2, <1>3, <1>5 DEF LInv

LEMMA LoadInit == Init => LInv
<1> SUFFICES ASSUME Init PROVE LInv
  OBVIOUS
<1>1. /\ mod = "hrtimer" /\ pc = "out" /\ failed = FALSE /\ todo = <<>> /\ held = {} /\ lines = {}
      /\ active = {} /\ pending = {} /\ Running = {}
  BY DEF Init, Running
<1>2. LoadTypes
  BY <1>1, EmptySeq DEF LoadTypes, Modules
<1> QED
  BY <1>1, <1>2 DEF LInv, Loading, Unloading, Called

LEMMA LoadInsmod ==
    ASSUME LInv, NEW m \in Modules, NEW v \in {0, 1}, Insmod(m, v)
    PROVE  LInv'
<1>1. LoadTypes /\ Called
  BY DEF LInv
<1>2. /\ mod' = m /\ pc = "out" /\ pc' = "init" /\ todo' = Plan(m) /\ held' = {} /\ lines' = {}
      /\ failed' = FALSE /\ active' = active /\ pending' = pending
  BY DEF Insmod, Fresh
<1>3. Running' = Running /\ Running = {}
  BY <1>1, <1>2 DEF Called, Running
<1>4. /\ Plan(m) \in Seq(Resources) /\ Len(Plan(m)) \in Nat
      /\ DOMAIN Plan(m) = 1 .. Len(Plan(m))
  BY PlanParts
<1>5. LoadTypes'
  BY <1>1, <1>2, <1>4 DEF LoadTypes
<1>6. Loading'
  <2>1. todo' # <<>> => 0 \in 0 .. Len(Plan(mod')) - 1
    BY <1>2, <1>4, EmptySeq
  <2>2. PlanAt(0)'
    BY <1>2, <1>4 DEF PlanAt
  <2> QED
    BY <1>2, <2>1, <2>2 DEF Loading
<1>7. Unloading' /\ Called'
  BY <1>2, <1>3 DEF Unloading, Called, Running
<1> QED
  BY <1>5, <1>6, <1>7 DEF LInv

(* Where the plan is while something is acquired. *)
LEMMA AtHead ==
    ASSUME LInv, pc = "init", todo # <<>>
    PROVE  \E k \in Nat :
              /\ k + 1 \in DOMAIN Plan(mod) /\ Head(todo) = Plan(mod)[k + 1]
              /\ Tail(todo) \in Seq(Resources) /\ Head(todo) \in Resources
              /\ \A x \in held : \E i \in DOMAIN Plan(mod) : i < k + 1 /\ Plan(mod)[i] = x
              /\ mod # "virt-int" => \A i \in DOMAIN Plan(mod) : i < k + 1 => Plan(mod)[i] \in held
              /\ Len(Tail(todo)) = Len(Plan(mod)) - (k + 1)
              /\ \A i \in 1 .. Len(Tail(todo)) : Tail(todo)[i] = Plan(mod)[i + (k + 1)]
<1>1. LoadTypes /\ Loading
  BY DEF LInv
<1>2. PICK k \in 0 .. Len(Plan(mod)) - 1 : PlanAt(k)
  BY <1>1 DEF Loading
<1>3. Len(Plan(mod)) \in Nat /\ DOMAIN Plan(mod) = 1 .. Len(Plan(mod)) /\ todo \in Seq(Resources)
  BY <1>1, PlanParts DEF LoadTypes
<1>4. /\ Tail(todo) \in Seq(Resources) /\ Len(Tail(todo)) = Len(todo) - 1 /\ Len(todo) \in Nat \ {0}
      /\ DOMAIN todo = 1 .. Len(todo) /\ DOMAIN Tail(todo) = 1 .. Len(todo) - 1
      /\ Head(todo) = todo[1] /\ Head(todo) \in Resources
      /\ \A i \in DOMAIN Tail(todo) : i + 1 \in DOMAIN todo /\ Tail(todo)[i] = todo[i + 1]
  BY <1>3, TailParts
<1>5. /\ Len(todo) = Len(Plan(mod)) - k
      /\ \A i \in 1 .. Len(todo) : todo[i] = Plan(mod)[i + k]
      /\ \A x \in held : \E i \in 1 .. k : Plan(mod)[i] = x
      /\ mod # "virt-int" => \A i \in 1 .. k : Plan(mod)[i] \in held
  BY <1>2 DEF PlanAt
<1>6. k \in Nat /\ k + 1 \in DOMAIN Plan(mod) /\ \A i \in DOMAIN Plan(mod) : i < k + 1 <=> i \in 1 .. k
  BY <1>3
<1>7. Head(todo) = Plan(mod)[k + 1]
  <2>1. todo[1] = Plan(mod)[1 + k] /\ 1 + k = k + 1
    BY <1>4, <1>5, <1>6
  <2>2. Head(todo) = todo[1]
    BY <1>4
  <2> QED
    BY <2>1, <2>2
<1>8. Len(Tail(todo)) = Len(Plan(mod)) - (k + 1)
  <2>1. Len(Tail(todo)) = Len(todo) - 1
    BY <1>4
  <2>2. Len(todo) = Len(Plan(mod)) - k /\ Len(Plan(mod)) \in Nat
    BY <1>3, <1>5
  <2> QED
    BY <1>6, <2>1, <2>2
<1>9. ASSUME NEW i \in 1 .. Len(Tail(todo)) PROVE Tail(todo)[i] = Plan(mod)[i + (k + 1)]
  <2>1. i + 1 \in 1 .. Len(todo) /\ Tail(todo)[i] = todo[i + 1] /\ i + 1 + k = i + (k + 1)
    BY <1>4, <1>6
  <2>2. todo[i + 1] = Plan(mod)[i + 1 + k]
    BY <1>5, <2>1
  <2> QED
    BY <2>1, <2>2
<1>10. \A x \in held : \E i \in DOMAIN Plan(mod) : i < k + 1 /\ Plan(mod)[i] = x
  <2>1. \A i \in 1 .. k : i \in DOMAIN Plan(mod) /\ i < k + 1
    BY <1>3
  <2> QED
    BY <1>5, <2>1
<1>11. mod # "virt-int" => \A i \in DOMAIN Plan(mod) : i < k + 1 => Plan(mod)[i] \in held
  BY <1>5, <1>6
<1> QED
  BY <1>4, <1>6, <1>7, <1>8, <1>9, <1>10, <1>11

LEMMA LoadGet ==
    ASSUME LInv, pc = "init", todo # <<>>, Get(Head(todo)), UNCHANGED <<mod, active>>
    PROVE  LInv'
<1> DEFINE r == Head(todo)
<1>1. LoadTypes /\ Loading /\ Called /\ mod \in Modules
  BY DEF LInv, LoadTypes
<1>2. /\ held' = held \cup {r} /\ todo' = Tail(todo) /\ lines' = lines \cup ({r} \cap {"led", "sw"})
      /\ pending' = (IF r = "timer" THEN {"callback"} ELSE pending)
      /\ UNCHANGED <<mod, active, pc, failed>>
  BY DEF Get
<1>3. PICK k \in Nat :
         /\ k + 1 \in DOMAIN Plan(mod) /\ r = Plan(mod)[k + 1]
         /\ Tail(todo) \in Seq(Resources) /\ r \in Resources
         /\ \A x \in held : \E i \in DOMAIN Plan(mod) : i < k + 1 /\ Plan(mod)[i] = x
         /\ mod # "virt-int" => \A i \in DOMAIN Plan(mod) : i < k + 1 => Plan(mod)[i] \in held
         /\ Len(Tail(todo)) = Len(Plan(mod)) - (k + 1)
         /\ \A i \in 1 .. Len(Tail(todo)) : Tail(todo)[i] = Plan(mod)[i + (k + 1)]
  BY AtHead
<1> HIDE DEF r
<1>4. Len(Plan(mod)) \in Nat /\ DOMAIN Plan(mod) = 1 .. Len(Plan(mod))
  BY <1>1, PlanParts
<1>5. LoadTypes'
  BY <1>1, <1>2, <1>3 DEF LoadTypes
<1>6. mod = "virt-int" => lines' \subseteq held'
  BY <1>1, <1>2 DEF Loading
<1>7. Loading'
  <2>1. held' \subseteq ToSet(Plan(mod))
    BY <1>1, <1>2, <1>3 DEF Loading, ToSet
  <2>2. held' \cap {"led", "sw"} \subseteq lines'
    BY <1>1, <1>2 DEF Loading
  <2>3. PlanAt(k + 1)'
    <3>1. \A x \in held' : \E i \in 1 .. k + 1 : Plan(mod)[i] = x
      BY <1>2, <1>3, <1>4
    <3>2. mod # "virt-int" => \A i \in 1 .. k + 1 : Plan(mod)[i] \in held'
      <4>1. \A i \in 1 .. k + 1 : i \in DOMAIN Plan(mod) /\ (i < k + 1 \/ i = k + 1)
        BY <1>3, <1>4
      <4> QED
        BY <1>2, <1>3, <4>1
    <3>3. todo' = Tail(todo) /\ mod' = mod
      BY <1>2
    <3>4. Len(todo') = Len(Plan(mod)) - (k + 1)
      BY <1>3, <3>3
    <3>5. \A i \in 1 .. Len(todo') : todo'[i] = Plan(mod)[i + (k + 1)]
      BY <1>3, <3>3
    <3>6. /\ Len(todo') = Len(Plan(mod')) - (k + 1)
          /\ \A i \in 1 .. Len(todo') : todo'[i] = Plan(mod')[i + (k + 1)]
          /\ \A x \in held' : \E i \in 1 .. k + 1 : Plan(mod')[i] = x
          /\ mod' # "virt-int" => \A i \in 1 .. k + 1 : Plan(mod')[i] \in held'
      BY <3>1, <3>2, <3>3, <3>4, <3>5
    <3> QED
      BY <3>6, Zenon DEF PlanAt
  <2>4. todo' # <<>> => k + 1 \in 0 .. Len(Plan(mod)) - 1
    <3>1. Len(todo') = Len(Plan(mod)) - (k + 1) /\ k + 1 \in 1 .. Len(Plan(mod))
      BY <1>2, <1>3, <1>4
    <3>2. ASSUME NEW n \in Nat, k + 1 \in 1 .. n, n - (k + 1) # 0 PROVE k + 1 \in 0 .. n - 1
      BY <3>2
    <3>3. Len(todo') # 0 => k + 1 \in 0 .. Len(Plan(mod)) - 1
      BY <1>4, <3>1, <3>2, Zenon
    <3> QED
      BY <3>3, <1>2, <1>3, EmptySeq
  <2> QED
    BY <1>2, <1>6, <2>1, <2>2, <2>3, <2>4 DEF Loading
<1>8. mod # "virt-int" => \A a \in Calls : Uses(mod, a, lines') = Uses(mod, a, lines)
  BY DEF Uses
<1>9. mod = "virt-int" => \A a \in Calls : Uses(mod, a, lines') \subseteq held'
  BY <1>1, <1>6, UsesParts
<1>10. ASSUME NEW a \in Calls, Gate(a) \in held' PROVE Uses(mod, a, lines') \subseteq held'
  <2>1. CASE mod # "virt-int" /\ Gate(a) \in held
    BY <1>1, <1>2, <1>8, <2>1 DEF Called
  <2>2. CASE mod # "virt-int" /\ Gate(a) = r
    <3>1. ASSUME NEW x \in Uses(mod, a, lines') PROVE x \in held'
      <4>1. Plan(mod)[k + 1] = Gate(a) /\ k + 1 \in DOMAIN Plan(mod)
        BY <1>3, <2>2
      <4>2. \E j \in DOMAIN Plan(mod) : j < k + 1 /\ Plan(mod)[j] = x
        BY <1>1, <2>2, <4>1, <3>1, UsedFirst
      <4> QED
        BY <1>2, <1>3, <2>2, <4>2
    <3> QED
      BY <3>1
  <2> QED
    BY <1>2, <1>9, <1>10, <2>1, <2>2
<1>11. ASSUME NEW a \in Running' PROVE Uses(mod, a, lines') \subseteq held'
  <2>1. a \in Running \/ a = "callback"
    BY <1>2, <1>11 DEF Running
  <2>2. a \in Calls
    BY <1>5, <1>11, RunningTypes DEF LoadTypes, Running, Calls
  <2>3. CASE mod # "virt-int" /\ a \in Running
    BY <1>1, <1>2, <1>8, <2>2, <2>3 DEF Called
  <2> QED
    BY <1>9, <2>1, <2>2, <2>3, GateTypes
<1>12. Called'
  <2>1. "callback" \in pending' => "timer" \in held'
    BY <1>1, <1>2 DEF Called
  <2>2. "open" \in active => "device" \in held'
    BY <1>1, <1>2 DEF Called
  <2> QED
    BY <1>2, <1>10, <1>11, <2>1, <2>2 DEF Called
<1>13. Unloading'
  BY <1>2 DEF Unloading
<1> QED
  BY <1>5, <1>7, <1>12, <1>13 DEF LInv

LEMMA LoadGoWithout ==
    ASSUME LInv, pc = "init", todo # <<>>, GoWithout(Head(todo)), UNCHANGED <<mod, active>>
    PROVE  LInv'
<1>1. LoadTypes /\ Loading /\ Called /\ mod \in Modules
  BY DEF LInv, LoadTypes
<1>2. /\ todo' = (IF mod = "virt-int" THEN Tail(todo) ELSE <<>>)
      /\ UNCHANGED <<mod, active, pc, failed, held, lines, pending>>
  BY DEF GoWithout, AfterMissing
<1>3. PICK k \in Nat :
         /\ k + 1 \in DOMAIN Plan(mod)
         /\ Tail(todo) \in Seq(Resources)
         /\ \A x \in held : \E i \in DOMAIN Plan(mod) : i < k + 1 /\ Plan(mod)[i] = x
         /\ Len(Tail(todo)) = Len(Plan(mod)) - (k + 1)
         /\ \A i \in 1 .. Len(Tail(todo)) : Tail(todo)[i] = Plan(mod)[i + (k + 1)]
  BY AtHead
<1>4. Len(Plan(mod)) \in Nat /\ DOMAIN Plan(mod) = 1 .. Len(Plan(mod))
  BY <1>1, PlanParts
<1>5. LoadTypes'
  <2>1. todo' \in Seq(Resources)
    BY <1>2, <1>3, EmptySeq
  <2> QED
    BY <1>1, <1>2, <2>1 DEF LoadTypes
<1>6. mod = "virt-int" => PlanAt(k + 1)'
  <2>1. \A x \in held : \E i \in 1 .. k + 1 : Plan(mod)[i] = x
    BY <1>3, <1>4
  <2>2. mod = "virt-int" => todo' = Tail(todo)
    BY <1>2
  <2>3. mod = "virt-int" => /\ Len(todo') = Len(Plan(mod)) - (k + 1)
                            /\ \A i \in 1 .. Len(todo') : todo'[i] = Plan(mod)[i + (k + 1)]
    BY <1>3, <2>2
  <2>4. mod' = mod /\ held' = held
    BY <1>2
  <2>5. mod = "virt-int" =>
           /\ Len(todo') = Len(Plan(mod')) - (k + 1)
           /\ \A i \in 1 .. Len(todo') : todo'[i] = Plan(mod')[i + (k + 1)]
           /\ \A x \in held' : \E i \in 1 .. k + 1 : Plan(mod')[i] = x
           /\ mod' = "virt-int"
    BY <2>1, <2>3, <2>4
  <2> QED
    BY <2>5, Zenon DEF PlanAt
<1>7. todo' # <<>> => mod = "virt-int" /\ k + 1 \in 0 .. Len(Plan(mod)) - 1
  <2>1. Len(Tail(todo)) = Len(Plan(mod)) - (k + 1) /\ k + 1 \in 1 .. Len(Plan(mod))
    BY <1>3, <1>4
  <2>2. ASSUME NEW n \in Nat, k + 1 \in 1 .. n, n - (k + 1) # 0 PROVE k + 1 \in 0 .. n - 1
    BY <2>2
  <2>3. Len(Tail(todo)) # 0 => k + 1 \in 0 .. Len(Plan(mod)) - 1
    BY <1>4, <2>1, <2>2, Zenon
  <2> QED
    BY <2>3, <1>2, <1>3, EmptySeq
<1>8. Loading'
  BY <1>1, <1>2, <1>6, <1>7 DEF Loading
<1>9. Called' /\ Unloading'
  BY <1>1, <1>2 DEF Called, Unloading, Running, Kept
<1> QED
  BY <1>5, <1>8, <1>9 DEF LInv

LEMMA LoadFail ==
    ASSUME LInv, pc = "init", todo # <<>>, Fail(Head(todo)), UNCHANGED <<mod, active>>
    PROVE  LInv'
<1> DEFINE r == Head(todo)
<1>1. LoadTypes /\ Loading /\ Called /\ mod \in Modules
  BY DEF LInv, LoadTypes
<1>2. /\ MayFail(mod, r) /\ todo' = Unwind(mod, r) /\ failed' = InProbe(mod, r)
      /\ pc' = (IF failed' THEN "undo" ELSE "exit")
      /\ UNCHANGED <<mod, active, held, lines, pending>>
  BY DEF Fail
<1>3. PICK k \in Nat :
         /\ k + 1 \in DOMAIN Plan(mod) /\ r = Plan(mod)[k + 1]
         /\ \A x \in held : \E i \in DOMAIN Plan(mod) : i < k + 1 /\ Plan(mod)[i] = x
  BY AtHead
<1> HIDE DEF r
<1>4. LoadTypes'
  <2>1. todo' \in Seq(Resources) /\ failed' \in BOOLEAN /\ pc' \in {"undo", "exit"}
    BY <1>2, UnwindTypes DEF InProbe
  <2> QED
    BY <1>1, <1>2, <2>1 DEF LoadTypes
<1>5. \A x \in held : /\ x # "device"
                      /\ \A a \in Calls : \A ls : Uses(mod, a, ls) # {} => x # Gate(a)
  BY <1>1, <1>2, <1>3, NoGateYet
<1>6. pc' = "exit" => held \subseteq ToSet(todo')
  <2> SUFFICES ASSUME pc' = "exit", NEW x \in held PROVE x \in ToSet(todo')
    OBVIOUS
  <2>1. ~InProbe(mod, r)
    BY <1>2
  <2> QED
    BY <1>1, <1>2, <1>3, <2>1, UnwindAll
<1>7. Unloading'
  BY <1>2, <1>5, <1>6 DEF Unloading
<1>8. Loading'
  BY <1>1, <1>2 DEF Loading
<1>9. Called'
  BY <1>1, <1>2, <1>5 DEF Called, Running
<1> QED
  BY <1>4, <1>7, <1>8, <1>9 DEF LInv

LEMMA LoadAcquire ==
    ASSUME LInv, Acquire
    PROVE  LInv'
<1>1. /\ pc = "init" /\ todo # <<>> /\ UNCHANGED <<mod, active>>
      /\ Get(Head(todo)) \/ GoWithout(Head(todo)) \/ Fail(Head(todo))
  BY DEF Acquire
<1> QED
  BY <1>1, LoadGet, LoadGoWithout, LoadFail

LEMMA LoadRmmod ==
    ASSUME LInv, Rmmod
    PROVE  LInv'
<1>1. LoadTypes /\ Loading /\ Called /\ mod \in Modules
  BY DEF LInv, LoadTypes
<1>2. /\ pc = "in" /\ "open" \notin active /\ pc' = "exit" /\ todo' = ExitOrder(mod)
      /\ UNCHANGED <<mod, failed, held, lines, active, pending>>
  BY DEF Rmmod, callVars
<1>3. LoadTypes'
  BY <1>1, <1>2, ExitTypes DEF LoadTypes
<1>4. Loading'
  BY <1>1, <1>2 DEF Loading
<1>5. held \subseteq ToSet(ExitOrder(mod))
  <2>1. ASSUME NEW x \in held PROVE x \in ToSet(ExitOrder(mod))
    <3>1. PICK i \in DOMAIN Plan(mod) : Plan(mod)[i] = x
      BY <1>1 DEF Loading, ToSet
    <3> QED
      BY <1>1, <3>1, ExitAll
  <2> QED
    BY <2>1
<1>6. Unloading'
  <2>1. \A a \in Calls, j \in DOMAIN ExitOrder(mod) :
           ExitOrder(mod)[j] \in Uses(mod, a, lines) =>
               \E i \in DOMAIN ExitOrder(mod) : i < j /\ ExitOrder(mod)[i] = Gate(a)
    BY <1>1, UsedLast
  <2> QED
    BY <1>2, <1>5, <2>1 DEF Unloading
<1>7. Called'
  BY <1>1, <1>2 DEF Called, Running
<1> QED
  BY <1>3, <1>4, <1>6, <1>7 DEF LInv

LEMMA LoadRelease ==
    ASSUME LInv, Release
    PROVE  LInv'
<1> DEFINE h == Head(todo)
           t == Tail(todo)
<1>1. LoadTypes /\ Loading /\ Unloading /\ Called /\ mod \in Modules /\ todo \in Seq(Resources)
  BY DEF LInv, LoadTypes
<1>2. /\ pc \in {"undo", "exit"} /\ todo # <<>> /\ Drained
      /\ held' = held \ ({h} \ Kept) /\ todo' = t
      /\ pending' = (IF h = "timer" THEN {} ELSE pending)
      /\ UNCHANGED <<mod, failed, lines, pc, active>>
  BY DEF Release
<1>3. /\ t \in Seq(Resources) /\ DOMAIN todo = 1 .. Len(todo) /\ DOMAIN t = 1 .. Len(todo) - 1
      /\ Len(todo) \in Nat \ {0} /\ h = todo[1] /\ 1 \in DOMAIN todo
      /\ \A i \in DOMAIN t : i + 1 \in DOMAIN todo /\ t[i] = todo[i + 1]
  BY <1>1, <1>2, TailParts
<1> HIDE DEF h, t
<1>4. Kept \subseteq {"table"} /\ Kept' = Kept
  BY <1>2 DEF Kept
<1>5. \A x \in held : x \in held' \/ x = h
  BY <1>2
<1>6. \A i \in DOMAIN todo : i = 1 \/ (i - 1 \in DOMAIN t /\ t[i - 1] = todo[i])
  <2>1. ASSUME NEW i \in DOMAIN todo, i # 1 PROVE i - 1 \in DOMAIN t /\ i - 1 + 1 = i
    BY <1>3, <2>1
  <2> QED
    BY <1>3, <2>1
<1>7. LoadTypes'
  BY <1>1, <1>2, <1>3 DEF LoadTypes
<1>8. Loading'
  BY <1>1, <1>2 DEF Loading
<1>9. ASSUME NEW a \in Calls, Gate(a) \in held PROVE Uses(mod, a, lines) \subseteq held'
  <2>1. Uses(mod, a, lines) \subseteq held
    BY <1>1, <1>9 DEF Called
  <2>2. todo[1] \notin Uses(mod, a, lines)
    <3>1. ASSUME todo[1] \in Uses(mod, a, lines) PROVE FALSE
      <4>1. \E i \in DOMAIN todo : i < 1 /\ todo[i] = Gate(a)
        BY <1>1, <1>2, <1>3, <1>9, <3>1 DEF Unloading
      <4> QED
        BY <1>3, <4>1
    <3> QED
      BY <3>1
  <2> QED
    BY <1>3, <1>5, <2>1, <2>2
<1>10. Unloading'
  <2>1. ASSUME NEW a \in Calls, NEW j \in DOMAIN t, Gate(a) \in held', t[j] \in Uses(mod, a, lines)
        PROVE  \E i \in DOMAIN t : i < j /\ t[i] = Gate(a)
    <3>1. j + 1 \in DOMAIN todo /\ todo[j + 1] \in Uses(mod, a, lines) /\ Gate(a) \in held
      BY <1>2, <1>3, <2>1
    <3>2. PICK i \in DOMAIN todo : i < j + 1 /\ todo[i] = Gate(a)
      BY <1>1, <1>2, <3>1 DEF Unloading
    <3>3. i # 1
      <4>1. Gate(a) # "table"
        BY GateTypes
      <4> QED
        BY <1>2, <1>3, <1>4, <2>1, <3>2, <4>1
    <3>4. i - 1 < j
      BY <1>3, <3>2
    <3> QED
      BY <1>6, <3>2, <3>3, <3>4
  <2>2. ASSUME pc = "exit", NEW x \in held' PROVE x \in ToSet(t) \cup Kept
    <3>1. x \in held /\ (x # h \/ x \in Kept)
      BY <1>2, <2>2
    <3>2. x \in ToSet(todo) \cup Kept
      BY <1>1, <2>2, <3>1 DEF Unloading
    <3>3. CASE x \in Kept
      BY <3>3
    <3>4. CASE x # h /\ x \in ToSet(todo)
      <4>1. PICK i \in DOMAIN todo : todo[i] = x
        BY <3>4 DEF ToSet
      <4>2. i - 1 \in DOMAIN t /\ t[i - 1] = x
        BY <1>3, <1>6, <3>4, <4>1
      <4> QED
        BY <4>2 DEF ToSet
    <3> QED
      BY <3>1, <3>2, <3>3, <3>4
  <2>3. pc = "undo" => "device" \notin held'
    BY <1>1, <1>2 DEF Unloading
  <2> QED
    BY <1>2, <1>4, <2>1, <2>2, <2>3 DEF Unloading
<1>11. Called'
  <2>1. \A a \in Calls : Gate(a) \in held' => Uses(mod, a, lines) \subseteq held'
    BY <1>2, <1>9
  <2>2. ASSUME NEW a \in Running' PROVE pc # "out" /\ Uses(mod, a, lines) \subseteq held'
    <3>1. a \in Running /\ a # "open"
      BY <1>1, <1>2, <2>2 DEF Running, Called, LoadTypes
    <3>2. a = "callback" \/ Gate(a) \in held
      BY <1>1, <1>2, <3>1, GateTypes DEF Running, Drained, LoadTypes
    <3>3. a \in Calls
      BY <1>1, <3>1, RunningTypes
    <3> QED
      BY <1>2, <1>9, <3>2, <3>3, GateTypes
  <2>3. "open" \notin active
    BY <1>1, <1>2 DEF Called
  <2>4. "callback" \in pending' => "timer" \in held'
    BY <1>1, <1>2, <1>5 DEF Called
  <2> QED
    BY <1>2, <2>1, <2>2, <2>3, <2>4 DEF Called
<1> QED
  BY <1>7, <1>8, <1>10, <1>11 DEF LInv

LEMMA LoadReleased ==
    ASSUME LInv, Released
    PROVE  LInv'
<1>1. LoadTypes /\ Loading /\ Unloading /\ Called
  BY DEF LInv
<1>2. /\ pc \in {"undo", "exit"} /\ todo = <<>> /\ Drained
      /\ pc' = (IF pc = "undo" THEN "in" ELSE "out")
      /\ UNCHANGED <<mod, failed, todo, held, lines, active, pending>>
  BY DEF Released, loadVars, callVars
<1>3. LoadTypes' /\ Loading' /\ Unloading'
  BY <1>1, <1>2 DEF LoadTypes, Loading, Unloading
<1>4. pc = "exit" => held \subseteq Kept /\ Running = {}
  <2> SUFFICES ASSUME pc = "exit" PROVE held \subseteq Kept /\ Running = {}
    OBVIOUS
  <2>1. held \subseteq Kept
    BY <1>1, <1>2 DEF Unloading, ToSet
  <2>2. \A a \in Calls : Gate(a) \notin held
    BY <2>1, GateTypes DEF Kept
  <2>3. active = {}
    <3>1. ASSUME NEW a \in active PROVE FALSE
      BY <1>1, <1>2, <2>2, <3>1 DEF Drained, LoadTypes, Called
    <3> QED
      BY <3>1
  <2>4. pending = {}
    <3>1. "thread" \notin pending /\ "callback" \notin pending
      <4>1. "thread" \in Calls /\ "callback" \in Calls
        BY DEF Calls
      <4> QED
        BY <1>1, <1>2, <2>2, <4>1, GateTypes DEF Drained, Called
    <3> QED
      BY <1>1, <3>1 DEF LoadTypes
  <2> QED
    BY <2>1, <2>3, <2>4 DEF Running
<1>5. Called'
  <2>1. CASE pc = "undo"
    BY <1>1, <1>2, <2>1 DEF Called, Running
  <2>2. CASE pc = "exit"
    BY <1>1, <1>2, <1>4, <2>2 DEF Called, Running, Kept
  <2> QED
    BY <1>2, <2>1, <2>2
<1> QED
  BY <1>3, <1>5 DEF LInv

LEMMA LoadCalls ==
    ASSUME LInv, \/ Open \/ Close \/ Store \/ Trigger \/ CountRead \/ Hard \/ HardEnds
                 \/ Thread \/ Timeout \/ TimeoutEnds \/ \E a \in Handlers : Step(a)
    PROVE  LInv'
<1>1. LoadTypes /\ Loading /\ Unloading /\ Called
  BY DEF LInv
<1>2. active \subseteq Calls /\ pending \subseteq {"thread", "callback"}
  BY <1>1 DEF LoadTypes
<1>3. "open" \in active => "device" \in held /\ pc \in {"init", "in"}
  BY <1>1 DEF Called
<1>4. "callback" \in pending => "timer" \in held
  BY <1>1 DEF Called
<1>5. Calls = {"open", "store", "show", "hard", "thread", "callback"}
  BY DEF Calls
<1>6. UNCHANGED <<mod, pc, failed, todo, held, lines>>
  BY DEF Open, Close, Store, Trigger, CountRead, Hard, HardEnds, Thread, Timeout, TimeoutEnds,
         Step, loadVars
<1> DEFINE Kind == /\ active' \subseteq Calls /\ pending' \subseteq {"thread", "callback"}
                   /\ \A a \in Running' : a \in Running \/ Gate(a) \in held
                   /\ "open" \in active' => "open" \in active \/ ("device" \in held /\ pc \in {"init", "in"})
                   /\ "callback" \in pending' => "timer" \in held
<1>7. ASSUME Open PROVE Kind
  <2>1. /\ pc \notin {"exit", "undo", "out"} /\ "device" \in held
    BY <1>1, <1>7 DEF Open, Unloading, Called, Kept
  <2>2. active' = active \cup {"open"} /\ pending' = pending /\ pc \in {"init", "in"}
    BY <1>1, <1>7, <2>1 DEF Open, Begin, LoadTypes
  <2> QED
    BY <1>2, <1>4, <1>5, <2>1, <2>2, GateTypes DEF Running
<1>8. ASSUME Close PROVE Kind
  BY <1>2, <1>3, <1>4, <1>8 DEF Close, End, Running
<1>9. ASSUME Store \/ Trigger \/ CountRead PROVE Kind
  <2>1. /\ pending' = pending
        /\ \/ "file" \in held /\ active' = active \cup {"store"}
           \/ "file" \in held /\ active' = active \cup {"show"}
           \/ active' \subseteq active
    BY <1>9 DEF Store, Trigger, CountRead, IrqSw, Begin, End
  <2> QED
    BY <1>2, <1>3, <1>4, <1>5, <2>1, GateTypes DEF Running
<1>10. ASSUME Hard PROVE Kind
  <2>1. "irq" \in held /\ active' = active \cup {"hard"} /\ pending' = pending
    BY <1>10 DEF Hard, IrqSw, Begin
  <2> QED
    BY <1>2, <1>3, <1>4, <1>5, <2>1, GateTypes DEF Running
<1>11. ASSUME HardEnds PROVE Kind
  <2>1. /\ "hard" \in active /\ active' = active \ {"hard"}
        /\ pending' \subseteq pending \cup {"thread"}
    BY <1>11 DEF HardEnds, End
  <2> QED
    BY <1>2, <1>3, <1>4, <2>1 DEF Running
<1>12. ASSUME Thread PROVE Kind
  <2>1. \/ /\ "thread" \in pending /\ active' = active \cup {"thread"}
           /\ pending' = pending \ {"thread"}
        \/ active' = active \ {"thread"} /\ pending' = pending
    BY <1>12 DEF Thread, Begin, End
  <2> QED
    BY <1>2, <1>3, <1>4, <1>5, <2>1 DEF Running
<1>13. ASSUME Timeout PROVE Kind
  <2>1. "callback" \in pending /\ active' = active \cup {"callback"} /\ pending' = {}
    BY <1>13 DEF Timeout, Begin
  <2> QED
    BY <1>2, <1>3, <1>4, <1>5, <2>1 DEF Running
<1>14. ASSUME TimeoutEnds PROVE Kind
  <2>1. /\ "callback" \in active /\ active' = active \ {"callback"}
        /\ \/ pending' = {"callback"} /\ "timer" \in held
           \/ pending' = {}
    BY <1>14 DEF TimeoutEnds, End
  <2> QED
    BY <1>2, <1>3, <1>4, <2>1, GateTypes DEF Running
<1>15. ASSUME (\E a \in Handlers : Step(a)) PROVE Kind
  <2>1. active' = active /\ pending' = pending
    BY <1>15 DEF Step
  <2>2. Running' = Running
    BY <2>1 DEF Running
  <2> QED
    BY <1>2, <1>4, <2>1, <2>2
<1>16. Kind
  BY <1>7, <1>8, <1>9, <1>10, <1>11, <1>12, <1>13, <1>14, <1>15
<1> QED
  BY <1>6, <1>16, LoadKept

(* What calls and loading keep, by every step. *)
LEMMA LoadStep ==
    ASSUME LInv, [Next]_vars
    PROVE  LInv'
<1>1. CASE TearDown \/ Setup \/ RmmodRefused \/ UNCHANGED vars
  <2>1. UNCHANGED <<mod, pc, failed, todo, held, lines, active, pending>>
    BY <1>1 DEF TearDown, Setup, RmmodRefused, vars, loadVars, callVars
  <2> QED
    BY <2>1 DEF LInv, LoadTypes, Loading, PlanAt, Unloading, Called, Running, Kept
<1>2. CASE \E m \in Modules, v \in {0, 1} : Insmod(m, v)
  BY <1>2, LoadInsmod
<1>3. CASE Acquire
  BY <1>3, LoadAcquire
<1>4. CASE Loaded
  BY <1>4 DEF Loaded, loadVars, callVars, LInv, LoadTypes, Loading, Unloading, Called, Running
<1>5. CASE Release
  BY <1>5, LoadRelease
<1>6. CASE Released
  BY <1>6, LoadReleased
<1>7. CASE Rmmod
  BY <1>7, LoadRmmod
<1>8. CASE \/ Open \/ Close \/ Store \/ Trigger \/ CountRead \/ Hard \/ HardEnds
           \/ Thread \/ Timeout \/ TimeoutEnds \/ \E a \in Handlers : Step(a)
  BY <1>8, LoadCalls
<1> QED
  BY <1>1, <1>2, <1>3, <1>4, <1>5, <1>6, <1>7, <1>8 DEF Next, Loader

(* What loading, unloading and the calls meanwhile keep, always. *)
THEOREM LoadInvariant == Spec => []LInv
<1>1. Init => LInv
  BY LoadInit
<1>2. LInv /\ [Next]_vars => LInv'
  BY LoadStep
<1> QED
  BY <1>1, <1>2, PTL DEF Spec

(* A call in progress finds in place what it uses, though the init function, *)
(* its undoing or the exit function is under way.                            *)
THEOREM Finds == Spec => []CallsFindTheirs
<1>1. LInv => CallsFindTheirs
  BY DEF LInv, Called, Running, CallsFindTheirs
<1> QED
  BY <1>1, LoadInvariant, PTL

(* A driver that is gone has left nothing acquired, but for the lookup table *)
(* of a gpio-sim probe that failed, and nothing that will run.               *)
THEOREM Nothing == Spec => []NothingLeft
<1>1. LInv => NothingLeft
  BY DEF LInv, Called, Running, NothingLeft
<1> QED
  BY <1>1, LoadInvariant, PTL
-----------------------------------------------------------------------------
(* What the steps of the handlers do. *)

HardStep(a) ==
    /\ mod = "gpio-sim-int" /\ a = "hard" /\ UNCHANGED <<reg, count, level, led>>
    /\ \/ left(a) = 2 /\ irq_time' = <<irqs, irq_time[2]>>
       \/ left(a) = 1 /\ irq_time' = <<irq_time[1], irqs>>

ThreadStep(a) ==
    /\ mod = "gpio-sim-int" /\ a = "thread" /\ UNCHANGED irq_time
    /\ \/ /\ left(a) = 5 /\ reg' = [reg EXCEPT ![a][1] = irq_time[1]]
          /\ UNCHANGED <<count, level, led>>
       \/ /\ left(a) = 4 /\ reg' = [reg EXCEPT ![a][2] = irq_time[2]]
          /\ UNCHANGED <<count, level, led>>
       \/ left(a) = 3 /\ count' = count + 1 /\ UNCHANGED <<reg, level, led>>
       \/ left(a) = 2 /\ level' = 1 - level /\ UNCHANGED <<reg, count, led>>
       \/ left(a) = 1 /\ led' = level /\ UNCHANGED <<reg, count, level>>

SwStep(a) ==
    /\ mod = "virt-int" /\ a \in {"hard", "store"} /\ UNCHANGED irq_time
    /\ \/ /\ left(a) = 5 /\ reg' = [reg EXCEPT ![a][1] = 1 - level]
          /\ UNCHANGED <<count, level, led>>
       \/ left(a) = 4 /\ level' = reg[a][1] /\ UNCHANGED <<reg, count, led>>
       \/ /\ left(a) = 3 /\ UNCHANGED <<reg, count, level>>
          /\ IF "led" \in lines THEN led' \in {reg[a][1], level} ELSE UNCHANGED led
       \/ /\ left(a) = 2 /\ reg' = [reg EXCEPT ![a][1] = count]
          /\ UNCHANGED <<count, level, led>>
       \/ left(a) = 1 /\ count' = reg[a][1] + 1 /\ UNCHANGED <<reg, level, led>>

LEMMA BodyIs ==
    ASSUME NEW m \in Modules, NEW a \in Calls
    PROVE  /\ Body(m, a) \in Seq(Instructions) /\ Len(Body(m, a)) \in Nat
           /\ \/ /\ m = "gpio-sim-int" /\ a = "hard" /\ Len(Body(m, a)) = 2
                 /\ Body(m, a)[1] = "time lo" /\ Body(m, a)[2] = "time hi"
              \/ /\ m = "gpio-sim-int" /\ a = "thread" /\ Len(Body(m, a)) = 5
                 /\ Body(m, a)[1] = "load lo" /\ Body(m, a)[2] = "load hi"
                 /\ Body(m, a)[3] = "count" /\ Body(m, a)[4] = "flip" /\ Body(m, a)[5] = "led"
              \/ /\ m = "virt-int" /\ a \in {"hard", "store"} /\ Len(Body(m, a)) = 5
                 /\ Body(m, a)[1] = "load level" /\ Body(m, a)[2] = "store level"
                 /\ Body(m, a)[3] = "led" /\ Body(m, a)[4] = "load count"
                 /\ Body(m, a)[5] = "store count"
              \/ /\ Len(Body(m, a)) = 0 /\ Body(m, a) = <<>>
                 /\ ~(m = "gpio-sim-int" /\ a \in {"hard", "thread"})
                 /\ ~(m = "virt-int" /\ a \in {"hard", "store"})
<1>1. CASE m = "gpio-sim-int" /\ a = "hard"
  <2>1. Body(m, a) = <<"time lo", "time hi">>
    BY <1>1 DEF Body
  <2>2. <<"time lo", "time hi">> \in Seq(Instructions)
    BY DEF Instructions
  <2>3. /\ Len(<<"time lo", "time hi">>) = 2
        /\ <<"time lo", "time hi">>[1] = "time lo" /\ <<"time lo", "time hi">>[2] = "time hi"
    OBVIOUS
  <2> QED
    BY <1>1, <2>1, <2>2, <2>3
<1>2. CASE m = "gpio-sim-int" /\ a = "thread"
  <2>1. Body(m, a) = <<"load lo", "load hi", "count", "flip", "led">>
    BY <1>2 DEF Body
  <2>2. <<"load lo", "load hi", "count", "flip", "led">> \in Seq(Instructions)
    BY DEF Instructions
  <2>3. /\ Len(<<"load lo", "load hi", "count", "flip", "led">>) = 5
        /\ <<"load lo", "load hi", "count", "flip", "led">>[1] = "load lo" /\ <<"load lo", "load hi", "count", "flip", "led">>[2] = "load hi" /\ <<"load lo", "load hi", "count", "flip", "led">>[3] = "count" /\ <<"load lo", "load hi", "count", "flip", "led">>[4] = "flip" /\ <<"load lo", "load hi", "count", "flip", "led">>[5] = "led"
    OBVIOUS
  <2> QED
    BY <1>2, <2>1, <2>2, <2>3
<1>3. CASE m = "virt-int" /\ a \in {"hard", "store"}
  <2>1. Body(m, a) = <<"load level", "store level", "led", "load count", "store count">>
    BY <1>3 DEF Body
  <2>2. <<"load level", "store level", "led", "load count", "store count">> \in Seq(Instructions)
    BY DEF Instructions
  <2>3. /\ Len(<<"load level", "store level", "led", "load count", "store count">>) = 5
        /\ <<"load level", "store level", "led", "load count", "store count">>[1] = "load level" /\ <<"load level", "store level", "led", "load count", "store count">>[2] = "store level" /\ <<"load level", "store level", "led", "load count", "store count">>[3] = "led" /\ <<"load level", "store level", "led", "load count", "store count">>[4] = "load count" /\ <<"load level", "store level", "led", "load count", "store count">>[5] = "store count"
    OBVIOUS
  <2> QED
    BY <1>3, <2>1, <2>2, <2>3
<1>4. CASE /\ ~(m = "gpio-sim-int" /\ a \in {"hard", "thread"})
           /\ ~(m = "virt-int" /\ a \in {"hard", "store"})
  <2>1. Body(m, a) = <<>>
    BY <1>4 DEF Body
  <2> QED
    BY <1>4, <2>1, EmptySeq
<1> QED
  BY <1>1, <1>2, <1>3, <1>4

LEMMA LeftIs ==
    ASSUME mod \in Modules, HandlerTypes, Steps, NEW a \in Calls
    PROVE  /\ left(a) \in Nat /\ left(a) <= 5
           /\ left(a) > 0 => a \in active
           /\ left(a) = 0 <=> rest[a] = <<>>
           /\ mod = "gpio-sim-int" /\ a = "hard" => left(a) <= 2
           /\ ~(mod = "gpio-sim-int" /\ a \in {"hard", "thread"}) /\ ~(mod = "virt-int" /\ a \in {"hard", "store"})
                 => left(a) = 0
<1>1. rest[a] \in Seq(Instructions)
  BY DEF HandlerTypes
<1>2. left(a) \in Nat /\ (left(a) = 0 <=> rest[a] = <<>>)
  BY <1>1, LenProperties, EmptySeq DEF left
<1>3. a \notin active => left(a) = 0
  BY <1>2 DEF Steps
<1>4. a \in active => left(a) <= Len(Body(mod, a))
  BY DEF Steps, Ending, left
<1>5. Len(Body(mod, a)) \in {0, 2, 5}
      /\ (mod = "gpio-sim-int" /\ a = "hard" => Len(Body(mod, a)) = 2)
      /\ (~(mod = "gpio-sim-int" /\ a \in {"hard", "thread"}) /\ ~(mod = "virt-int" /\ a \in {"hard", "store"})
            => Len(Body(mod, a)) = 0)
  BY BodyIs
<1>6. left(a) > 0 => a \in active
  BY <1>2, <1>3
<1>7. PICK n \in Nat, l \in {0, 2, 5} : n = left(a) /\ l = Len(Body(mod, a))
  BY <1>2, <1>5
<1>8. n = 0 \/ n <= l
  BY <1>3, <1>4, <1>7
<1>9. n <= 5 /\ (l = 2 => n <= 2) /\ (l = 0 => n = 0)
  BY <1>8
<1> QED
  BY <1>2, <1>5, <1>6, <1>7, <1>9

(* The first instruction of an ending, by its place in the body. *)
HeadOfEnding(s, t) ==
    \E n, l, k \in Nat : /\ n = Len(s) /\ l = Len(t) /\ n > 0 /\ n <= l /\ k = 1 + (l - n)
                         /\ Len(Tail(s)) = n - 1 /\ Head(s) = t[k]

LEMMA EndingTail ==
    ASSUME NEW s, NEW t, Len(t) \in Nat, Ending(s, t), s # <<>>
    PROVE  /\ Ending(Tail(s), t) /\ Tail(s) \in Seq(Instructions)
           /\ HeadOfEnding(s, t)
<1>1. s \in Seq(Instructions) /\ Len(s) <= Len(t) /\ \A i \in 1 .. Len(s) : s[i] = t[i + (Len(t) - Len(s))]
  BY DEF Ending
<1>2. /\ Tail(s) \in Seq(Instructions) /\ Len(Tail(s)) = Len(s) - 1 /\ Len(s) \in Nat \ {0}
      /\ Head(s) = s[1] /\ DOMAIN s = 1 .. Len(s) /\ DOMAIN Tail(s) = 1 .. Len(s) - 1
      /\ \A i \in DOMAIN Tail(s) : i + 1 \in DOMAIN s /\ Tail(s)[i] = s[i + 1]
  BY <1>1, TailParts
<1>3. PICK n \in Nat, l \in Nat : n = Len(s) /\ l = Len(t)
  BY <1>2
<1>4. n > 0 /\ n <= l /\ Len(Tail(s)) = n - 1
  BY <1>1, <1>2, <1>3
<1>5. \A i \in 1 .. n : s[i] = t[i + (l - n)]
  BY <1>1, <1>3
<1>6. Head(s) = t[1 + (l - n)]
  BY <1>2, <1>4, <1>5
<1>7. ASSUME NEW i \in 1 .. n - 1 PROVE Tail(s)[i] = t[i + (l - (n - 1))]
  <2>1. i + 1 \in 1 .. n /\ i + 1 + (l - n) = i + (l - (n - 1))
    BY <1>4
  <2>2. Tail(s)[i] = s[i + 1]
    BY <1>2, <1>3
  <2> QED
    BY <1>5, <2>1, <2>2
<1>8. n - 1 <= l
  BY <1>4
<1>9. Ending(Tail(s), t)
  BY <1>2, <1>3, <1>4, <1>7, <1>8 DEF Ending
<1>10. PICK k \in Nat : k = 1 + (l - n)
  BY <1>4
<1>11. HeadOfEnding(s, t)
  BY <1>3, <1>4, <1>6, <1>10 DEF HeadOfEnding
<1> QED
  BY <1>2, <1>9, <1>11

LEMMA StepIs ==
    ASSUME mod \in Modules, HandlerTypes, Steps, NEW a \in Handlers, Step(a)
    PROVE  /\ a \in active /\ a \in Calls
           /\ left(a) \in Nat \ {0} /\ left(a)' = left(a) - 1
           /\ \A b \in Calls : b # a => rest'[b] = rest[b]
           /\ rest' \in [Calls -> Seq(Instructions)] /\ Ending(rest[a], Body(mod, a))'
           /\ UNCHANGED <<loadVars, pc, active, pending, timeouts, start, irqs, runs, overlap,
                          begun, served>>
           /\ HardStep(a) \/ ThreadStep(a) \/ SwStep(a)
<1> DEFINE s == rest[a]
           B == Body(mod, a)
<1>1. a \in Calls /\ rest \in [Calls -> Seq(Instructions)]
  BY DEF HandlerTypes, Handlers, Calls
<1>2. s # <<>> /\ rest' = [rest EXCEPT ![a] = Tail(s)]
  BY <1>1 DEF Step
<1>3. UNCHANGED <<loadVars, pc, active, pending, timeouts, start, irqs, runs, overlap, begun, served>>
  BY DEF Step
<1>4. a \in active /\ Ending(s, B)
  BY <1>1, <1>2 DEF Steps
<1> DEFINE h == Head(s)
<1>5. Len(B) \in Nat
  BY <1>1, BodyIs
<1>6. PICK n \in Nat, l \in Nat, k \in Nat :
        /\ n = Len(s) /\ l = Len(B) /\ n > 0 /\ n <= l /\ k = 1 + (l - n)
        /\ Len(Tail(s)) = n - 1 /\ h = B[k]
  <2>1. Len(B) \in Nat /\ Ending(s, B) /\ s # <<>>
    BY <1>2, <1>4, <1>5
  <2> HIDE DEF s, B
  <2>2. HeadOfEnding(s, B)
    BY <2>1, EndingTail
  <2> QED
    BY <2>2 DEF HeadOfEnding
<1>7. /\ Len(B) \in Nat
      /\ \/ mod = "gpio-sim-int" /\ a = "hard" /\ Len(B) = 2 /\ B[1] = "time lo" /\ B[2] = "time hi"
         \/ /\ mod = "gpio-sim-int" /\ a = "thread" /\ Len(B) = 5 /\ B[1] = "load lo"
            /\ B[2] = "load hi" /\ B[3] = "count" /\ B[4] = "flip" /\ B[5] = "led"
         \/ /\ mod = "virt-int" /\ a \in {"hard", "store"} /\ Len(B) = 5 /\ B[1] = "load level"
            /\ B[2] = "store level" /\ B[3] = "led" /\ B[4] = "load count" /\ B[5] = "store count"
         \/ Len(B) = 0
  BY <1>1, BodyIs
<1>8. /\ rest' \in [Calls -> Seq(Instructions)] /\ rest'[a] = Tail(s)
      /\ \A b \in Calls : b # a => rest'[b] = rest[b]
  BY <1>1, <1>2, <1>7, <1>4, EndingTail
<1>9. left(a) = n /\ left(a)' = left(a) - 1 /\ left(a) \in Nat \ {0}
  BY <1>6, <1>8 DEF left
<1>10. Ending(rest[a], Body(mod, a))'
  <2>1. mod' = mod
    BY <1>3 DEF loadVars
  <2> QED
    BY <1>2, <1>4, <1>5, <1>8, <2>1, EndingTail
<1>11. \/ TimeStep(a, h) /\ UNCHANGED <<count, level, led>>
       \/ CountStep(a, h) /\ UNCHANGED <<irq_time, level, led>>
       \/ LevelStep(a, h) /\ UNCHANGED <<irq_time, count>>
  BY DEF Step
<1> HIDE DEF s, B, h
<1>12. CASE mod = "gpio-sim-int" /\ a = "hard" /\ Len(B) = 2 /\ B[1] = "time lo" /\ B[2] = "time hi"
  <2>1. (n = 2 /\ k = 1) \/ (n = 1 /\ k = 2)
    <3>1. l = 2 /\ n > 0 /\ n <= l /\ k = 1 + (l - n)
      BY <1>6, <1>12
    <3> QED
      BY <3>1
  <2>2. \/ n = 2 /\ h = "time lo"
        \/ n = 1 /\ h = "time hi"
    BY <1>6, <1>12, <2>1
  <2>3. HardStep(a)
    BY <1>9, <1>11, <1>12, <2>2 DEF HardStep, TimeStep, CountStep, LevelStep
  <2> QED
    BY <1>1, <1>3, <1>4, <1>8, <1>9, <1>10, <2>3
<1>13. CASE /\ mod = "gpio-sim-int" /\ a = "thread" /\ Len(B) = 5 /\ B[1] = "load lo"
            /\ B[2] = "load hi" /\ B[3] = "count" /\ B[4] = "flip" /\ B[5] = "led"
  <2>1. (n = 5 /\ k = 1) \/ (n = 4 /\ k = 2) \/ (n = 3 /\ k = 3) \/ (n = 2 /\ k = 4) \/ (n = 1 /\ k = 5)
    <3>1. l = 5 /\ n > 0 /\ n <= l /\ k = 1 + (l - n)
      BY <1>6, <1>13
    <3> QED
      BY <3>1
  <2>2. \/ n = 5 /\ h = "load lo"
        \/ n = 4 /\ h = "load hi"
        \/ n = 3 /\ h = "count"
        \/ n = 2 /\ h = "flip"
        \/ n = 1 /\ h = "led"
    BY <1>6, <1>13, <2>1
  <2>3. ThreadStep(a)
    BY <1>9, <1>11, <1>13, <2>2 DEF ThreadStep, TimeStep, CountStep, LevelStep
  <2> QED
    BY <1>1, <1>3, <1>4, <1>8, <1>9, <1>10, <2>3
<1>14. CASE /\ mod = "virt-int" /\ a \in {"hard", "store"} /\ Len(B) = 5 /\ B[1] = "load level"
            /\ B[2] = "store level" /\ B[3] = "led" /\ B[4] = "load count" /\ B[5] = "store count"
  <2>1. (n = 5 /\ k = 1) \/ (n = 4 /\ k = 2) \/ (n = 3 /\ k = 3) \/ (n = 2 /\ k = 4) \/ (n = 1 /\ k = 5)
    <3>1. l = 5 /\ n > 0 /\ n <= l /\ k = 1 + (l - n)
      BY <1>6, <1>14
    <3> QED
      BY <3>1
  <2>2. \/ n = 5 /\ h = "load level"
        \/ n = 4 /\ h = "store level"
        \/ n = 3 /\ h = "led"
        \/ n = 2 /\ h = "load count"
        \/ n = 1 /\ h = "store count"
    BY <1>6, <1>14, <2>1
  <2>3. SwStep(a)
    BY <1>9, <1>11, <1>14, <2>2 DEF SwStep, TimeStep, CountStep, LevelStep
  <2> QED
    BY <1>1, <1>3, <1>4, <1>8, <1>9, <1>10, <2>3
<1>15. CASE Len(B) = 0
  BY <1>6, <1>15
<1> QED
  BY <1>7, <1>12, <1>13, <1>14, <1>15

LEMMA StepThreadCounts ==
    ASSUME LoadTypes, HInv, NEW a \in Handlers, Step(a)
    PROVE  ThreadCounts'
<1>1. mod \in Modules /\ HandlerTypes /\ Steps /\ ThreadCounts
  BY DEF LoadTypes, HInv
<1>2. /\ left(a)' = left(a) - 1 /\ a \in Calls
      /\ \A b \in Calls : b # a => rest'[b] = rest[b]
      /\ UNCHANGED <<mod, held, pc, start, irqs, runs>>
      /\ HardStep(a) \/ ThreadStep(a) \/ SwStep(a)
  BY <1>1, StepIs DEF loadVars
<1>3. CASE mod # "gpio-sim-int"
  BY <1>2, <1>3 DEF ThreadCounts
<1>4. CASE mod = "gpio-sim-int" /\ a = "hard"
  <2>1. left("thread")' = left("thread")
    BY <1>2, <1>4 DEF left, Calls
  <2> QED
    BY <1>1, <1>2, <1>4, <2>1 DEF ThreadCounts, HardStep, ThreadStep, SwStep, Parity
<1>5. CASE mod = "gpio-sim-int" /\ a = "thread"
  <2>1. ThreadStep(a) /\ left("thread")' = left("thread") - 1
    BY <1>2, <1>5 DEF HardStep, SwStep
  <2>2. start \in {0, 1} /\ runs \in Nat
    BY <1>1 DEF HandlerTypes
  <2> QED
    BY <1>1, <1>2, <1>5, <2>1, <2>2 DEF ThreadCounts, ThreadStep, Parity
<1> QED
  BY <1>2, <1>3, <1>4, <1>5 DEF HardStep, ThreadStep, SwStep

LEMMA StepStamped ==
    ASSUME LoadTypes, HInv, NEW a \in Handlers, Step(a)
    PROVE  Stamped'
<1>1. mod \in Modules /\ HandlerTypes /\ Steps /\ Stamped
  BY DEF LoadTypes, HInv
<1>2. /\ left(a)' = left(a) - 1 /\ a \in Calls /\ a \in active
      /\ \A b \in Calls : b # a => rest'[b] = rest[b]
      /\ UNCHANGED <<Masked, mod, active, pending, irqs, begun>>
      /\ HardStep(a) \/ ThreadStep(a) \/ SwStep(a)
  BY <1>1, StepIs DEF loadVars
<1>3. /\ left("hard") \in Nat /\ left("thread") \in Nat /\ irqs \in 0 .. MaxIrqs
      /\ ("hard" \notin active => left("hard") = 0)
  <2>1. "hard" \in Calls /\ "thread" \in Calls
    BY DEF Calls
  <2> QED
    BY <1>1, <2>1, LeftIs DEF HandlerTypes
<1>4. irq_time \in Time /\ reg \in [Handlers -> Time] /\ "thread" \in Handlers
  BY <1>1 DEF HandlerTypes, Handlers
<1>5. CASE mod # "gpio-sim-int"
  BY <1>2, <1>5 DEF Stamped
<1>6. CASE mod = "gpio-sim-int" /\ a = "hard"
  <2>1. left("thread")' = left("thread") /\ HardStep(a)
    BY <1>2, <1>6 DEF left, Calls, ThreadStep, SwStep
  <2>2. irq_time'[1] = IF left("hard")' = 2 THEN irqs - 1 ELSE irqs
    BY <1>1, <1>2, <1>3, <1>4, <1>6, <2>1 DEF Stamped, HardStep
  <2>3. irq_time'[2] = IF left("hard")' \in {1, 2} THEN irqs - 1 ELSE irqs
    BY <1>1, <1>2, <1>3, <1>4, <1>6, <2>1 DEF Stamped, HardStep
  <2> QED
    BY <1>1, <1>2, <1>6, <2>1, <2>2, <2>3 DEF Stamped, HardStep, LastIrq
<1>7. CASE mod = "gpio-sim-int" /\ a = "thread"
  <2>1. left("hard")' = left("hard") /\ ThreadStep(a)
    BY <1>2, <1>7 DEF left, Calls, HardStep, SwStep
  <2>2. irq_time[1] \in begun .. irqs /\ irq_time[2] \in begun .. irqs /\ irq_time' = irq_time
    <3>1. left("hard") \in {1, 2} => "hard" \in active
      BY <1>3
    <3>2. begun \in Nat /\ begun <= IF "hard" \in active THEN irqs - 1 ELSE irqs
      BY <1>1, <1>7 DEF Stamped, HandlerTypes, LastIrq
    <3> QED
      BY <1>1, <1>3, <1>7, <2>1, <3>1, <3>2 DEF Stamped, ThreadStep
  <2>3. /\ left("thread") = 5 => reg'["thread"][1] = irq_time[1]
        /\ left("thread") = 4 => reg'["thread"][2] = irq_time[2] /\ reg'["thread"][1] = reg["thread"][1]
        /\ left("thread") <= 3 => reg' = reg
        /\ left("thread") \in 1 .. 5
    <3>1. CASE left("thread") = 5 /\ reg' = [reg EXCEPT !["thread"][1] = irq_time[1]]
      BY <1>3, <1>4, <3>1 DEF Time
    <3>2. CASE left("thread") = 4 /\ reg' = [reg EXCEPT !["thread"][2] = irq_time[2]]
      BY <1>3, <1>4, <3>2 DEF Time
    <3> QED
      BY <1>3, <1>7, <2>1, <3>1, <3>2 DEF ThreadStep
  <2>4. /\ left("thread")' <= 4 => reg'["thread"][1] \in begun .. irqs
        /\ left("thread")' <= 3 => reg'["thread"][2] \in begun .. irqs
    BY <1>1, <1>2, <1>3, <1>7, <2>2, <2>3 DEF Stamped
  <2> QED
    BY <1>1, <1>2, <1>7, <2>1, <2>2, <2>4 DEF Stamped, LastIrq
<1> QED
  BY <1>2, <1>5, <1>6, <1>7 DEF HardStep, ThreadStep, SwStep

LEMMA StepSteps ==
    ASSUME LoadTypes, HInv, NEW a \in Handlers, Step(a)
    PROVE  Steps' /\ Woken'
<1>1. mod \in Modules /\ HandlerTypes /\ Steps /\ Woken
  BY DEF LoadTypes, HInv
<1>2. /\ a \in active /\ a \in Calls
      /\ \A b \in Calls : b # a => rest'[b] = rest[b]
      /\ Ending(rest[a], Body(mod, a))'
      /\ UNCHANGED <<mod, pc, todo, active, pending, timeouts, irqs, runs>>
  BY <1>1, StepIs DEF loadVars
<1>3. Woken'
  BY <1>1, <1>2 DEF Woken
<1>4. ASSUME NEW b \in Calls, b # a
      PROVE  IF b \in active' THEN Ending(rest'[b], Body(mod', b)) ELSE rest'[b] = <<>>
  BY <1>1, <1>2, <1>4 DEF Steps
<1>5. Ending(rest'[a], Body(mod', a)) /\ a \in active'
  BY <1>2
<1> QED
  BY <1>3, <1>4, <1>5 DEF Steps

(* virt-int.c: the calls that have not ended what they do. *)
LEMMA MidIs ==
    ASSUME LoadTypes, HandlerTypes, Steps, NEW a \in {"hard", "store"}
    PROVE  /\ left(a) \in 0 .. 5 /\ a \in Calls /\ a \in Handlers
           /\ Mid(a) \in {0, 1} /\ (Mid(a) = 0 <=> left(a) = 0)
           /\ left(a) > 0 => a \in active
<1>1. a \in Calls /\ a \in Handlers
  BY DEF Calls, Handlers
<1> QED
  BY <1>1, LeftIs DEF LoadTypes, Mid

LEMMA StepSwCounts ==
    ASSUME LoadTypes, HInv, NEW a \in Handlers, Step(a)
    PROVE  SwCounts'
<1>1. mod \in Modules /\ HandlerTypes /\ Steps /\ SwCounts
  BY DEF LoadTypes, HInv
<1>2. /\ left(a)' = left(a) - 1 /\ a \in Calls
      /\ \A b \in Calls : b # a => rest'[b] = rest[b]
      /\ UNCHANGED <<mod, runs>>
      /\ HardStep(a) \/ ThreadStep(a) \/ SwStep(a)
  BY <1>1, StepIs DEF loadVars
<1>3. CASE mod # "virt-int"
  BY <1>2, <1>3 DEF SwCounts
<1>4. CASE mod = "virt-int"
  <2>1. SwStep(a) /\ a \in {"hard", "store"}
    BY <1>2, <1>4 DEF HardStep, ThreadStep, SwStep
  <2>2. PICK b \in {"hard", "store"} : b # a /\ {"hard", "store"} = {a, b}
    BY <2>1
  <2>3. /\ left(a) \in 0 .. 5 /\ left(b) \in 0 .. 5 /\ a \in Handlers /\ b \in Handlers
        /\ Mid(a) \in {0, 1} /\ (Mid(a) = 0 <=> left(a) = 0) /\ Mid(b) \in {0, 1}
    BY <1>1, <2>1, MidIs
  <2>4. left(b)' = left(b) /\ Mid(b)' = Mid(b)
    BY <1>2, <2>2, <2>3 DEF left, Mid, Calls
  <2>5. Mid(a)' = (IF left(a) - 1 > 0 THEN 1 ELSE 0)
    BY <1>2 DEF Mid
  <2>6. Past = runs - Mid(a) - Mid(b) /\ Past' = runs - Mid(a)' - Mid(b) /\ runs \in Nat
    <3>1. Past' = runs - Mid("hard")' - Mid("store")'
      BY <1>2 DEF Past
    <3>2. runs \in Nat
      BY <1>1 DEF HandlerTypes
    <3>3. Mid(a)' \in {0, 1}
      BY <2>5
    <3>4. CASE a = "hard" /\ b = "store"
      BY <2>3, <2>4, <3>1, <3>2, <3>4 DEF Past
    <3>5. CASE a = "store" /\ b = "hard"
      BY <2>3, <2>4, <3>1, <3>2, <3>3, <3>5 DEF Past
    <3> QED
      BY <2>1, <2>2, <3>2, <3>4, <3>5
  <2>7. /\ Past >= 0 /\ count <= Past /\ (Past > 0 => count > 0) /\ count \in Nat
        /\ left(a) \in {3, 4} => reg[a][1] \in {0, 1}
        /\ left(a) = 1 => reg[a][1] <= Past
        /\ left(b) \in {3, 4} => reg[b][1] \in {0, 1}
        /\ left(b) = 1 => reg[b][1] <= Past
    BY <1>1, <1>4, <2>1 DEF SwCounts, HandlerTypes
  <2>8. /\ reg[a][1] \in Nat /\ reg \in [Handlers -> Time] /\ reg[a] \in Time
        /\ level \in {0, 1}
    BY <1>1, <2>3 DEF HandlerTypes, Time
  <2>9. /\ left(a) = 5 => reg'[a][1] = 1 - level /\ count' = count
        /\ left(a) \in {3, 4} => reg' = reg /\ count' = count
        /\ left(a) = 2 => reg'[a][1] = count /\ count' = count
        /\ left(a) = 1 => count' = reg[a][1] + 1
        /\ left(a) \in 1 .. 5 /\ reg'[b] = reg[b]
    <3>1. CASE left(a) = 5 /\ reg' = [reg EXCEPT ![a][1] = 1 - level] /\ count' = count
      BY <2>2, <2>3, <2>8, <3>1 DEF Time
    <3>2. CASE left(a) = 2 /\ reg' = [reg EXCEPT ![a][1] = count] /\ count' = count
      BY <2>2, <2>3, <2>8, <3>2 DEF Time
    <3> QED
      BY <2>1, <2>3, <3>1, <3>2 DEF SwStep
  <2>10. PICK p \in Int : p = Past
    BY <2>3, <2>6
  <2>11. Past' = IF left(a) = 1 THEN p + 1 ELSE p
    BY <2>3, <2>5, <2>6, <2>9, <2>10
  <2>12. /\ Past' >= 0 /\ count' <= Past' /\ (Past' > 0 => count' > 0)
    BY <2>3, <2>7, <2>8, <2>9, <2>10, <2>11
  <2>13. /\ left(a)' \in {3, 4} => reg'[a][1] \in {0, 1}
         /\ left(a)' = 1 => reg'[a][1] <= Past'
    BY <1>2, <2>3, <2>7, <2>8, <2>9, <2>10, <2>11
  <2>14. /\ left(b)' \in {3, 4} => reg'[b][1] \in {0, 1}
         /\ left(b)' = 1 => reg'[b][1] <= Past'
    <3>1. reg[b][1] \in Nat
      BY <2>3, <2>8 DEF Time
    <3> QED
      BY <2>4, <2>7, <2>9, <2>10, <2>11, <3>1
  <2> QED
    BY <1>2, <1>4, <2>1, <2>2, <2>12, <2>13, <2>14 DEF SwCounts
<1> QED
  BY <1>3, <1>4

LEMMA ParityIs ==
    ASSUME start \in {0, 1}, NEW n \in Nat
    PROVE  Parity(n) \in {0, 1} /\ Parity(n + 1) = 1 - Parity(n)
BY DEF Parity

(* virt-int.c, one run at a time: what the other call, which does not run,   *)
(* leaves for the one that does.                                            *)
LEMMA AloneIs ==
    ASSUME LoadTypes, HandlerTypes, Steps, SwCounts, mod = "virt-int", runs \in Nat,
           NEW a \in {"hard", "store"}, NEW b \in {"hard", "store"}, a # b
    PROVE  /\ Past = runs - Mid(a) - Mid(b) /\ Past \in Nat
           /\ a \in active /\ ~({"hard", "store"} \subseteq active) => left(b) = 0 /\ Mid(b) = 0
<1>1. /\ Mid(a) \in {0, 1} /\ Mid(b) \in {0, 1} /\ (Mid(b) = 0 <=> left(b) = 0)
      /\ (left(b) > 0 => b \in active) /\ left(b) \in 0 .. 5
  BY MidIs
<1>2. Past = runs - Mid(a) - Mid(b)
  <2>1. CASE a = "hard" /\ b = "store"
    BY <1>1, <2>1 DEF Past
  <2>2. CASE a = "store" /\ b = "hard"
    BY <1>1, <2>2 DEF Past
  <2> QED
    BY <2>1, <2>2
<1>3. Past >= 0
  BY DEF SwCounts
<1> QED
  BY <1>1, <1>2, <1>3

LEMMA StepAlone ==
    ASSUME LoadTypes, HInv, NEW a \in Handlers, Step(a)
    PROVE  Alone'
<1>1. mod \in Modules /\ HandlerTypes /\ Steps /\ SwCounts /\ Alone
  BY DEF LoadTypes, HInv
<1>2. /\ left(a)' = left(a) - 1 /\ a \in Calls /\ a \in active /\ left(a) \in Nat \ {0}
      /\ \A b \in Calls : b # a => rest'[b] = rest[b]
      /\ UNCHANGED <<mod, runs, pc, lines, active, overlap, start>>
      /\ HardStep(a) \/ ThreadStep(a) \/ SwStep(a)
  BY <1>1, StepIs DEF loadVars
<1>3. CASE ~(mod = "virt-int" /\ ~overlap)
  BY <1>2, <1>3 DEF Alone
<1>4. CASE mod = "virt-int" /\ ~overlap
  <2>1. SwStep(a) /\ a \in {"hard", "store"}
    BY <1>2, <1>4 DEF HardStep, ThreadStep, SwStep
  <2>2. PICK b \in {"hard", "store"} : b # a /\ {"hard", "store"} = {a, b}
    BY <2>1
  <2>3. /\ left(a) \in 0 .. 5 /\ a \in Handlers /\ b \in Calls
        /\ Mid(a) \in {0, 1} /\ (Mid(a) = 0 <=> left(a) = 0)
    BY <1>1, <2>1, <2>2, MidIs
  <2>4. ~({"hard", "store"} \subseteq active)
    BY <1>1, <1>4 DEF Alone
  <2>5. runs \in Nat /\ level \in {0, 1} /\ start \in {0, 1} /\ reg \in [Handlers -> Time]
        /\ reg[a] \in Time /\ count \in Nat
    BY <1>1, <2>3 DEF HandlerTypes
  <2>6. /\ Past = runs - Mid(a) - Mid(b) /\ Past \in Nat /\ left(b) = 0 /\ Mid(b) = 0
    BY <1>1, <1>2, <1>4, <2>1, <2>2, <2>4, <2>5, AloneIs
  <2>7. left(b)' = 0 /\ Mid(b)' = 0
    BY <1>2, <2>2, <2>3, <2>6 DEF left, Mid
  <2>8. PICK p \in Nat : p = Past /\ runs = p + 1
    BY <1>2, <2>3, <2>5, <2>6
  <2>9. Past' = IF left(a) = 1 THEN p + 1 ELSE p
    <3>1. Mid(a)' = IF left(a) = 1 THEN 0 ELSE 1
      BY <1>2, <2>3 DEF Mid
    <3>2. Past' = runs - Mid("hard")' - Mid("store")'
      BY <1>2 DEF Past
    <3>3. Past' = runs - Mid(a)'
      <4>1. CASE a = "hard" /\ b = "store"
        BY <2>7, <2>8, <3>1, <3>2, <4>1
      <4>2. CASE a = "store" /\ b = "hard"
        BY <2>7, <2>8, <3>1, <3>2, <4>2
      <4> QED
        BY <2>1, <2>2, <4>1, <4>2
    <3> QED
      BY <2>8, <3>1, <3>3
  <2>10. PICK q \in {0, 1} : /\ q = Parity(p) /\ Parity(runs) = 1 - q
                             /\ Parity(p)' = q /\ Parity(runs)' = 1 - q
    <3>1. Parity(p) \in {0, 1} /\ Parity(p + 1) = 1 - Parity(p)
      BY <2>5, ParityIs
    <3>2. Parity(p)' = Parity(p) /\ Parity(runs)' = Parity(runs)
      BY <1>2 DEF Parity
    <3> QED
      BY <2>8, <3>1, <3>2
  <2>11. /\ count = p
         /\ left(a) >= 4 => level = q
         /\ left(a) \in {3, 4} => reg[a][1] = 1 - q
         /\ left(a) <= 3 => level = 1 - q
         /\ left(a) <= 2 /\ "led" \in lines => led = level
         /\ left(a) = 1 => reg[a][1] = count
    <3>1. left(a) > 0
      BY <1>2, <2>3
    <3> QED
      BY <1>1, <1>4, <2>1, <2>8, <2>10, <3>1 DEF Alone
  <2>12. /\ left(a) = 5 => reg'[a][1] = 1 - level /\ level' = level /\ led' = led /\ count' = count
         /\ left(a) = 4 => reg' = reg /\ level' = reg[a][1] /\ led' = led /\ count' = count
         /\ left(a) = 3 => /\ reg' = reg /\ level' = level /\ count' = count
                           /\ "led" \in lines => led' \in {reg[a][1], level}
         /\ left(a) = 2 => reg'[a][1] = count /\ level' = level /\ led' = led /\ count' = count
         /\ left(a) = 1 => count' = reg[a][1] + 1 /\ level' = level /\ led' = led
         /\ left(a) \in 1 .. 5
    <3>1. CASE left(a) = 5 /\ reg' = [reg EXCEPT ![a][1] = 1 - level] /\ UNCHANGED <<count, level, led>>
      BY <2>3, <2>5, <3>1 DEF Time
    <3>2. CASE left(a) = 2 /\ reg' = [reg EXCEPT ![a][1] = count] /\ UNCHANGED <<count, level, led>>
      BY <2>3, <2>5, <3>2 DEF Time
    <3> QED
      BY <2>1, <3>1, <3>2 DEF SwStep
  <2>13. count' = Past'
    BY <2>3, <2>5, <2>9, <2>11, <2>12
  <2>14. left(a)' = 0 => level' = 1 - q /\ ("led" \in lines => led' = level')
    BY <1>2, <2>3, <2>11, <2>12
  <2>15. left(a)' > 0 => /\ left(a)' >= 4 => level' = q
                         /\ left(a)' \in {3, 4} => reg'[a][1] = 1 - q
                         /\ left(a)' <= 3 => level' = 1 - q
                         /\ left(a)' <= 2 /\ "led" \in lines => led' = level'
                         /\ left(a)' = 1 => reg'[a][1] = count'
    BY <1>2, <2>3, <2>10, <2>11, <2>12
  <2>16. left(a)' > 0 => Parity(Past)' = q
    <3>1. left(a)' > 0 => Past' = p
      BY <1>2, <2>3, <2>9
    <3> QED
      BY <2>10, <3>1 DEF Parity
  <2> QED
    BY <1>2, <1>4, <2>1, <2>2, <2>4, <2>7, <2>10, <2>13, <2>14, <2>15, <2>16 DEF Alone
<1> QED
  BY <1>3, <1>4

LEMMA StepTypes ==
    ASSUME LoadTypes, HInv, NEW a \in Handlers, Step(a)
    PROVE  HandlerTypes'
<1>1. mod \in Modules /\ HandlerTypes /\ Steps /\ SwCounts /\ ThreadCounts /\ Woken
  BY DEF LoadTypes, HInv
<1>2. /\ a \in active /\ left(a) \in Nat \ {0} /\ rest' \in [Calls -> Seq(Instructions)]
      /\ UNCHANGED <<loadVars, timeouts, start, irqs, runs, overlap, begun, served>>
      /\ HardStep(a) \/ ThreadStep(a) \/ SwStep(a)
  BY <1>1, StepIs
<1>3. /\ MaxIrqs \in Nat /\ irqs \in 0 .. MaxIrqs /\ runs \in 0 .. MaxIrqs /\ count \in 0 .. MaxIrqs
      /\ level \in {0, 1} /\ led \in {0, 1} /\ irq_time \in Time /\ reg \in [Handlers -> Time]
      /\ irq_time[1] \in 0 .. MaxIrqs /\ irq_time[2] \in 0 .. MaxIrqs /\ reg[a] \in Time
      /\ reg[a][1] \in 0 .. MaxIrqs
  BY <1>1, LoadAssumption DEF HandlerTypes, Time
<1> DEFINE Good == /\ {level', led'} \subseteq {0, 1} /\ irq_time' \in Time
                   /\ reg' \in [Handlers -> Time] /\ count' \in 0 .. MaxIrqs
<1>4. \A x \in 0 .. MaxIrqs : /\ [reg EXCEPT ![a][1] = x] \in [Handlers -> Time]
                             /\ [reg EXCEPT ![a][2] = x] \in [Handlers -> Time]
  BY <1>3 DEF Time
<1>5. ASSUME HardStep(a) PROVE Good
  BY <1>3, <1>5 DEF HardStep, Time
<1>6. ASSUME ThreadStep(a) PROVE Good
  <2>1. left(a) = 3 => count + 1 \in 0 .. MaxIrqs
    BY <1>1, <1>3, <1>6 DEF ThreadStep, ThreadCounts
  <2>2. irq_time' \in Time /\ count' \in 0 .. MaxIrqs /\ {level', led'} \subseteq {0, 1}
    BY <1>3, <1>6, <2>1 DEF ThreadStep
  <2>3. \/ reg' = [reg EXCEPT ![a][1] = irq_time[1]]
        \/ reg' = [reg EXCEPT ![a][2] = irq_time[2]]
        \/ reg' = reg
    BY <1>6 DEF ThreadStep
  <2>4. reg' \in [Handlers -> Time]
    BY <1>3, <1>4, <2>3, Zenon
  <2> QED
    BY <2>2, <2>4
<1>7. ASSUME SwStep(a) PROVE Good
  <2>1. a \in {"hard", "store"} /\ mod = "virt-int"
    BY <1>7 DEF SwStep
  <2>2. /\ left(a) \in {3, 4} => reg[a][1] \in {0, 1}
        /\ left(a) = 1 => reg[a][1] <= Past
    BY <1>1, <2>1 DEF SwCounts
  <2>3. PICK b \in {"hard", "store"} : b # a
    OBVIOUS
  <2>4. Past = runs - Mid(a) - Mid(b) /\ Past \in Nat /\ Mid(a) = 1 /\ Mid(b) \in {0, 1}
    BY <1>1, <1>2, <1>3, <2>1, <2>3, AloneIs, MidIs
  <2>5. runs >= 1 /\ Past + 1 <= runs
    BY <1>3, <2>4
  <2>6. left(a) = 1 => reg[a][1] + 1 \in 0 .. MaxIrqs
    BY <1>3, <2>2, <2>4, <2>5
  <2>7. 1 - level \in 0 .. MaxIrqs
    BY <1>3, <2>5
  <2> QED
    BY <1>3, <1>4, <1>7, <2>2, <2>6, <2>7 DEF SwStep
<1>8. Good
  BY <1>2, <1>5, <1>6, <1>7
<1> QED
  BY <1>1, <1>2, <1>8 DEF HandlerTypes, loadVars

(* The handlers' steps. *)
LEMMA HandlersStep ==
    ASSUME LoadTypes, HInv, NEW a \in Handlers, Step(a)
    PROVE  HInv'
BY StepTypes, StepSteps, StepStamped, StepThreadCounts, StepSwCounts, StepAlone DEF HInv

(* What is held was before what is still to do. *)
LEMMA NotYet ==
    ASSUME LInv, pc = "init"
    PROVE  /\ "led" \in ToSet(todo) => held \cap {"irq", "file", "timer", "device"} = {}
           /\ "timer" \in ToSet(todo) => "timer" \notin held
<1>1. LoadTypes /\ Loading /\ mod \in Modules
  BY DEF LInv, LoadTypes
<1>2. /\ Len(Plan(mod)) \in Nat /\ DOMAIN Plan(mod) = 1 .. Len(Plan(mod)) /\ IsInjective(Plan(mod))
      /\ Len(todo) \in Nat /\ DOMAIN todo = 1 .. Len(todo) /\ todo \in Seq(Resources)
  BY <1>1, PlanParts, LenProperties DEF LoadTypes
<1>3. ASSUME NEW x, x \in ToSet(todo), NEW y \in held
      PROVE  \E i, j \in DOMAIN Plan(mod) : j < i /\ Plan(mod)[i] = x /\ Plan(mod)[j] = y
  <2>1. PICK i \in 1 .. Len(todo) : todo[i] = x
    BY <1>2, <1>3 DEF ToSet
  <2>2. todo # <<>>
    BY <1>2, <2>1, EmptySeq
  <2>3. PICK k \in 0 .. Len(Plan(mod)) - 1 : PlanAt(k)
    BY <1>1, <2>2 DEF Loading
  <2>4. Len(todo) = Len(Plan(mod)) - k /\ todo[i] = Plan(mod)[i + k]
    BY <2>1, <2>3 DEF PlanAt
  <2>5. PICK j \in 1 .. k : Plan(mod)[j] = y
    BY <1>3, <2>3 DEF PlanAt
  <2>6. PICK m, n \in Nat : m = Len(Plan(mod)) /\ n = Len(todo) /\ n = m - k /\ k < m
    BY <1>2, <2>3, <2>4
  <2>7. i + k \in 1 .. m /\ j \in 1 .. m /\ j < i + k
    BY <2>1, <2>5, <2>6
  <2> QED
    BY <1>2, <2>1, <2>4, <2>5, <2>6, <2>7
<1>4. ASSUME "led" \in ToSet(todo), NEW y \in held, y \in {"irq", "file", "timer", "device"} PROVE FALSE
  <2>1. PICK i, j \in DOMAIN Plan(mod) : j < i /\ Plan(mod)[i] = "led" /\ Plan(mod)[j] = y
    BY <1>3, <1>4
  <2>2. i < j
    BY <1>1, <1>4, <2>1, LedFirst
  <2> QED
    BY <1>2, <2>1, <2>2
<1>5. ASSUME "timer" \in ToSet(todo), "timer" \in held PROVE FALSE
  <2>1. PICK i, j \in DOMAIN Plan(mod) : j < i /\ Plan(mod)[i] = "timer" /\ Plan(mod)[j] = "timer"
    BY <1>3, <1>5
  <2> QED
    BY <1>2, <2>1 DEF IsInjective
<1> QED
  BY <1>4, <1>5

(* A step that is none of a call's: what is loaded and the LED may change. *)
LEMMA Quiet ==
    ASSUME LoadTypes, HInv, UNCHANGED <<Masked, mod, active, rest, timeouts, dataVars>>,
           made' \in {{}, {"sw"}, {"sw", "led"}}, IsInjective(todo)', led' \in {0, 1},
           pending' \subseteq pending \/ (pending' = {"callback"} /\ timeouts > 0),
           pc' = "init" /\ "timer" \in ToSet(todo') => timeouts = 10,
           pc' = "init" /\ "led" \in ToSet(todo') =>
               runs = 0 /\ irqs = 0 /\ active = {} /\ pending' = {},
           mod = "gpio-sim-int" /\ pc' # "out" /\ (irqs > 0 \/ "irq" \in held')
               /\ left("thread") # 1 => led' = level,
           mod = "virt-int" /\ ~overlap =>
               /\ left("hard") = 0 /\ left("store") = 0 /\ pc' # "out" /\ "led" \in lines' /\ runs > 0
                      => led' = level
               /\ \A a \in {"hard", "store"} :
                      left(a) > 0 /\ left(a) <= 2 /\ "led" \in lines' => led' = level
    PROVE  HInv'
<1>1. HandlerTypes /\ Steps /\ Woken /\ Stamped /\ ThreadCounts /\ SwCounts /\ Alone
  BY DEF HInv
<1>2. /\ UNCHANGED <<level, count, irq_time, reg, start, irqs, runs, overlap, begun, served>>
      /\ UNCHANGED <<Masked, mod, active, rest, timeouts>>
      /\ \A a : left(a)' = left(a)
  BY DEF dataVars, left
<1>3. HandlerTypes' /\ Steps'
  BY <1>1, <1>2 DEF HandlerTypes, Steps
<1>4. Woken'
  BY <1>1, <1>2 DEF Woken, HandlerTypes
<1>5. Stamped'
  BY <1>1, <1>2 DEF Stamped, LastIrq
<1>6. ThreadCounts'
  BY <1>1, <1>2 DEF ThreadCounts, Parity
<1>7. Past' = Past
  BY <1>2 DEF Past, Mid
<1>8. SwCounts'
  BY <1>1, <1>2, <1>7 DEF SwCounts
<1>9. \A n : Parity(n)' = Parity(n)
  BY <1>2 DEF Parity
<1>10. Alone'
  BY <1>1, <1>2, <1>7, <1>9 DEF Alone
<1> QED
  BY <1>3, <1>4, <1>5, <1>6, <1>8, <1>10 DEF HInv

LEMMA TailInjective ==
    ASSUME NEW S, NEW s \in Seq(S), s # <<>>, IsInjective(s)
    PROVE  IsInjective(Tail(s)) /\ ToSet(Tail(s)) \subseteq ToSet(s)
<1>1. /\ DOMAIN s = 1 .. Len(s) /\ DOMAIN Tail(s) = 1 .. Len(s) - 1 /\ Len(s) \in Nat \ {0}
      /\ \A i \in DOMAIN Tail(s) : i + 1 \in DOMAIN s /\ Tail(s)[i] = s[i + 1]
  BY TailParts
<1>2. ASSUME NEW i \in DOMAIN Tail(s), NEW j \in DOMAIN Tail(s), Tail(s)[i] = Tail(s)[j]
      PROVE  i = j
  <2>1. s[i + 1] = s[j + 1] /\ i + 1 \in DOMAIN s /\ j + 1 \in DOMAIN s
    BY <1>1, <1>2
  <2>2. i + 1 = j + 1
    BY <2>1 DEF IsInjective
  <2> QED
    BY <1>1, <2>2
<1> QED
  BY <1>1, <1>2 DEF IsInjective, ToSet

(* No handler runs when a driver is gone. *)
LEMMA Still ==
    ASSUME IInv, active = {}
    PROVE  /\ rest = [a \in Calls |-> <<>>]
           /\ \A a \in Calls : left(a) = 0
<1>1. HandlerTypes /\ Steps /\ mod \in Modules
  BY DEF IInv, LInv, LoadTypes, HInv
<1>2. \A a \in Calls : rest[a] = <<>>
  BY <1>1 DEF Steps
<1>3. \A a \in Calls : left(a) = 0
  BY <1>1, <1>2, LeftIs
<1> QED
  BY <1>1, <1>2, <1>3 DEF HandlerTypes

LEMMA GoneIs == LInv /\ pc = "out" => active = {} /\ pending = {}
BY DEF LInv, Called, Running

(* A step of loading or unloading, that leaves the LED alone. *)
LEMMA QuietLed ==
    ASSUME IInv, UNCHANGED <<Masked, mod, active, rest, timeouts, dataVars, lines, led>>,
           made' \in {{}, {"sw"}, {"sw", "led"}}, IsInjective(todo)', pending' \subseteq pending, held' \subseteq held,
           pc' = "init" => pc = "init" /\ ToSet(todo') \subseteq ToSet(todo),
           pc' # "out" => pc # "out"
    PROVE  HInv'
<1>1. LoadTypes /\ HInv
  BY DEF IInv, LInv
<1>2. HandlerTypes /\ Woken /\ ThreadCounts /\ Alone
  BY <1>1 DEF HInv
<1>3. led' \in {0, 1}
  BY <1>2 DEF HandlerTypes
<1>4. pc' = "init" /\ "timer" \in ToSet(todo') => timeouts = 10
  BY <1>2 DEF Woken
<1>5. pc' = "init" /\ "led" \in ToSet(todo') =>
          runs = 0 /\ irqs = 0 /\ active = {} /\ pending' = {}
  BY <1>2 DEF Woken
<1>6. mod = "gpio-sim-int" /\ pc' # "out" /\ (irqs > 0 \/ "irq" \in held')
         /\ left("thread") # 1 => led' = level
  BY <1>2 DEF ThreadCounts
<1>7. mod = "virt-int" /\ ~overlap =>
          /\ left("hard") = 0 /\ left("store") = 0 /\ pc' # "out" /\ "led" \in lines' /\ runs > 0
                 => led' = level
          /\ \A a \in {"hard", "store"} :
                 left(a) > 0 /\ left(a) <= 2 /\ "led" \in lines' => led' = level
  BY <1>2 DEF Alone
<1> QED
  BY <1>1, <1>3, <1>4, <1>5, <1>6, <1>7, Quiet

LEMMA HandlersTearDown ==
    ASSUME IInv, TearDown
    PROVE  HInv'
<1>1. LoadTypes /\ HInv /\ HandlerTypes
  BY DEF IInv, LInv, HInv
<1>2. /\ pc = "out" /\ pc' = pc /\ made' = {} /\ led' = 0
      /\ UNCHANGED <<Masked, mod, active, rest, timeouts, dataVars, todo, pending>>
  BY DEF TearDown, callVars
<1>3. active = {} /\ \A a \in Calls : left(a) = 0
  BY <1>2, GoneIs, Still DEF IInv
<1>4. "hard" \in Calls /\ "store" \in Calls
  BY DEF Calls
<1>5. IsInjective(todo)'
  BY <1>1, <1>2 DEF HandlerTypes
<1>6. \A a \in {"hard", "store"} : ~(left(a) > 0)
  BY <1>3, <1>4
<1> QED
  BY <1>1, <1>2, <1>5, <1>6, Quiet

LEMMA HandlersGet ==
    ASSUME IInv, Acquire, Get(Head(todo))
    PROVE  HInv'
<1> DEFINE r == Head(todo)
<1>1. LInv /\ LoadTypes /\ Called /\ HInv /\ HandlerTypes /\ Woken /\ ThreadCounts /\ Alone
  BY DEF IInv, LInv, HInv
<1>2. /\ pc = "init" /\ todo # <<>> /\ todo' = Tail(todo) /\ pc' = pc
      /\ held' = held \cup {r} /\ lines' = lines \cup ({r} \cap {"led", "sw"})
      /\ pending' = (IF r = "timer" THEN {"callback"} ELSE pending)
      /\ LedAcquired(r)
      /\ UNCHANGED <<Masked, made, mod, active, rest, timeouts, dataVars>>
  BY DEF Acquire, Get
<1>3. todo \in Seq(Resources) /\ r \in ToSet(todo)
  <2>1. todo \in Seq(Resources)
    BY <1>1 DEF LoadTypes
  <2>2. r = todo[1] /\ 1 \in DOMAIN todo
    BY <1>2, <2>1, TailParts
  <2> QED
    BY <2>1, <2>2 DEF ToSet
<1>4. IsInjective(todo)' /\ ToSet(todo') \subseteq ToSet(todo)
  BY <1>1, <1>2, <1>3, TailInjective DEF HandlerTypes
<1>5. "led" \in ToSet(todo) => /\ runs = 0 /\ irqs = 0 /\ active = {} /\ pending = {}
                               /\ "irq" \notin held
  BY <1>1, <1>2, NotYet DEF Woken
<1>6. r = "timer" => timeouts = 10
  BY <1>1, <1>2, <1>3 DEF Woken
<1>7. "led" \in ToSet(todo') => r # "timer"
  <2>1. ASSUME "led" \in ToSet(todo'), r = "timer" PROVE FALSE
    <3>1. LInv' /\ pc' = "init"
      BY <1>1, <1>2, LoadAcquire
    <3>2. "timer" \in held'
      BY <1>2, <2>1
    <3>3. pc' = "init" => ("led" \in ToSet(todo') => held' \cap {"irq", "file", "timer", "device"} = {})
      <4>1. (LInv /\ pc = "init" => ("led" \in ToSet(todo) => held \cap {"irq", "file", "timer", "device"} = {}))'
        BY NotYet, PTL
      <4> QED
        BY <3>1, <4>1
    <3> QED
      BY <2>1, <3>1, <3>2, <3>3
  <2> QED
    BY <2>1
<1> HIDE DEF r
<1>8. led' \in {0, 1}
  BY <1>1, <1>2 DEF LedAcquired, HandlerTypes
<1>9. pending' \subseteq pending \/ (pending' = {"callback"} /\ timeouts > 0)
  BY <1>2, <1>6
<1>10. mod = "gpio-sim-int" /\ pc' # "out" /\ (irqs > 0 \/ "irq" \in held')
         /\ left("thread") # 1 => led' = level
  <2>1. CASE r = "led"
    BY <1>2, <1>3, <1>5, <2>1
  <2>2. CASE r = "irq"
    BY <1>2, <2>2 DEF LedAcquired
  <2>3. CASE r \notin {"irq", "led"}
    BY <1>1, <1>2, <2>3 DEF LedAcquired, ThreadCounts
  <2> QED
    BY <2>1, <2>2, <2>3
<1>11. mod = "virt-int" /\ ~overlap =>
          /\ left("hard") = 0 /\ left("store") = 0 /\ pc' # "out" /\ "led" \in lines' /\ runs > 0
                 => led' = level
          /\ \A a \in {"hard", "store"} :
                 left(a) > 0 /\ left(a) <= 2 /\ "led" \in lines' => led' = level
  <2>1. CASE r = "led"
    <3>1. runs = 0 /\ active = {}
      BY <1>3, <1>5, <2>1
    <3>2. \A a \in {"hard", "store"} : left(a) = 0
      BY <3>1, Still DEF Calls
    <3> QED
      BY <3>1, <3>2
  <2>2. CASE r # "led"
    BY <1>1, <1>2, <2>2 DEF LedAcquired, Alone
  <2> QED
    BY <2>1, <2>2
<1>12. made' \in {{}, {"sw"}, {"sw", "led"}}
  BY <1>1, <1>2 DEF HandlerTypes
<1>13. pc' = "init" /\ "timer" \in ToSet(todo') => timeouts = 10
  BY <1>1, <1>2, <1>4 DEF Woken
<1>14. pc' = "init" /\ "led" \in ToSet(todo') =>
           runs = 0 /\ irqs = 0 /\ active = {} /\ pending' = {}
  BY <1>2, <1>4, <1>5, <1>7
<1> QED
  BY <1>1, <1>2, <1>4, <1>8, <1>9, <1>10, <1>11, <1>12, <1>13, <1>14, Quiet

LEMMA HandlersAcquire ==
    ASSUME IInv, Acquire
    PROVE  HInv'
<1>1. LInv /\ LoadTypes /\ HInv /\ HandlerTypes /\ Woken /\ ThreadCounts /\ Alone
  BY DEF IInv, LInv, HInv
<1>2. /\ pc = "init" /\ todo # <<>> /\ todo \in Seq(Resources)
      /\ UNCHANGED <<Masked, made, mod, active, rest, timeouts, dataVars>>
      /\ Get(Head(todo)) \/ GoWithout(Head(todo)) \/ Fail(Head(todo))
  BY <1>1 DEF Acquire, LoadTypes
<1>3. CASE Get(Head(todo))
  BY <1>3, HandlersGet
<1>4. CASE GoWithout(Head(todo))
  <2>1. /\ todo' = (IF mod = "virt-int" THEN Tail(todo) ELSE <<>>)
        /\ UNCHANGED <<pc, held, lines, pending, led>>
        /\ made' \in {{}, {"sw"}, {"sw", "led"}}
    BY <1>1, <1>2, <1>4 DEF GoWithout, AfterMissing, HandlerTypes
  <2>2. IsInjective(todo)' /\ ToSet(todo') \subseteq ToSet(todo)
    <3>1. IsInjective(<<>>) /\ ToSet(<<>>) = {}
      BY DEF IsInjective, ToSet
    <3> QED
      BY <1>1, <1>2, <2>1, <3>1, TailInjective DEF HandlerTypes
  <2> QED
    BY <1>2, <2>1, <2>2, QuietLed
<1>5. CASE Fail(Head(todo))
  <2>1. /\ todo' = Unwind(mod, Head(todo)) /\ pc' \in {"undo", "exit"}
        /\ UNCHANGED <<held, lines, pending>>
        /\ led' = led \/ (mod = "gpio-sim-int" /\ led' \in {led, level})
    BY <1>5 DEF Fail
  <2>2. IsInjective(todo)'
    BY <2>1, UnwindTypes
  <2>3. led' \in {0, 1} /\ made' \in {{}, {"sw"}, {"sw", "led"}}
    BY <1>1, <1>2, <2>1 DEF HandlerTypes
  <2>4. mod = "gpio-sim-int" /\ pc' # "out" /\ (irqs > 0 \/ "irq" \in held')
           /\ left("thread") # 1 => led' = level
    BY <1>1, <1>2, <2>1 DEF ThreadCounts
  <2>5. mod = "virt-int" /\ ~overlap =>
            /\ left("hard") = 0 /\ left("store") = 0 /\ pc' # "out" /\ "led" \in lines' /\ runs > 0
                   => led' = level
            /\ \A a \in {"hard", "store"} :
                   left(a) > 0 /\ left(a) <= 2 /\ "led" \in lines' => led' = level
    BY <1>1, <1>2, <2>1 DEF Alone
  <2> QED
    BY <1>1, <1>2, <2>1, <2>2, <2>3, <2>4, <2>5, Quiet
<1> QED
  BY <1>2, <1>3, <1>4, <1>5

LEMMA HandlersInsmod ==
    ASSUME IInv, NEW m \in Modules, NEW v \in {0, 1}, Insmod(m, v)
    PROVE  HInv'
<1>1. HInv /\ HandlerTypes /\ LInv /\ LoadTypes
  BY DEF IInv, HInv, LInv
<1>2. /\ pc = "out" /\ mod' = m /\ todo' = Plan(m) /\ held' = {} /\ lines' = {} /\ timeouts' = 10
      /\ level' = v /\ start' = v /\ count' = 0 /\ irq_time' = <<0, 0>>
      /\ reg' = [a \in Handlers |-> <<0, 0>>] /\ irqs' = 0 /\ runs' = 0 /\ overlap' = FALSE
      /\ begun' = 0 /\ served' = 0 /\ UNCHANGED <<Masked, made, active, rest, pending, led>>
  BY DEF Insmod, Fresh
<1>3. /\ active = {} /\ pending = {} /\ \A a \in Calls : rest[a] = <<>> /\ left(a) = 0
  BY <1>1, <1>2, GoneIs, Still
<1>4. MaxIrqs \in Nat /\ {"hard", "store", "thread"} \subseteq Calls
  BY LoadAssumption DEF Calls
<1>5. IsInjective(todo)'
  BY <1>2, PlanParts
<1>6. HandlerTypes'
  <2>1. <<0, 0>> \in Time /\ 0 \in 0 .. MaxIrqs
    BY <1>4 DEF Time
  <2>2. reg' \in [Handlers -> Time] /\ irq_time' \in Time
    BY <1>2, <2>1
  <2>3. {level', led', start'} \subseteq {0, 1} /\ timeouts' \in 0 .. 10
    BY <1>1, <1>2 DEF HandlerTypes
  <2>4. {count', irqs', runs', begun', served'} \subseteq 0 .. MaxIrqs
    BY <1>2, <2>1
  <2>5. /\ Masked' \in BOOLEAN /\ made' \in {{}, {"sw"}, {"sw", "led"}}
        /\ rest' \in [Calls -> Seq(Instructions)] /\ overlap' \in BOOLEAN
    BY <1>1, <1>2 DEF HandlerTypes
  <2> QED
    BY <1>5, <2>2, <2>3, <2>4, <2>5 DEF HandlerTypes
<1>7. Steps'
  BY <1>2, <1>3 DEF Steps
<1>8. Woken'
  BY <1>2, <1>3 DEF Woken
<1>9. left("hard")' = 0 /\ left("store")' = 0 /\ left("thread")' = 0
  BY <1>2, <1>3, <1>4 DEF left
<1>10. Stamped'
  BY <1>2, <1>3, <1>9 DEF Stamped, LastIrq
<1>11. Parity(0)' = v
  BY <1>2 DEF Parity
<1>12. ThreadCounts'
  BY <1>2, <1>9, <1>11 DEF ThreadCounts
<1>13. Past' = 0
  BY <1>2, <1>9 DEF Past, Mid
<1>14. SwCounts' /\ Alone'
  <2>1. \A a \in {"hard", "store"} : left(a)' = 0
    BY <1>9
  <2> QED
    BY <1>2, <1>3, <1>9, <1>11, <1>13, <2>1 DEF SwCounts, Alone
<1> QED
  BY <1>6, <1>7, <1>8, <1>10, <1>12, <1>14 DEF HInv

LEMMA HandlersUnload ==
    ASSUME IInv, Setup \/ RmmodRefused \/ UNCHANGED vars \/ Loaded \/ Rmmod \/ Release \/ Released
    PROVE  HInv'
<1>1. LoadTypes /\ HandlerTypes
  BY DEF IInv, LInv, HInv
<1>2. /\ UNCHANGED <<Masked, mod, active, rest, timeouts, dataVars, lines, led>>
      /\ made' \in {{}, {"sw"}, {"sw", "led"}} /\ pending' \subseteq pending /\ held' \subseteq held
      /\ pc' = "init" => pc = "init" /\ todo' = todo
      /\ pc' # "out" => pc # "out"
  BY <1>1 DEF Setup, RmmodRefused, vars, Loaded, Rmmod, Release, Released, loadVars, callVars, HandlerTypes
<1>3. \/ todo' = todo
      \/ todo' = ExitOrder(mod)
      \/ todo # <<>> /\ todo' = Tail(todo)
  BY DEF Setup, RmmodRefused, vars, Loaded, Rmmod, Release, Released, loadVars
<1>4. IsInjective(todo)'
  BY <1>1, <1>3, ExitTypes, TailInjective DEF HandlerTypes, LoadTypes
<1> QED
  BY <1>2, <1>4, QuietLed

LEMMA Begun ==
    ASSUME IInv, NEW a \in Calls, Begin(a), mod' = mod
    PROVE  /\ Steps' /\ rest' \in [Calls -> Seq(Instructions)] /\ a \notin active
           /\ left(a) = 0 /\ left(a)' = Len(Body(mod, a))
           /\ \A b \in Calls : b # a => left(b)' = left(b)
<1>1. HandlerTypes /\ Steps /\ mod \in Modules
  BY DEF IInv, LInv, LoadTypes, HInv
<1>2. /\ a \notin active /\ active' = active \cup {a} /\ rest' = [rest EXCEPT ![a] = Body(mod, a)]
      /\ rest \in [Calls -> Seq(Instructions)]
  BY <1>1 DEF Begin, HandlerTypes
<1>3. Body(mod, a) \in Seq(Instructions) /\ Len(Body(mod, a)) \in Nat
  BY <1>1, BodyIs
<1>4. /\ rest' \in [Calls -> Seq(Instructions)] /\ rest'[a] = Body(mod, a)
      /\ \A b \in Calls : b # a => rest'[b] = rest[b]
  BY <1>2, <1>3
<1>5. Ending(Body(mod, a), Body(mod, a))
  <2>1. PICK n \in Nat : n = Len(Body(mod, a))
    BY <1>3
  <2>2. n <= n /\ \A i \in 1 .. n : i + (n - n) = i
    OBVIOUS
  <2> QED
    BY <1>3, <2>1, <2>2 DEF Ending
<1>6. ASSUME NEW b \in Calls
      PROVE  IF b \in active' THEN Ending(rest'[b], Body(mod', b)) ELSE rest'[b] = <<>>
  BY <1>1, <1>2, <1>4, <1>5 DEF Steps
<1>7. left(a) = 0
  BY <1>1, <1>2, LeftIs
<1> QED
  BY <1>2, <1>4, <1>6, <1>7 DEF Steps, left

LEMMA Ended ==
    ASSUME IInv, NEW a \in Calls, End(a), mod' = mod
    PROVE  /\ Steps' /\ rest' = rest /\ a \in active /\ active' = active \ {a}
           /\ left(a) = 0 /\ \A b : left(b)' = left(b)
<1>1. HandlerTypes /\ Steps /\ mod \in Modules
  BY DEF IInv, LInv, LoadTypes, HInv
<1>2. a \in active /\ active' = active \ {a} /\ rest[a] = <<>> /\ rest' = rest
  BY DEF End
<1>3. Steps'
  BY <1>1, <1>2 DEF Steps
<1>4. left(a) = 0
  BY <1>1, <1>2, LeftIs
<1> QED
  BY <1>2, <1>3, <1>4 DEF left

(* A call that changes none of what the handlers' invariants are about. *)
LEMMA QuietCall ==
    ASSUME IInv, Steps', rest' \in [Calls -> Seq(Instructions)],
           UNCHANGED <<loadVars, pc, led, dataVars>>,
           \A a \in {"hard", "thread", "store"} : left(a)' = left(a),
           \A a \in {"hard", "thread"} : a \in active' <=> a \in active,
           mod = "virt-int" => ("store" \in active' => "store" \in active),
           pending' \subseteq pending \/ (pending' = {"callback"} /\ timeouts' > 0),
           "callback" \in pending' => timeouts' > 0,
           timeouts' \in 0 .. 10,
           pc = "init" /\ "timer" \in ToSet(todo) => timeouts' = 10,
           pc = "init" => "led" \notin ToSet(todo)
    PROVE  HInv'
<1>1. HandlerTypes /\ Steps /\ Woken /\ Stamped /\ ThreadCounts /\ SwCounts /\ Alone
  BY DEF IInv, HInv
<1>2. /\ UNCHANGED <<level, count, irq_time, reg, start, irqs, runs, overlap, begun, served>>
      /\ UNCHANGED <<Masked, made, mod, pc, todo, held, lines, led>>
  BY DEF dataVars, loadVars
<1>3. HandlerTypes'
  BY <1>1, <1>2 DEF HandlerTypes
<1>4. Woken'
  BY <1>1, <1>2 DEF Woken, HandlerTypes
<1>5. Stamped'
  BY <1>1, <1>2 DEF Stamped, LastIrq
<1>6. ThreadCounts'
  BY <1>1, <1>2 DEF ThreadCounts, Parity
<1>7. Past' = Past
  BY <1>2 DEF Past, Mid
<1>8. SwCounts'
  BY <1>1, <1>2, <1>7 DEF SwCounts
<1>9. \A n : Parity(n)' = Parity(n)
  BY <1>2 DEF Parity
<1>10. Alone'
  BY <1>1, <1>2, <1>7, <1>9 DEF Alone
<1> QED
  BY <1>3, <1>4, <1>5, <1>6, <1>8, <1>10 DEF HInv

(* Nothing is called before the LED's line is there. *)
LEMMA LineIsThere ==
    ASSUME IInv, \/ held \cap {"irq", "file", "timer", "device"} # {}
                 \/ active # {} \/ pending # {}
    PROVE  pc = "init" => "led" \notin ToSet(todo)
BY NotYet DEF IInv, HInv, Woken

LEMMA HandlersOther ==
    ASSUME IInv, Open \/ Close \/ Store \/ CountRead
    PROVE  HInv'
<1>1. LoadTypes /\ HandlerTypes /\ Woken /\ mod \in Modules
  BY DEF IInv, LInv, LoadTypes, HInv
<1>2. UNCHANGED <<loadVars, pc, led, dataVars>> /\ UNCHANGED <<mod, pending, timeouts, pc>>
  BY DEF Open, Close, Store, CountRead, loadVars
<1>3. \E a \in {"open", "store", "show"} :
         /\ (a = "open" /\ "device" \in held) \/ "file" \in held \/ active # {}
         /\ a = "store" => mod = "sysfs"
         /\ Begin(a) \/ End(a)
  BY DEF Open, Close, Store, CountRead, End
<1>4. PICK a \in {"open", "store", "show"} :
         /\ (a = "open" /\ "device" \in held) \/ "file" \in held \/ active # {}
         /\ a = "store" => mod = "sysfs"
         /\ Begin(a) \/ End(a)
  BY <1>3
<1>5. pc = "init" => "led" \notin ToSet(todo)
  BY <1>4, LineIsThere
<1>6. /\ "callback" \in pending => timeouts > 0
      /\ timeouts \in 0 .. 10
      /\ pc = "init" /\ "timer" \in ToSet(todo) => timeouts = 10
  BY <1>1 DEF Woken, HandlerTypes
<1>7. a \in Calls /\ {"hard", "thread", "store"} \subseteq Calls
  BY DEF Calls
<1>8. CASE Begin(a)
  <2>1. /\ Steps' /\ rest' \in [Calls -> Seq(Instructions)]
        /\ left(a) = 0 /\ left(a)' = Len(Body(mod, a))
        /\ \A b \in Calls : b # a => left(b)' = left(b)
    BY <1>2, <1>7, <1>8, Begun
  <2>2. active' = active \cup {a}
    BY <1>8 DEF Begin
  <2>3. Len(Body(mod, a)) = 0
    <3>1. ~(mod = "gpio-sim-int" /\ a \in {"hard", "thread"}) /\ ~(mod = "virt-int" /\ a \in {"hard", "store"})
      BY <1>4
    <3> QED
      BY <1>1, <1>7, <3>1, BodyIs
  <2>4. \A b \in {"hard", "thread", "store"} : left(b)' = left(b)
    BY <1>7, <2>1, <2>3
  <2>5. /\ \A b \in {"hard", "thread"} : b \in active' <=> b \in active
        /\ mod = "virt-int" => ("store" \in active' => "store" \in active)
    BY <1>4, <2>2
  <2> QED
    BY <1>2, <1>5, <1>6, <2>1, <2>4, <2>5, QuietCall
<1>9. CASE End(a)
  <2>1. /\ Steps' /\ rest' = rest /\ a \in active /\ active' = active \ {a}
        /\ \A b : left(b)' = left(b)
    BY <1>2, <1>7, <1>9, Ended
  <2>2. rest' \in [Calls -> Seq(Instructions)]
    BY <1>1, <2>1 DEF HandlerTypes
  <2>3. /\ \A b \in {"hard", "thread"} : b \in active' <=> b \in active
        /\ mod = "virt-int" => ("store" \in active' => "store" \in active)
    BY <2>1
  <2> QED
    BY <1>2, <1>5, <1>6, <2>1, <2>2, <2>3, QuietCall
<1> QED
  BY <1>4, <1>8, <1>9

LEMMA HandlersTimer ==
    ASSUME IInv, Timeout \/ TimeoutEnds
    PROVE  HInv'
<1>1. LoadTypes /\ HandlerTypes /\ Woken /\ mod \in Modules /\ LInv /\ Called
  BY DEF IInv, LInv, LoadTypes, HInv
<1>2. UNCHANGED <<loadVars, pc, led, dataVars>> /\ UNCHANGED <<mod, pc, todo, held>>
  BY DEF Timeout, TimeoutEnds, loadVars
<1>3. "callback" \in Calls /\ {"hard", "thread", "store"} \subseteq Calls
  BY DEF Calls
<1>4. timeouts \in 0 .. 10 /\ (pc = "init" /\ "timer" \in ToSet(todo) => timeouts = 10)
      /\ ("callback" \in pending => timeouts > 0 /\ "timer" \in held)
  BY <1>1 DEF Woken, HandlerTypes, Called
<1>5. CASE Timeout
  <2>1. "callback" \in pending /\ Begin("callback") /\ pending' = {} /\ timeouts' = timeouts - 1
        /\ active' = active \cup {"callback"}
    BY <1>5 DEF Timeout, Begin
  <2>2. /\ Steps' /\ rest' \in [Calls -> Seq(Instructions)]
        /\ \A b \in Calls : b # "callback" => left(b)' = left(b)
    BY <1>2, <1>3, <2>1, Begun
  <2>3. \A b \in {"hard", "thread", "store"} : left(b)' = left(b)
    BY <1>3, <2>2
  <2>4. timeouts' \in 0 .. 10
    BY <1>4, <2>1
  <2>5. ~(pc = "init" /\ "timer" \in ToSet(todo))
    BY <1>1, <1>4, <2>1, NotYet
  <2>6. pc = "init" => "led" \notin ToSet(todo)
    BY <2>1, LineIsThere
  <2>7. /\ \A b \in {"hard", "thread"} : b \in active' <=> b \in active
        /\ mod = "virt-int" => ("store" \in active' => "store" \in active)
        /\ pending' \subseteq pending /\ "callback" \notin pending'
    BY <2>1
  <2> QED
    BY <1>2, <2>2, <2>3, <2>4, <2>5, <2>6, <2>7, QuietCall
<1>6. CASE TimeoutEnds
  <2>1. /\ End("callback") /\ timeouts' = timeouts
        /\ pending' = (IF timeouts > 0 /\ "timer" \in held THEN {"callback"} ELSE {})
    BY <1>6 DEF TimeoutEnds
  <2>2. /\ Steps' /\ rest' = rest /\ active' = active \ {"callback"} /\ active # {}
        /\ \A b : left(b)' = left(b)
    BY <1>2, <1>3, <2>1, Ended
  <2>3. rest' \in [Calls -> Seq(Instructions)]
    BY <1>1, <2>2 DEF HandlerTypes
  <2>4. pc = "init" => "led" \notin ToSet(todo)
    BY <2>2, LineIsThere
  <2>5. /\ \A b \in {"hard", "thread"} : b \in active' <=> b \in active
        /\ mod = "virt-int" => ("store" \in active' => "store" \in active)
        /\ pending' \subseteq pending \/ (pending' = {"callback"} /\ timeouts' > 0)
        /\ "callback" \in pending' => timeouts' > 0
    BY <2>1, <2>2
  <2>6. timeouts' \in 0 .. 10 /\ (pc = "init" /\ "timer" \in ToSet(todo) => timeouts' = 10)
    BY <1>4, <2>1
  <2> QED
    BY <1>2, <2>2, <2>3, <2>4, <2>5, <2>6, QuietCall
<1> QED
  BY <1>5, <1>6

(* virt-int.c: irq_sw begins once more. *)
LEMMA SwBegins ==
    ASSUME IInv, mod = "virt-int", NEW a \in {"hard", "store"}, NEW b \in {"hard", "store"}, a # b,
           IrqSw(a, b), "irq" \in held \/ "file" \in held, irqs' \in 0 .. MaxIrqs, irqs' >= irqs,
           a = "hard" => irqs' > 0,
           UNCHANGED <<loadVars, pc, pending, timeouts, led,
                       level, count, irq_time, reg, start, begun, served>>
    PROVE  HInv'
<1>1. LoadTypes /\ HandlerTypes /\ Steps /\ Woken /\ SwCounts /\ Alone /\ mod \in Modules
  BY DEF IInv, LInv, LoadTypes, HInv
<1>2. /\ runs < MaxIrqs /\ runs' = runs + 1 /\ overlap' = (overlap \/ b \in active)
      /\ Begin(a) /\ active' = active \cup {a}
      /\ UNCHANGED <<Masked, made, mod, failed, todo, held, lines>>
  BY DEF IrqSw, Begin, loadVars
<1>3. a \in Calls /\ b \in Calls /\ {"hard", "thread", "store"} \subseteq Calls
  BY DEF Calls
<1>4. /\ Steps' /\ rest' \in [Calls -> Seq(Instructions)] /\ a \notin active
      /\ left(a) = 0 /\ left(a)' = Len(Body(mod, a))
      /\ \A c \in Calls : c # a => left(c)' = left(c)
  BY <1>2, <1>3, Begun
<1>5. left(a)' = 5 /\ left(b)' = left(b)
  BY <1>1, <1>3, <1>4, BodyIs
<1>6. pc = "init" => "led" \notin ToSet(todo)
  BY LineIsThere
<1>7. /\ MaxIrqs \in Nat /\ runs \in 0 .. MaxIrqs /\ irqs \in 0 .. MaxIrqs /\ overlap \in BOOLEAN
      /\ count \in Nat /\ start \in {0, 1} /\ level \in {0, 1}
  BY <1>1, LoadAssumption DEF HandlerTypes
<1>8. HandlerTypes'
  <2>1. runs' \in 0 .. MaxIrqs /\ overlap' \in BOOLEAN
    BY <1>2, <1>7
  <2> QED
    BY <1>1, <1>2, <1>4, <2>1 DEF HandlerTypes
<1>9. Woken'
  <2>1. mod \notin Threaded
    BY DEF Threaded
  <2>2. "hard" \in active' => irqs' > 0
    BY <1>1, <1>2, <1>7 DEF Woken
  <2> QED
    BY <1>1, <1>2, <1>6, <2>1, <2>2 DEF Woken
<1>10. Stamped' /\ ThreadCounts'
  BY <1>2 DEF Stamped, ThreadCounts
<1>11. PICK p \in Nat : /\ p = Past /\ p = runs - Mid(b) /\ Mid(b) \in {0, 1}
                        /\ (Mid(b) = 0 <=> left(b) = 0) /\ (left(b) > 0 => b \in active)
  <2>1. Past = runs - Mid(a) - Mid(b) /\ Past \in Nat
    BY <1>1, <1>7, AloneIs
  <2>2. Mid(a) \in {0, 1} /\ (Mid(a) = 0 <=> left(a) = 0) /\ Mid(b) \in {0, 1}
        /\ (Mid(b) = 0 <=> left(b) = 0) /\ (left(b) > 0 => b \in active)
    BY <1>1, MidIs
  <2> QED
    BY <1>4, <1>7, <2>1, <2>2
<1>12. Past' = p
  <2>1. Mid(a)' = 1 /\ Mid(b)' = Mid(b)
    <3>1. Mid(a)' = 1
      BY <1>5 DEF Mid
    <3>2. Mid(b)' = Mid(b)
      BY <1>5, Zenon DEF Mid
    <3> QED
      BY <3>1, <3>2
  <2>2. Past' = runs' - Mid("hard")' - Mid("store")'
    BY DEF Past
  <2>3. CASE a = "hard" /\ b = "store"
    BY <1>2, <1>7, <1>11, <2>1, <2>2, <2>3
  <2>4. CASE a = "store" /\ b = "hard"
    BY <1>2, <1>7, <1>11, <2>1, <2>2, <2>4
  <2> QED
    BY <2>3, <2>4
<1>13. {"hard", "store"} = {a, b}
  OBVIOUS
<1>14. SwCounts'
  <2>1. count' = count /\ reg' = reg
    OBVIOUS
  <2>2. Past' >= 0 /\ count' <= Past' /\ (Past' > 0 => count' > 0)
    BY <1>1, <1>11, <1>12, <2>1 DEF SwCounts
  <2>3. \A c \in {"hard", "store"} : /\ left(c)' \in {3, 4} => reg'[c][1] \in {0, 1}
                                     /\ left(c)' = 1 => reg'[c][1] <= Past'
    BY <1>1, <1>5, <1>11, <1>12, <1>13, <2>1 DEF SwCounts
  <2> QED
    BY <1>2, <2>2, <2>3 DEF SwCounts
<1>15. Alone'
  <2> SUFFICES ASSUME ~overlap' PROVE Alone'
    BY DEF Alone
  <2>1. ~overlap /\ b \notin active /\ left(b) = 0
    <3>1. ~overlap /\ b \notin active
      BY <1>2
    <3>2. left(b) = 0
      BY <1>1, <1>3, <3>1, LeftIs
    <3> QED
      BY <3>1, <3>2
  <2>2. ~({"hard", "store"} \subseteq active')
    BY <1>2, <1>13, <2>1
  <2>3. count' = Past' /\ p = runs
    BY <1>1, <1>7, <1>11, <1>12, <2>1 DEF Alone
  <2>4. left("hard") = 0 /\ left("store") = 0
    BY <1>4, <1>13, <2>1
  <2>5. level' = Parity(p)'
    BY <1>1, <2>1, <2>3, <2>4 DEF Alone, Parity
  <2> QED
    BY <1>2, <1>5, <1>12, <1>13, <2>1, <2>2, <2>3, <2>5 DEF Alone, Parity
<1> QED
  BY <1>4, <1>8, <1>9, <1>10, <1>14, <1>15 DEF HInv

LEMMA HandlersTrigger ==
    ASSUME IInv, Trigger
    PROVE  HInv'
<1>1. HandlerTypes /\ Woken /\ mod = "virt-int"
  BY DEF IInv, HInv, Trigger
<1>2. UNCHANGED <<loadVars, pc, pending, timeouts, led,
                  level, count, irq_time, reg, start, irqs, begun, served>>
  BY DEF Trigger
<1>3. CASE "file" \in held /\ IrqSw("store", "hard")
  <2>1. irqs' \in 0 .. MaxIrqs /\ irqs' >= irqs
    BY <1>1, <1>2, LoadAssumption DEF HandlerTypes
  <2> QED
    BY <1>1, <1>2, <1>3, <2>1, SwBegins
<1>4. CASE End("store") /\ UNCHANGED <<runs, overlap>>
  <2>1. mod' = mod /\ "store" \in Calls
    BY <1>2 DEF loadVars, Calls
  <2>2. /\ Steps' /\ rest' = rest /\ "store" \in active /\ active' = active \ {"store"}
        /\ \A b : left(b)' = left(b)
    BY <1>4, <2>1, Ended
  <2>3. rest' \in [Calls -> Seq(Instructions)]
    BY <1>1, <2>2 DEF HandlerTypes
  <2>4. pc = "init" => "led" \notin ToSet(todo)
    BY <2>2, LineIsThere
  <2>5. UNCHANGED <<loadVars, pc, led, dataVars>>
    BY <1>2, <1>4 DEF dataVars
  <2>6. /\ "callback" \in pending' => timeouts' > 0
        /\ timeouts' \in 0 .. 10 /\ (pc = "init" /\ "timer" \in ToSet(todo) => timeouts' = 10)
    BY <1>1, <1>2 DEF Woken, HandlerTypes
  <2>7. /\ \A b \in {"hard", "thread"} : b \in active' <=> b \in active
        /\ mod = "virt-int" => ("store" \in active' => "store" \in active)
        /\ pending' \subseteq pending
    BY <1>2, <2>2
  <2> QED
    BY <2>2, <2>3, <2>4, <2>5, <2>6, <2>7, QuietCall
<1> QED
  BY <1>3, <1>4 DEF Trigger

LEMMA HandlersHard ==
    ASSUME IInv, Hard
    PROVE  HInv'
<1>1. LInv /\ LoadTypes /\ HandlerTypes /\ Steps /\ Woken /\ Stamped /\ ThreadCounts /\ SwCounts /\ Alone
      /\ mod \in Modules
  BY DEF IInv, LInv, LoadTypes, HInv
<1>2. /\ "irq" \in held /\ irqs < MaxIrqs /\ irqs' = irqs + 1
      /\ mod = "gpio-sim-int" /\ Masked => "thread" \notin active \cup pending
      /\ UNCHANGED <<loadVars, pc, pending, timeouts, led,
                     level, count, irq_time, reg, start, begun, served>>
      /\ IF mod = "virt-int" THEN IrqSw("hard", "store")
                             ELSE Begin("hard") /\ UNCHANGED <<runs, overlap>>
  BY DEF Hard
<1>3. MaxIrqs \in Nat /\ irqs \in 0 .. MaxIrqs /\ irqs' \in 0 .. MaxIrqs /\ irqs' > 0 /\ irqs' >= irqs
  <2>1. MaxIrqs \in Nat /\ irqs \in 0 .. MaxIrqs
    BY <1>1, LoadAssumption DEF HandlerTypes
  <2> QED
    BY <1>2, <2>1
<1>4. CASE mod = "virt-int"
  BY <1>2, <1>3, <1>4, SwBegins
<1>5. CASE mod # "virt-int"
  <2>1. /\ Begin("hard") /\ active' = active \cup {"hard"} /\ UNCHANGED <<runs, overlap>>
        /\ UNCHANGED <<Masked, made, mod, failed, todo, held, lines>>
    BY <1>2, <1>5 DEF Begin, loadVars
  <2>2. {"hard", "thread", "store"} \subseteq Calls
    BY DEF Calls
  <2>3. /\ Steps' /\ rest' \in [Calls -> Seq(Instructions)] /\ "hard" \notin active
        /\ left("hard")' = Len(Body(mod, "hard")) /\ left("thread")' = left("thread")
    BY <2>1, <2>2, Begun
  <2>4. pc = "init" => "led" \notin ToSet(todo)
    BY <1>2, LineIsThere
  <2>5. HandlerTypes'
    BY <1>1, <1>2, <1>3, <2>1, <2>3 DEF HandlerTypes
  <2>6. Woken'
    <3>1. runs \in Nat
      BY <1>1 DEF HandlerTypes
    <3>2. mod \in Threaded => runs + (IF "thread" \in pending THEN 1 ELSE 0) <= irqs
      <4>1. mod \in Threaded =>
                runs + (IF "hard" \in active THEN 1 ELSE 0) + (IF "thread" \in pending THEN 1 ELSE 0)
                    <= irqs
        BY <1>1 DEF Woken
      <4> QED
        BY <2>3, <3>1, <4>1
    <3>3. mod' \in Threaded =>
              runs' + (IF "hard" \in active' THEN 1 ELSE 0) + (IF "thread" \in pending' THEN 1 ELSE 0)
                  <= irqs'
      BY <1>2, <1>3, <2>1, <3>2, <3>1
    <3>4. /\ "thread" \in active' \cup pending' => mod' \in Threaded
          /\ "thread" \in active' => runs' > 0
          /\ "callback" \in pending' => timeouts' > 0
          /\ pc' = "init" /\ "timer" \in ToSet(todo') => timeouts' = 10
      BY <1>1, <1>2, <2>1 DEF Woken
    <3> QED
      BY <1>2, <1>3, <2>1, <2>4, <3>3, <3>4 DEF Woken
  <2>7. Stamped'
    <3>1. mod = "gpio-sim-int" => left("hard")' = 2
      BY <1>1, <2>2, <2>3, BodyIs
    <3>2. left("hard") = 0 /\ begun \in Nat
      BY <1>1, <2>2, <2>3, LeftIs DEF HandlerTypes
    <3>3. "hard" \in active' /\ ("thread" \in active' <=> "thread" \in active)
      BY <2>1
    <3> QED
      BY <1>1, <1>2, <1>3, <2>1, <2>3, <3>1, <3>2, <3>3 DEF Stamped, LastIrq
  <2>8. ThreadCounts'
    <3>1. pc # "out"
      BY <1>1, <1>2 DEF LInv, Called, Kept
    <3> QED
      BY <1>1, <1>2, <2>1, <2>3, <3>1 DEF ThreadCounts, Parity
  <2>9. SwCounts' /\ Alone'
    BY <1>5, <2>1 DEF SwCounts, Alone
  <2> QED
    BY <2>3, <2>5, <2>6, <2>7, <2>8, <2>9 DEF HInv
<1> QED
  BY <1>4, <1>5

LEMMA HandlersHardEnds ==
    ASSUME IInv, HardEnds
    PROVE  HInv'
<1>1. LoadTypes /\ HandlerTypes /\ Steps /\ Woken /\ Stamped /\ ThreadCounts /\ SwCounts /\ Alone
  BY DEF IInv, LInv, HInv
<1>2. /\ End("hard") /\ pending' = (IF mod \in Threaded THEN pending \cup {"thread"} ELSE pending)
      /\ UNCHANGED <<loadVars, pc, timeouts, led, dataVars>>
  BY DEF HardEnds
<1>3. /\ UNCHANGED <<level, count, irq_time, reg, start, irqs, runs, overlap, begun, served>>
      /\ UNCHANGED <<Masked, made, mod, pc, todo, held, lines, led, timeouts>>
  BY <1>2 DEF dataVars, loadVars
<1>4. /\ Steps' /\ rest' = rest /\ "hard" \in active /\ active' = active \ {"hard"}
      /\ left("hard") = 0 /\ \A b : left(b)' = left(b)
  BY <1>2, <1>3, Ended DEF Calls
<1>5. pc = "init" => "led" \notin ToSet(todo)
  BY <1>4, LineIsThere
<1>6. HandlerTypes'
  BY <1>1, <1>3, <1>4 DEF HandlerTypes
<1>7. Woken'
  <2>1. runs \in Nat /\ irqs \in Nat
    BY <1>1 DEF HandlerTypes
  <2>2. mod \in Threaded => runs + 1 + (IF "thread" \in pending THEN 1 ELSE 0) <= irqs
    BY <1>1, <1>4 DEF Woken
  <2>3. mod' \in Threaded =>
            runs' + (IF "hard" \in active' THEN 1 ELSE 0) + (IF "thread" \in pending' THEN 1 ELSE 0)
                <= irqs'
    <3>1. "hard" \notin active' /\ runs' = runs /\ irqs' = irqs /\ mod' = mod
      BY <1>3, <1>4
    <3> QED
      BY <2>1, <2>2, <3>1
  <2> QED
    BY <1>1, <1>2, <1>3, <1>4, <1>5, <2>3 DEF Woken
<1>8. Stamped'
  <2>1. begun \in Nat /\ irqs \in Nat /\ LastIrq = irqs - 1 /\ LastIrq' = irqs
    BY <1>1, <1>3, <1>4 DEF HandlerTypes, LastIrq
  <2>2. Masked /\ mod = "gpio-sim-int" => "thread" \notin active
    BY <1>1, <1>4 DEF Stamped
  <2> QED
    BY <1>1, <1>3, <1>4, <2>1, <2>2 DEF Stamped
<1>9. ThreadCounts'
  BY <1>1, <1>3, <1>4 DEF ThreadCounts, Parity
<1>10. Past' = Past
  BY <1>3, <1>4 DEF Past, Mid
<1>11. SwCounts'
  BY <1>1, <1>3, <1>4, <1>10 DEF SwCounts
<1>12. \A n : Parity(n)' = Parity(n)
  BY <1>3 DEF Parity
<1>13. Alone'
  BY <1>1, <1>3, <1>4, <1>10, <1>12 DEF Alone
<1> QED
  BY <1>4, <1>6, <1>7, <1>8, <1>9, <1>11, <1>13 DEF HInv

LEMMA HandlersThread ==
    ASSUME IInv, Thread
    PROVE  HInv'
<1>1. LoadTypes /\ HandlerTypes /\ Steps /\ Woken /\ Stamped /\ ThreadCounts /\ SwCounts /\ Alone
      /\ mod \in Modules
  BY DEF IInv, LInv, LoadTypes, HInv
<1>2. /\ UNCHANGED <<Masked, made, mod, pc, todo, held, lines, led, timeouts>>
      /\ UNCHANGED <<level, count, irq_time, reg, start, irqs, overlap>>
  BY DEF Thread, loadVars
<1>3. "thread" \in Calls /\ {"hard", "store"} \subseteq Calls
  BY DEF Calls
<1>4. "thread" \in active \cup pending
  BY DEF Thread, End
<1>5. mod \in Threaded /\ mod # "virt-int" /\ (pc = "init" => "led" \notin ToSet(todo))
  <2>1. mod \in Threaded
    BY <1>1, <1>4 DEF Woken
  <2>2. mod # "virt-int"
    BY <2>1 DEF Threaded
  <2>3. active # {} \/ pending # {}
    BY <1>4
  <2> QED
    BY <2>1, <2>2, <2>3, LineIsThere
<1>6. SwCounts' /\ Alone'
  BY <1>2, <1>5 DEF SwCounts, Alone
<1>7. /\ MaxIrqs \in Nat /\ runs \in 0 .. MaxIrqs /\ irqs \in 0 .. MaxIrqs /\ start \in {0, 1}
      /\ {begun, served} \subseteq 0 .. MaxIrqs
  BY <1>1, LoadAssumption DEF HandlerTypes
<1>8. CASE /\ "thread" \in pending /\ Begin("thread") /\ pending' = pending \ {"thread"}
           /\ begun' = (IF "hard" \in active THEN irqs - 1 ELSE irqs)
           /\ runs' = runs + 1 /\ UNCHANGED served
  <2>1. /\ Steps' /\ rest' \in [Calls -> Seq(Instructions)] /\ left("thread") = 0
        /\ left("thread")' = Len(Body(mod, "thread")) /\ left("hard")' = left("hard")
    BY <1>2, <1>3, <1>8, Begun
  <2>2. active' = active \cup {"thread"}
    BY <1>8 DEF Begin
  <2>3. /\ runs + (IF "hard" \in active THEN 1 ELSE 0) + 1 <= irqs
        /\ "hard" \in active => irqs > 0
    BY <1>1, <1>5, <1>8 DEF Woken
  <2>4. runs' \in 0 .. MaxIrqs /\ begun' \in 0 .. MaxIrqs /\ runs' > 0
    BY <1>7, <1>8, <2>3
  <2>5. HandlerTypes'
    BY <1>1, <1>2, <1>7, <1>8, <2>1, <2>4 DEF HandlerTypes
  <2>6. Woken'
    <3>1. runs' + (IF "hard" \in active' THEN 1 ELSE 0) + (IF "thread" \in pending' THEN 1 ELSE 0)
              <= irqs'
      <4>1. "thread" \notin pending' /\ irqs' = irqs /\ ("hard" \in active' <=> "hard" \in active)
        BY <1>2, <1>8, <2>2
      <4> QED
        BY <1>7, <1>8, <2>3, <4>1
    <3>2. /\ "hard" \in active' => irqs' > 0
          /\ "callback" \in pending' => timeouts' > 0
          /\ pc' = "init" /\ "timer" \in ToSet(todo') => timeouts' = 10
      BY <1>1, <1>2, <1>8, <2>2 DEF Woken
    <3> QED
      BY <1>2, <1>5, <2>4, <3>1, <3>2 DEF Woken
  <2>7. mod = "gpio-sim-int" => left("thread")' = 5
    BY <1>1, <1>3, <2>1, BodyIs
  <2>8. Stamped'
    <3>1. mod = "gpio-sim-int" /\ Masked => "hard" \notin active'
      BY <1>1, <1>8, <2>2 DEF Stamped
    <3>2. begun' = LastIrq /\ LastIrq' = LastIrq
      BY <1>2, <1>8, <2>2 DEF LastIrq
    <3> QED
      BY <1>1, <1>2, <1>7, <2>1, <2>2, <2>4, <2>7, <3>1, <3>2 DEF Stamped, LastIrq
  <2>9. ThreadCounts'
    BY <1>1, <1>2, <1>7, <1>8, <2>1, <2>7 DEF ThreadCounts, Parity
  <2> QED
    BY <1>6, <2>1, <2>5, <2>6, <2>8, <2>9 DEF HInv
<1>9. CASE End("thread") /\ UNCHANGED pending /\ served' = begun /\ UNCHANGED <<begun, runs>>
  <2>1. /\ Steps' /\ rest' = rest /\ active' = active \ {"thread"} /\ \A b : left(b)' = left(b)
    BY <1>2, <1>3, <1>9, Ended
  <2>2. HandlerTypes'
    BY <1>1, <1>2, <1>7, <1>9, <2>1 DEF HandlerTypes
  <2>3. Woken'
    BY <1>1, <1>2, <1>5, <1>9, <2>1 DEF Woken
  <2>4. Stamped'
    BY <1>1, <1>2, <1>9, <2>1 DEF Stamped, LastIrq
  <2>5. ThreadCounts'
    BY <1>1, <1>2, <1>9, <2>1 DEF ThreadCounts, Parity
  <2> QED
    BY <1>6, <2>1, <2>2, <2>3, <2>4, <2>5 DEF HInv
<1> QED
  BY <1>8, <1>9 DEF Thread

LEMMA HandlersInit == Init => HInv
<1> SUFFICES ASSUME Init PROVE HInv
  OBVIOUS
<1>1. /\ mod = "hrtimer" /\ todo = <<>> /\ active = {} /\ pending = {} /\ pc = "out"
      /\ rest = [a \in Calls |-> <<>>]
  BY DEF Init
<1>2. MaxIrqs \in Nat /\ <<0, 0>> \in Time /\ 0 \in 0 .. MaxIrqs
  BY LoadAssumption DEF Time
<1>3. HandlerTypes
  <2>1. rest \in [Calls -> Seq(Instructions)] /\ IsInjective(todo)
    BY <1>1, EmptySeq DEF IsInjective
  <2>2. irq_time \in Time /\ reg \in [Handlers -> Time]
    BY <1>2 DEF Init
  <2>3. {count, irqs, runs, begun, served} \subseteq 0 .. MaxIrqs
    BY <1>2 DEF Init
  <2>4. /\ {level, led, start} \subseteq {0, 1} /\ timeouts \in 0 .. 10
    BY DEF Init
  <2>5. Masked \in BOOLEAN /\ made \in {{}, {"sw"}, {"sw", "led"}} /\ overlap \in BOOLEAN
    BY Zenon DEF Init
  <2> QED
    BY <2>1, <2>2, <2>3, <2>4, <2>5 DEF HandlerTypes
<1>4. Steps
  BY <1>1 DEF Steps
<1>5. Woken
  BY <1>1 DEF Woken, Threaded
<1>6. Stamped /\ ThreadCounts /\ SwCounts /\ Alone
  BY <1>1 DEF Stamped, LastIrq, ThreadCounts, SwCounts, Alone
<1> QED
  BY <1>3, <1>4, <1>5, <1>6 DEF HInv

LEMMA HandlersNext ==
    ASSUME IInv, [Next]_vars
    PROVE  HInv'
<1>1. CASE TearDown
  BY <1>1, HandlersTearDown
<1>2. CASE Setup \/ RmmodRefused \/ UNCHANGED vars \/ Loaded \/ Rmmod \/ Release \/ Released
  BY <1>2, HandlersUnload
<1>3. CASE \E m \in Modules, v \in {0, 1} : Insmod(m, v)
  BY <1>3, HandlersInsmod
<1>4. CASE Acquire
  BY <1>4, HandlersAcquire
<1>5. CASE Open \/ Close \/ Store \/ CountRead
  BY <1>5, HandlersOther
<1>6. CASE Trigger
  BY <1>6, HandlersTrigger
<1>7. CASE Hard
  BY <1>7, HandlersHard
<1>8. CASE HardEnds
  BY <1>8, HandlersHardEnds
<1>9. CASE Thread
  BY <1>9, HandlersThread
<1>10. CASE Timeout \/ TimeoutEnds
  BY <1>10, HandlersTimer
<1>11. CASE \E a \in Handlers : Step(a)
  BY <1>11, HandlersStep DEF IInv, LInv
<1> QED
  BY <1>1, <1>2, <1>3, <1>4, <1>5, <1>6, <1>7, <1>8, <1>9, <1>10, <1>11 DEF Next, Loader

(* What loading and the handlers keep, together, always. *)
THEOREM Invariant == Spec => []IInv
<1>1. Init => IInv
  BY LoadInit, HandlersInit DEF IInv
<1>2. IInv /\ [Next]_vars => IInv'
  BY LoadStep, HandlersNext DEF IInv
<1> QED
  BY <1>1, <1>2, PTL DEF Spec

(* Each variable keeps its type; nothing is listed twice. *)
THEOREM Types == Spec => []TypeOK
<1>1. IInv => TypeOK
  BY DEF IInv, LInv, LoadTypes, HInv, HandlerTypes, TypeOK
<1> QED
  BY <1>1, Invariant, PTL

(* irq_sw_thread of gpio-sim-int.c, whether the line is masked or not, reads *)
(* no word of a time older than that of the last interrupt whose hard        *)
(* handler had ended when it began, and both of this one if none has come    *)
(* since; where the line is masked none has.                                 *)
THEOREM Stamps == Spec => []StampNotStale
<1>1. IInv => StampNotStale
  <2> SUFFICES ASSUME IInv, mod = "gpio-sim-int", "thread" \in active,
                      Len(rest["thread"]) <= 3
               PROVE  /\ \A w \in {1, 2} : reg["thread"][w] \in begun .. irqs
                      /\ Masked => begun = irqs
    BY DEF StampNotStale
  <2>1. HandlerTypes /\ Steps /\ Stamped /\ mod \in Modules
    BY DEF IInv, LInv, LoadTypes, HInv
  <2>2. left("thread") <= 3 /\ left("thread") \in Nat
    BY <2>1, LeftIs DEF left, Calls
  <2>3. left("thread") <= 4
    BY <2>2
  <2> QED
    BY <2>1, <2>2, <2>3 DEF Stamped
<1> QED
  BY <1>1, Invariant, PTL

(* When no handler is under way every run has been counted, has flipped the  *)
(* level, and the LED shows it; only runs of virt-int.c's irq_sw at once can *)
(* lose counts, and those never all.                                        *)
THEOREM Counted == Spec => []RunsCounted
<1>1. IInv => RunsCounted
  <2> SUFFICES ASSUME IInv, mod \in {"gpio-sim-int", "virt-int"}, \A a \in Calls : rest[a] = <<>>
               PROVE  /\ count <= runs /\ (runs > 0 => count > 0)
                      /\ ~overlap => /\ count = runs /\ level = (start + runs) % 2
                                     /\ "led" \in held /\ runs > 0 => led = level
                      /\ mod = "gpio-sim-int" /\ "irq" \in held => led = level
    BY DEF RunsCounted
  <2>1. /\ HandlerTypes /\ Steps /\ Woken /\ ThreadCounts /\ SwCounts /\ Alone
        /\ Loading /\ Called /\ mod \in Modules
    BY DEF IInv, LInv, LoadTypes, HInv
  <2>2. left("hard") = 0 /\ left("store") = 0 /\ left("thread") = 0
    <3>1. "hard" \in Calls /\ "store" \in Calls /\ "thread" \in Calls
      BY DEF Calls
    <3> QED
      BY <2>1, <3>1, LeftIs
  <2>3. runs \in Nat /\ irqs \in Nat /\ count \in Nat
    BY <2>1 DEF HandlerTypes
  <2>4. "led" \in held \/ "irq" \in held => pc # "out"
    BY <2>1 DEF Called, Kept
  <2>5. CASE mod = "gpio-sim-int"
    <3>1. count = runs /\ level = Parity(runs)
      BY <2>1, <2>2, <2>5 DEF ThreadCounts
    <3>2. pc # "out" /\ (irqs > 0 \/ "irq" \in held) => led = level
      BY <2>1, <2>2, <2>5 DEF ThreadCounts
    <3>3. runs <= irqs
      <4>1. runs + (IF "hard" \in active THEN 1 ELSE 0) + (IF "thread" \in pending THEN 1 ELSE 0) <= irqs
        BY <2>1, <2>5 DEF Woken, Threaded
      <4> QED
        BY <2>3, <4>1
    <3> QED
      BY <2>3, <2>4, <3>1, <3>2, <3>3 DEF Parity
  <2>6. CASE mod = "virt-int"
    <3>1. Past = runs
      BY <2>2, <2>3 DEF Past, Mid
    <3>2. count <= runs /\ (runs > 0 => count > 0)
      BY <2>1, <2>6, <3>1 DEF SwCounts
    <3>3. ~overlap => /\ count = runs /\ level = Parity(runs)
                      /\ pc # "out" /\ "led" \in lines /\ runs > 0 => led = level
      BY <2>1, <2>2, <2>6, <3>1 DEF Alone
    <3>4. "led" \in held => "led" \in lines
      BY <2>1 DEF Loading
    <3> QED
      BY <2>4, <2>6, <3>2, <3>3, <3>4 DEF Parity
  <2> QED
    BY <2>5, <2>6
<1> QED
  BY <1>1, Invariant, PTL
=============================================================================
