----------------------------- MODULE DriverPlans -----------------------------
(***************************************************************************)
(* What the drivers of src/modules acquire when they are loaded, in the    *)
(* order of the calls, what they release when they are unloaded or when    *)
(* something cannot be had, and what the calls made into them use.         *)
(*                                                                         *)
(* A platform driver's probe runs inside its init function.  What devm_    *)
(* calls got is given back after the remove function, or after a probe     *)
(* that failed, in the opposite order.                                     *)
(***************************************************************************)
EXTENDS Sequences

Resources == {"page", "region", "cdev", "class", "device", "irq", "root", "file", "timer",
              "led", "sw", "pdev", "driver", "table"}

Modules == {"chardev", "mychardev", "sysfs", "irqnet", "vint_net", "hrtimer",
            "gpio-sim-demo", "gpio-sim-int", "virt-int"}

(* Those whose interrupt handler has a second half. *)
Threaded == {"sysfs", "irqnet", "vint_net", "gpio-sim-int"}

-----------------------------------------------------------------------------
(* The init functions and the probes in them. *)
ChardevPageLast == <<"region", "cdev", "class", "device", "page">>   \* mutant: page last

ChardevInit == <<"page", "region", "cdev", "class", "device">>

Plan(m) == CASE m = "chardev"       -> ChardevInit
             [] m = "mychardev"     -> <<"region", "cdev", "class", "device">>
             [] m = "sysfs"         -> <<"irq", "root", "file">>
             [] m = "irqnet"        -> <<"irq">>
             [] m = "vint_net"      -> <<"irq">>
             [] m = "hrtimer"       -> <<"timer">>
             [] m = "gpio-sim-demo" -> <<"pdev", "driver", "table", "sw", "led">>
             [] m = "gpio-sim-int"  -> <<"pdev", "driver", "table", "sw", "led", "irq">>
             [] m = "virt-int"      -> <<"driver", "led", "sw", "irq", "root", "file">>

(* my_remove, then the devm release of the lines, the driver last. *)
VirtIntExit == <<"file", "root", "irq", "sw", "led", "driver">>
GpioSimExit == <<"table", "irq", "led", "sw", "driver", "pdev">>

(* The exit functions; vint_net.c has none and stays. *)
ExitOrder(m) ==
    CASE m = "chardev"   -> <<"device", "class", "cdev", "region", "page">>
      [] m = "mychardev" -> <<"device", "class", "cdev", "region">>
      [] m = "sysfs"     -> <<"file", "root", "irq">>
      [] m = "irqnet"    -> <<"irq">>
      [] m = "hrtimer"   -> <<"timer">>
      [] m = "virt-int"  -> VirtIntExit
      [] OTHER           -> GpioSimExit

CanUnload(m) == m # "vint_net"

-----------------------------------------------------------------------------
(* What is undone when r cannot be had. *)
ChardevUnwindKeepsPage(r) ==    \* mutant: fail_cdev does not free the page
    CASE r = "region" -> <<"page">>         [] r = "cdev"   -> <<"region">>
      [] r = "class"  -> <<"cdev", "region">>
      [] r = "device" -> <<"class", "cdev", "region">> [] OTHER -> <<>>

ChardevUnwind(r) ==
    CASE r = "region" -> <<"page">>         [] r = "cdev"   -> <<"region", "page">>
      [] r = "class"  -> <<"cdev", "region", "page">>
      [] r = "device" -> <<"class", "cdev", "region", "page">> [] OTHER -> <<>>

Unwind(m, r) ==
    CASE m = "chardev"                      -> ChardevUnwind(r)
      [] m = "sysfs"         /\ r = "root"   -> <<"irq">>
      [] m = "sysfs"         /\ r = "file"   -> <<"root", "irq">>
      [] m = "gpio-sim-demo" /\ r = "driver" -> <<"pdev">>
      [] m = "gpio-sim-int"  /\ r = "driver" -> <<"pdev">>
      [] m = "gpio-sim-int"  /\ r = "irq"    -> <<"led", "sw">>
      [] m = "virt-int"      /\ r = "irq"    -> <<"sw", "led">>
      [] OTHER -> <<>>

(* The interrupt is requested by the probe: the init function succeeds       *)
(* though the probe does not.                                               *)
InProbe(m, r) == m \in {"gpio-sim-int", "virt-int"} /\ r = "irq"

(* virt-int.c does without a LED, a switch, or files; a gpio-sim probe ends  *)
(* at the first line that is missing, and reports success.                  *)
Optional(m, r) == \/ m = "virt-int" /\ r \in {"led", "sw", "root", "file"}
                  \/ m \in {"gpio-sim-demo", "gpio-sim-int"} /\ r \in {"sw", "led"}

AfterMissing(m, rest) == IF m = "virt-int" THEN rest ELSE <<>>

(* What an acquisition refers to: virt-int.c without a switch requests no    *)
(* interrupt, and makes its files in a directory.                           *)
Needs(m, r) == CASE r = "cdev" -> {"region"} [] r = "device" -> {"class", "region"}
                 [] r = "file" -> {"root"}
                 [] r = "irq" /\ m \in {"virt-int", "gpio-sim-int"} -> {"sw"}
                 [] OTHER -> {}

(* mychardev.c checks nothing: that its acquisitions succeed is assumed;     *)
(* starting a timer and adding a lookup table cannot fail.                   *)
MayFail(m, r) == m \notin {"mychardev", "hrtimer"} /\ r \notin {"table"} /\ ~Optional(m, r)

-----------------------------------------------------------------------------
(* What lets a call in. *)
Gate(a) == CASE a = "open" -> "device" [] a \in {"store", "show"} -> "file"
             [] a \in {"hard", "thread"} -> "irq" [] a = "callback" -> "timer"

(* What a call uses; irq_sw of virt-int.c sets the LED if probe found one.   *)
Uses(m, a, lines) ==
    CASE m = "virt-int" /\ a \in {"store", "hard"} -> lines \cap {"led"}
      [] m = "gpio-sim-int" /\ a = "thread" -> {"sw", "led"}
      [] m = "chardev" /\ a = "open" -> {"page", "region", "cdev"}
      [] m = "mychardev" /\ a = "open" -> {"region", "cdev"}
      [] m = "sysfs" /\ a = "store" -> {"root"}
      [] OTHER -> {}

(* The steps of a handler, as far as they change the module's variables. *)
Instructions == {"time lo", "time hi", "load lo", "load hi", "count", "flip", "led",
                 "load level", "store level", "load count", "store count"}

Body(m, a) ==
    CASE m = "gpio-sim-int" /\ a = "hard"   -> <<"time lo", "time hi">>
      [] m = "gpio-sim-int" /\ a = "thread" -> <<"load lo", "load hi", "count", "flip", "led">>
      [] m = "virt-int" /\ a \in {"store", "hard"} ->
             <<"load level", "store level", "led", "load count", "store count">>
      [] OTHER -> <<>>
=============================================================================
