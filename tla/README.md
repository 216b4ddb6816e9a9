# Verification of linux-riscv32

The repository accompanies a course on Linux for 32-bit RISC-V: about eighty
small user programs (`src/C`), a dozen kernel modules (`src/modules`) and the
configuration that builds and boots them. There is no single system to verify.
This project picks the programs in which several parties share something (a
lock, a segment, a socket, a FIFO, a page, an interrupt), models each of them from its
source, checks the models with TLC and proves the most important facts with
TLAPS.

Every module names its source files in its header. `PROJECT.json` gives the
lines behind each definition, the runs, the mutations each property detects,
the hazards, and the theorems.

## 1. Inventory

### The payment example (`logger.c`, `payment.c`, `health.c`, `epoll_server.c`, `pi_sem.h`, `shared_lock.h`, launch scripts)

Four processes show priority inversion. The scripts start `logger` under
SCHED_BATCH (`chrt -b 0`), `payment` under SCHED_FIFO at 50, `health` under
SCHED_FIFO at 90 (`run_poll_fifo.sh`) or SCHED_DEADLINE (`run_poll.sh`), and
`epoll_server` as an ordinary process with `nice -n 15`. Both scripts so put
`health` before `payment` and `payment` before `logger`.

| part | state | operations | talks to |
|---|---|---|---|
| `pi_sem.h` | a name in `/dev/shm`, the object it is bound to (size, mutex, holder), or a plain named semaphore | open or create, wait, post | logger, health, payment |
| `logger.c` (lowest priority) | loop position, lock | unlinks and makes the semaphore, reopens the log FIFO, polls it, reads it under the lock | FIFO, semaphore |
| `payment.c` (middle) | loop position, busy turns left | opens the semaphore (and never uses it), reads its socket, spins twenty times | epoll server |
| `health.c` (highest) | `running`, loop position, lock | timer check and START/STOP commands under the lock | timer, its client, semaphore |
| `epoll_server.c` | epoll set, descriptors, event batch | accept, read, forward, answer, close | TCP clients, payment |
| `run_poll*.sh`, `kill_poll.sh` | what runs | launch in order, launch at once, kill | all |

Hard: who makes the semaphore when three programs race for it; a program killed
while it holds the lock or half way through making it; inversion; `poll`
followed by a `read` that blocks with the lock held; descriptors closed and
reused within one batch of events; a server with one thread that may block on
its consumer. Correct means: one semaphore, one critical section, nobody waits
for the dead, health is served, STOP is obeyed, no event is handled for the
wrong connection, payments are forwarded in order and at most once, no client
is left out.

### Shared memory (`shm.c`; `posix_shm_init.c`, `posix_shm_worker.c`, `posix_shm_cleanup.c`)

`shm.c` keeps a System V semaphore, the kernel's SEM_UNDO adjustments and a
segment; every process initialises, locks, writes, unlocks, exits, and may be
killed. The POSIX variant splits this over three programs; names and objects
live apart. Hard: initialisation by every process, kills inside the section,
names removed and made anew while workers run or between a worker's two opens. Correct means: mutual
exclusion, no lost increment, the lock is free when nobody is inside.

### Servers that fork (`server_tcp.c`, `server_unix.c`)

A server, a child per connection and a `date` per child; descriptors are copied
at each fork; a SIGCHLD handler reaps children and races with the child's own
`waitpid`. Correct means: the whole answer before the end of file, the end of
file does come, no zombie stays.

### Counter reads (`rdtime.h`, `access_time.c`, `read_counter.h`, `chardev_user.c`)

A 64-bit counter is read as high, low, high, until both highs agree. Correct
means: the value is a time that really was between the start of the read and
its end.

### Loops at a terminal (`select.c`, `select_urandom.c`, `select_simple.c`, `sysfs_led.c`)

`select.c` keeps a FIFO at a path of the file system and two descriptors of it;
it serves its terminal and the FIFO in turn, and unlinks the path when its user
types Ctrl+D. Shells write to the path, other instances make, share and unlink
it, and a killed instance leaves it behind. `select_urandom.c` and
`select_simple.c` are the same loop over a descriptor that is always ready.
`sysfs_led.c` writes to a LED until Ctrl+C, any write may fail. Hard: the path
is tested, made and opened in separate steps; what select reported may be gone
when it is read. Correct means: what was sent is printed, once and in order;
neither descriptor keeps the other from being served; the user can end the
program; the LED is off afterwards.

### Kernel modules

* `chardev.c`: one page, a length, a mutex; open, llseek, read, write, mmap.
  Hard: positions loaded and stored outside the mutex, faults half way,
  mappings that bypass it, early returns.
* `gpio-sim-int.c`, `gpio-sim-demo.c`, `setup-gpiosim.sh`: a script that makes
  two lines, probes that acquire them and an interrupt; a hard handler that
  stores a time and a thread that loads it; removal.
* `virt-int.c`: a probe that does without LED, switch or debugfs files; a handler
  that the interrupt and the writers of a debugfs file run at once, on plain
  variables.
* `sysfs.c`, `irqnet.c`, `vint_net.c`, `hrtimer.c`, `mychardev.c`: init and exit
  functions that acquire and release in order, while the kernel calls in.

Correct means: calls find what they use, nothing is left behind, every
interrupt is followed by a run of the thread, runs are counted and shown as far
as plain variables allow, unloading ends.

### Not modelled

* Programs of one process that print addresses, times or sizes (memory and mmap
  examples, timers, system call and language examples, the hello modules),
  scheduling demonstrations that only spin, and build or configuration data.
  They have no state another party changes.
* `chardev_user.c` and the measuring loops of `access_time.c` beyond the counter
  reads: what they compute is an average.
* `read` and `write` of `mychardev.c` copy to and from a fixed buffer and keep
  neither a lock nor a length: they promise nothing about concurrent calls.
* `pipe.c`, `pipe2.c`, `named_pipe.c`, `mqueue.c`, `unix_socket*.c`, `signal.c`: two
  or three processes, a few system calls each. They are planned (section 7).
* `shmposix.c` does not compile (`SHM_SIZE`, `mb.buf`), so there is nothing to
  model.

## 2. Modules

| module | models | run |
|---|---|---|
| `CriticalSection` | abstract: at most one process inside | refined by `SysvSem`, `SemStartup`, `PrioInversion` |
| `CriticalSections` | abstract: the same for several locks | refined by `PosixShm` |
| `SysvSem` | `shm.c` | `SysvSem`, `SysvSem_finding` |
| `SemStartup` | start of logger, health, payment; both builds of `pi_sem.h`; launch, kill, relaunch | `SemStartup`, `SemStartup_finding` |
| `PrioInversion` | the loops of logger, payment, health on one CPU, with and without priority inheritance | `PrioInversion` |
| `EpollServer` | `epoll_server.c` and its start, with payment as the consumer | `EpollServer` |
| `PosixShm` | the three POSIX shared memory programs | `PosixShm` |
| `ForkServer` | `server_tcp.c`, `server_unix.c` | `ForkServer` |
| `RdTime` | the counter read, `measure_access_time`, repeated measurements | `RdTime` |
| `AtomicFile` | abstract: a file with atomic reads and writes | refined by `CharDev` |
| `CharDev` | `chardev.c` | `CharDev` |
| `DriverPlans` | what nine drivers acquire, release, undo and use, as sequences and sets | `DriverLoad` |
| `DriverLoad` | load, calls and unload of the nine drivers; the handlers of `gpio-sim-int.c` and `virt-int.c` step by step | `DriverLoad` |
| `TerminalLoops` | `select.c`, `select_urandom.c`, `select_simple.c`, `sysfs_led.c` | `TerminalLoops` |
| `SysvSemProofs`, `SemStartupProofs`, `PrioInversionProofs`, `EpollServerProofs`, `PosixShmProofs`, `DriverLoadProofs` | theorems about the module each is named after (section 5) |
| `CharDevProofs` | theorems about `CharDev` and `RdTime` |
| `ProcessProofs` | theorems about `ForkServer` and `TerminalLoops` |

How to read them against the code: `pc` labels (`step` in `RdTime`, `place` in
`ForkServer`) are places in `main` or in a driver function; an action is what
happens between two points at which another party could see a difference (a
system call, a lock, a store another processor reads). Operators whose comment says *mutant* are plausible bugs, used to see
that a property notices them; no specification uses them. Variables marked
*history* are not in the code; properties speak of them.

Correspondence worth knowing:

* `SysvSem`: `Semget`/`Setval` are `create_semaphore` (called at every start),
  `undo` is the kernel's adjustment, applied by `ApplyUndo` at exit or kill and
  cleared for everybody by SETVAL.
* `SemStartup`: `PiSem` is `-DUSE_PI_SEM`, `Fifo` the choice of script; both are
  variables fixed in `Init`, so that one run covers all four combinations.
  `name` and `obj` survive `KillAll`, as files in `/dev/shm` do. The plain build
  opens in one step (`SemOpen`: glibc links a finished semaphore), the other
  one in three (`OpenExcl`, `Truncate`, `InitMutex`). `Work` is possible as soon as
  a program is in its loop: nothing in the code waits for the script.
  `BusError` is a lock in memory that has no size.
* `PrioInversion`: a step of a process requires that no runnable process has a
  higher `Priority`; with `PiMutex` the logger takes the priority of health
  while health waits for it.
* `EpollServer`: a command is two tokens, first byte and body, so that a read
  can split it; `limit`, chosen in `Init`, is what is left of the descriptor
  table, `slots`, also chosen there, the size of the event array (10 in the code, with more
  clients than TLC can follow); `for` in an event is history. `ready` is the kernel's ready list:
  `EpollWait` takes from its front and puts what it reports back at its end, and
  drops what is found to have nothing to read, as Linux does for level triggered
  descriptors. `payment` is where the payment program
  is; `InitPayment` ends the server (`pc` is "exit") unless payment listens.
* `CharDev`: `Enter` and `Return` are the kernel's `ksys_read`/`ksys_write`,
  which load and store `f_pos` around the driver call; `Copy` is one byte of the
  user copy; `Unlock` before the last byte is a fault. `copy_from_user` clears
  what it could not copy (`NotCopied`), so a write that faults also destroys data
  it does not report.
* `PosixShm`: `torn` is history: one of the things has happened that nothing in
  the three programs prevents and after which segment and semaphore no longer
  belong together. They are init and cleanup at once, a change of the names
  between the two opens of a worker, and init over a segment somebody is inside
  with.
* `ForkServer`: `failed` is history: a fork failed, or date could not be executed
  (`RunDate`). The process that should have been date then ends with `exit(1)`,
  which writes out what stdio still holds; with the server's output in a file this is
  its first line, and it goes to the client (`Prints`).
* `DriverPlans`: `Plan`, `ExitOrder` and `Unwind` are the init functions with the
  probes in them, the exit functions with the remove functions and the devm
  releases, and the `goto` chains. `Optional` and `AfterMissing` say how a probe
  treats a missing line: `virt-int.c` goes on, the gpio-sim drivers stop and
  report success.
* `DriverLoad`: `todo` is the rest of such a sequence; `held` is what has been
  acquired. A failed probe leaves the module loaded (`failed`); when the module
  then goes, the remove function is not called and what it would have removed is
  `Kept`. `active` is the
  set of calls in progress, `rest` the loads and stores each has yet to do:
  `irq_time` is two words, `count++` of `virt-int.c` a load and a store, `ledlevel`
  as well. `Masked`, chosen in `Init`, says whether the interrupt chip masks a
  oneshot line until the thread ends; gpio-sim does not.
* `TerminalLoops`: `path` is the file `FIFO_PATH` is bound to; `kind` and `data` are
  per file, so that an unlinked FIFO lives on in those who have it open.
  `MaybeReady` is what select may report of a FIFO or a regular file. The three
  select programs share `Select` and `Stdin`.

How they fit together: `SemStartup` ends where `PrioInversion` begins (all
programs in their loops with a semaphore); `EpollServer` feeds the socket
`PrioInversion` calls payments and includes payment's read; `DriverLoad` covers
the lifetime of the device whose operations `CharDev` models, and what the
drivers share with the script and with one another: two lines, one interrupt.

## 3. Runs, and what they show

**SysvSem** (3 processes). As long as nobody starts while another is inside
(`overlapped` is false), the text a process writes stays in the segment until it unlocks
(`TextIntact`), and the processes implement `CriticalSection`. With overlapping starts too, the lock is
free when nobody is inside (`FreeWhenEmpty`: kills, SEM_UNDO and SETVAL's
clearing of it never lose the lock). Three
processes give a holder, a waiter and one that resets; each runs once, so the
state space is complete.

**SysvSem_finding**. Without that condition exclusion (`MutualExclusion`) fails: `create_semaphore`
sets the value to 1 even when the semaphore exists, though its comment
(`shm.c:37`) speaks of a newly created one.

**SemStartup** (3 launches, clients try 3 times instead of 20). Launched in
order, or in the plain build, logger and health implement one critical
section over all launches and kills (`ImplementsSection`), and nobody locks a
semaphore that is not sized and initialised (`TouchesReadySemaphore`), whenever work comes
and whatever a killed launch left behind. Under any launch nobody
waits for a killed holder (`HolderLives`); under `run_poll.sh` nobody gives up
(`NobodyGivesUp`). Three launches suffice for leftovers of leftovers: what is
left depends on the last launch only. Three tries cover "none", "some" and
"last".

**SemStartup_finding**. With priority inheritance and `run_poll_fifo.sh`, a
client may make the semaphore before the logger unlinks it; the comments at
`health.c:27` and `payment.c:23` say that clients open the one logger made
(`OneSemaphore`).

**PrioInversion** (1 busy turn, queues of 1, 1 and 2). With inheritance payment
takes no step while health waits for a logger that can run (`NoInversion`),
and health gets the lock (`HealthServed`); the plain build serves health once
payments end (`ServedWhenPaymentsEnd`). In both, STOP wins over START in one buffer
(`StopWins`: STOP sent last is obeyed, while a START sent after it in one buffer is
lost), the logger blocks with the lock in hand only in the window after
a hangup (`BlocksOnlyAfterHangup`), and the lock excludes
(`ImplementsSection`). One busy turn already separates "payment runs between"
from "does not"; a second command makes buffers with two commands.

**EpollServer** (2 clients, 1 or 2 descriptors, an event array of 1 or 2, a
socket of 1 token, up to 2 commands of a client and 3 of both told apart). No
event is stale when it is handled (`EventsFresh`); two events in a batch are
needed for one to make the other stale. Each client's payments are forwarded in
order and at most once (`PaymentsInOrder`); a payment whose first byte and body
come in two reads is not forwarded, and nothing is claimed about it. What an accepted
client sends is read (`Drained`), and a client that waits is accepted unless no
descriptor is left (`Accepted`). With an array of 1 a batch is smaller than what is
ready whenever two of both clients and the listening socket are: it is then the order
of the ready list that serves everybody. Descriptors run out and are reused,
commands are split and joined, the server blocks on payment, and it may die of
SIGPIPE; what it then leaves undone is excepted. It may also be started too early, before
payment listens: it then exits and no client ever connects. Clients come and go
for ever, and send for ever what is not forwarded: `MaxSend` and `MaxTotal` bound
only the commands under way or forwarded, as a client none of whose commands is left
anywhere is numbered from 1 again (`LastSent`).

**CharDev** (2 threads, one file they share or bypass with pread/pwrite, 2
bytes, counts up to 2). Positions stay within the data (`PositionsInData`),
calls return, so no path leaves the mutex locked (`CallsReturn`), and until the
device is mapped it implements `AtomicFile` (`ImplementsFile`), whose write may be
of fewer bytes than asked for and then clears the others. Two
bytes are enough for a copy to be interrupted half way.

**RdTime** (high word to 2, low word to 3). No torn value (`NotTorn`), the end
of a measurement is not before its start (`EndAfterStart`). Two carries fit, so
a read may have to retry twice.

**PosixShm** (2 workers, 4 worker runs, 3 inits). init, cleanup and workers are
started at any moment. Whatever they do to the names, each semaphore is a
critical section (`ImplementsSections`) and is at 0 exactly while a worker is
inside with it or after one was killed inside (`ZeroOnlyInsideOrLost`); in the second case later
workers wait for ever, and init run again does not help, because `sem_open`
finds the old semaphore. Only cleanup does. As long as nothing has torn the objects
apart (`torn`), a worker that found both names may use the segment
(`ReadyWhenFound`) and increments are not lost (`CountExact`); this includes cleanup and init
while workers are inside, who go on with the old segment under the old semaphore
beside those with the new ones. Each of the three conditions in `torn` is
needed: without it TLC finds the property violated. Two workers and three inits
cover a worker with the old segment, one with the new, and names made anew
once more.

**ForkServer** (2 connections, any fork and any exec of date may fail). Greeting and date come before
the end of file unless one of them did (`AnsweredBeforeEof`), connections are closed in the end
(`Closes`), and zombies are reaped (`ZombiesReaped`). Two connections suffice for coalesced
signals and for inheriting another's descriptor.

**DriverLoad** (nine drivers, one loaded at a time and again and again; 3
interrupts or triggers per load; acquisitions fail in those drivers whose error
paths differ). Calls find what they use though they come while the init function
runs, fails, or the exit function runs (`CallsFindTheirs`); nothing is left but,
after a failed gpio-sim probe, the lookup table (`NothingLeft`); unloading ends
(`UnloadEnds`); every interrupt is followed by a run of the thread
(`EveryIrqServed`); the time the thread prints is, in both words, no older than the last
interrupt that was through when the thread began (`StampNotStale`), on a line that is
masked until the thread ends, where it is exactly this one, and on one that is
not; runs are counted, flip the level and are shown by the LED,
except that counts are lost where interrupt and writer overlap in `virt-int.c`
(`RunsCounted`). Three interrupts: one served, one coalesced, one during removal;
for `virt-int.c` two that overlap and one after.

**TerminalLoops** (2 instances of one program, 2 messages, 2 files the path may
be bound to, one line or end of input waiting at each terminal). What select
reported is there when `select.c` reads it, except where the code cannot know
(`ReadsFindData`: a regular file at the path, a FIFO bound anew between the two
opens, data another instance took); messages are printed in order and, through a
FIFO, once (`PrintedOnce`); a message in a FIFO somebody reads is printed or the
reader ends (`MessagesPrinted`); Ctrl+D and Ctrl+C end the programs
(`EndsWhenAsked`; in `select_simple.c` Ctrl+D does not); the LED is off when
nobody runs and the last writes succeeded (`LedOffAtEnd`). Two files are the old
and the new one when the path is unlinked under an instance; two messages are
needed for an order and for one each.

Every module has a type invariant `TypeOK` (`ClockTypeOK` in `RdTime`, `ForkTypeOK` in
`ForkServer`); add it as an INVARIANT to a configuration to see it hold of the run's instance. For the modules with
proofs it is a theorem or part of the inductive invariant.

Deadlock is checked in `PrioInversion`, `CharDev`, `DriverLoad` and
`TerminalLoops`. The other models stop by design: processes end, bounds are used
up, a server dies of SIGPIPE.

## 4. Fairness

* `ForkServer`: weak fairness of a process's own steps (a runnable process is
  scheduled), strong fairness for `Accept` (the
  listen queue is first in, first out) and for a child's steps, which its signal
  handler interrupts again and again.
* `PrioInversion`: the CPU does not idle; whoever opened the FIFO writes or
  closes it, as `echo` does. Strong fairness of the logger: a writer that leaves
  makes it runnable again and again; it runs before endlessly many new ones
  arrive. Nothing promises a lower priority process the CPU.
* `EpollServer`: server and payment run when not blocked; payment, once started,
  gets to its accept and returns to its read.
* `CharDev`: a copy goes on; the kernel's mutex hands over to a waiter, hence
  strong fairness for taking it.
* `DriverLoad`: handlers, woken threads, armed timers, insmod and rmmod run on.
* `TerminalLoops`: a process that is not blocked goes on. Users, clients, shells
  and interrupts are never forced to act, in any model.
* Safety only, without fairness: `SysvSem`, `SemStartup`, `PosixShm`, `RdTime`.

## 5. Proofs

TLAPS checks the following for every value of the constants that the named
assumptions allow. Each proof module states an invariant `IInv`, shows that it
holds at first and that every action keeps it, one lemma per action or group of
actions, and derives the theorems from it. Refinements follow step by step:
under `IInv` every step of the program is a step of the abstract specification
or leaves its variables alone.

| module | theorem | states |
|---|---|---|
| `SysvSemProofs` | `Staggered`, `TextStays`, `Free`, `Implements`, `Types` | `StaggeredExclusion`, `TextIntact`, `FreeWhenEmpty`, `ImplementsSection`, `TypeOK` |
| `SemStartupProofs` | `TouchesReady`, `WaitsForLiving`, `FoundAtOnce`, `Implements`, `Types` | `TouchesReadySemaphore`, `HolderLives`, `NobodyGivesUp`, `ImplementsSection`, `TypeOK` |
| `PrioInversionProofs` | `StopObeyed`, `SleepsAfterHangup`, `Inheritance`, `Implements` | `StopWins`, `BlocksOnlyAfterHangup`, `NoInversion` (of steps), `ImplementsSection` |
| `EpollServerProofs` | `Fresh`, `InOrder`, `Types` | `EventsFresh`, `PaymentsInOrder`, `TypeOK` |
| `PosixShmProofs` | `ReadyFound`, `Exact`, `ZeroForAReason`, `Implements` | `ReadyWhenFound`, `CountExact`, `ZeroOnlyInsideOrLost`, `ImplementsSections` |
| `CharDevProofs` | `PositionsStayInData`, `MutexIsHeld`, `Implements`, `Types` | `PositionsInData`, `MutexHeld`, `ImplementsFile`, `TypeOK` |
| | `ReadsAreTimes`, `DurationsArePositive` | `NotTorn`, `EndAfterStart` of `RdTime` |
| `ProcessProofs` | `EofAfterAnswer`, `ForkServerTypes` | `AnsweredBeforeEof`, `ForkTypeOK` of `ForkServer` |
| | `SelectedReadsFindData`, `MessagesPrintedOnce`, `LedIsOffAtEnd`, `LoopsTypes` | `ReadsFindData`, `PrintedOnce`, `LedOffAtEnd`, `TypeOK` of `TerminalLoops` |
| `DriverLoadProofs` | `Finds`, `Nothing`, `Stamps`, `Counted`, `Types` | `CallsFindTheirs`, `NothingLeft`, `StampNotStale`, `RunsCounted`, `TypeOK` |

None of these properties is inductive by itself. What each needs:

* `SysvSemProofs` (any finite set of processes). A process enters because the
  value is positive, so `Orderly` says that whoever is inside is alone, that the
  value is then 0, and that the kernel holds an adjustment of exactly 1 for it
  and 0 for all others (a kill gives back one lock, and only a lock that was
  held). It is claimed while `overlapped` is false. With overlapping starts only
  `Ledger` remains: value, plus adjustments that will give back, minus those that
  will take away, is at least 1 once the value has been set. It counts processes
  with `Cardinality`, and each step changes one of them, so no induction is
  needed. `Free` follows: with nobody inside nothing is to be given back, hence
  the value is positive.
* `SemStartupProofs` (any number of tries and launches). A killed run leaves
  objects half made or locked. `Fresh` says when a program may find a name at
  all, and `Sized` and `Held` claim readiness and a living holder only for
  objects that are mapped or whose name is fresh; the others are `Dead`: nobody
  has mapped them and nobody will. `Script` ties the stages of the two scripts
  to the places of the programs. `OneName` (in order, or plain) says that all
  have the object with the name, from which the refinement follows.
* `PrioInversionProofs` (any busy wait, any queues). `LockHeld` (the holder is
  the one between wait and post) gives exclusion and the refinement.
  `StopOnItsWay` says where the last command sent is: at the end of the socket,
  with health, or obeyed. `PollHolds`: what poll saw stays true, as only the
  logger takes messages. `NoInversion` is a property of steps: payment needs the
  CPU, and the inherited priority leaves it none.
* `EpollServerProofs` (any clients, commands, descriptors, array size). A fresh
  batch must stay fresh while events are handled that close, accept and reuse
  descriptors. `Batch` says that no two events of a batch are about one
  descriptor, `OneOwner` that no two accepted clients have one, `Queued` that a
  client waits once, `Listed` that the kernel's ready list has nobody twice. The order of payments is carried by `Stream`: tokens get a
  `Rank`, the tokens of one client are sorted by it from what payment took, through
  the buffer being forwarded, to its socket, and what it has yet to send comes
  after. The lemmas `SortedConcat`, `AheadConcat`, `TailFrom` and `AppendFrom` say what
  reading, splitting and joining do to that order.
* `PosixShmProofs` (any workers, any number of runs and inits, started at any
  moment). `Alone` says which semaphores are at 0 and why, and that two workers inside
  have different ones; it holds whatever happens to the names, and the refinement
  follows from it. The rest is `Whole`, claimed while `torn` is false: `Paired` and `Ready`
  order the steps of init and cleanup, so that the nth semaphore belongs to the
  nth segment, which is sized and cleared before it; `Same`: who has both has a
  pair; `Counted`: nobody changes a count between load and store.
* `CharDevProofs` (any threads, files, page size). Positions are loaded and
  stored outside the mutex and may be stale; the length only grows, so a
  position that was within the data stays within it (`LoadedInData`), and a
  copy's range was cut under the mutex (`CopyInBounds`). The refinement of
  `AtomicFile` needs `OneCopier`: the contents differ from those at the last unlock
  by what the one copying call has copied, byte for byte (`CopiedSoFar`). The
  abstract read or write is the `Unlock`; `Return` is the abstract return, all other
  steps stutter until the device is mapped.
  For `RdTime` (words of any size) the invariant follows the read: after the
  low word there is a time, between the beginning and now, with this low word
  and a high word at least `hi`; when the second high word equals `hi` that time is
  the value returned.
* `ProcessProofs`, `ForkServer` (any connections). A client sees the end of its
  connection when the last copy of the descriptor is closed, and fork makes the
  copies. `Accepting` and `Holds` say that at every place of the server, of a child
  and of its date they hold no connection but their own, and which; `Answered`
  what a client that stays has been sent at each of these places, whoever reaps
  whom. Then no copy is left only when the child and date are through.
* `ProcessProofs`, `TerminalLoops` (any instances, messages and files). `Places`
  ties what a process has open to its place in the program. For `ReadsFindData`:
  `Moved` says that who opened two different files reads one that the path has
  left, so no new writer can come to it; `Reported` that what select saw is still
  there, or a second reader (`Sharers`) may have taken it, or nobody writes. Both
  speak of a file that others use, and `EchoUndisturbed` and `OthersUndisturbed` say what they
  can do to it. For `PrintedOnce`: a message that went through a FIFO is in one
  file or printed by one process (`Once`), files and terminals are increasing, and
  what a reader will get comes after what it has printed (`Ordered`); a regular
  file holds one message, which is read once (`Kinds`). `Cut`, `Joined` and `Appended` say what
  a read, a print and an echo do to the order. For the LED, `LedLit`: while it is on
  somebody is in the loop or could not turn it off.
* `DriverLoadProofs` (the nine drivers, any of whose acquisitions may fail, any
  number of interrupts). The first part, `LInv`, is about loading. `Loading`: what
  is held comes from the first part of the driver's `Plan` and what is to do is
  the rest. `Unloading`: what lets a call in goes before what the call uses.
  `Called`: whoever is in a call, or will be woken, has what it uses. It rests on
  lemmas about the plans themselves: what a call uses is acquired before what
  lets it in (`UsedFirst`) and released after it (`UsedLast`), all is released
  (`ExitAll`) and undone (`UnwindAll`), and no call is let in before the last failure
  (`NoGateYet`). The second part, `HInv`, is about the handlers: what a handler has
  left to do is an ending of its body (`Steps`), the thread runs at most as often
  as interrupts came (`Woken`), and `Stamped`, `ThreadCounts`, `SwCounts` and `Alone` say
  for each instruction what registers, counter, level and LED are.

The assumptions are the named ASSUMEs of the modules: `SysvAssumption`,
`StartAssumption`, `InversionAssumption`, `ServerAssumption`, `ShmAssumption`,
`WordAssumption`, `CharDevAssumption`, `LoadAssumption`, `LoopsAssumption`. They say that bounds are
natural numbers (positive where 0 would leave nothing to do), that
processes and clients are finite sets, that `NoOne` and `NoThread` are not among
them, that the token `body` is not a command, that there is a file and a byte 0,
that `CanFail` names drivers and `Programs` programs, and that no file is called
`none`. `ForkServer` assumes nothing. TLC evaluates them in the runs.

Only model-checked: all liveness (fairness and ENABLED are outside the prover:
`HealthServed`, `ServedWhenPaymentsEnd`, `Drained`, `Accepted`, `CallsReturn`, `Closes`,
`ZombiesReaped`, `UnloadEnds`, `EveryIrqServed`, `MessagesPrinted`, `EndsWhenAsked`). Every
safety property of the runs that pass is proved. `CharDevProofs` and `ProcessProofs`
extend two models each, so the names that every module has begin with `Clock` in
`RdTime` and with `Fork` in `ForkServer`. None of the modules proved
about uses recursion.

## 6. Assumptions and limits

* The scripts' `sleep 1` is long enough for the programs already started to
  finish their start or give up.
* One CPU in `PrioInversion`: the repository starts qemu with `-smp 1`
  (`src/Makefile:62`); the kernel's throttling of real time tasks is left
  out. A client of health that has left keeps its descriptor ready: health, of
  the highest priority, then spins. The model contains this; no property
  promises anything to the others then.
* Reads of a FIFO or of health's socket take all that is pending; buffer sizes
  are not reached. Requests of the forking servers fit the buffer.
* One `posix_shm_init` and one `posix_shm_cleanup` run at a time, and they are not
  killed.
* `epoll_wait` takes from the front of the kernel's ready list and puts what it
  reports at its end. This is what Linux does, not what epoll(7) promises;
  `Drained` and `Accepted` rest on it where the array is smaller than what is
  ready. A socket leaves the list when it is found to have nothing to read.
* The counter of `RdTime` does not wrap in the life of the machine; the variants
  of `read_counter.h` for other processors read it in one instruction.
* Of the two words of `irq_time` the low one is stored and loaded first; on
  gpio-sim, whose line is not masked, they can be of two interrupts when one comes while
  the thread runs. A debugfs file of `virt-int.c` that is kept open over `rmmod`,
  with no call in progress, is left out.
* `setup-gpiosim.sh` is run while no driver is loaded. A failed acquisition of
  `mychardev.c`, which checks none, is left out. `trigger_write` and an interrupt
  overlap in `virt-int.c`; two writers of its file at once do not (`active` holds
  one call of each kind).
* In `TerminalLoops` all processes run the same program: different ones share
  nothing. A message is shorter than the buffer; one read may take several.

Met while modelling:

* Built with USE_PI_SEM and launched by `run_poll_fifo.sh`, the logger or health can map a mutex
  that another program has made but not yet sized or initialised, and lock
  it as soon as there is work: a bus error, or an initialisation under
  the holder. `TouchesReadySemaphore` therefore speaks of the other combinations.
* A write to `chardev.c` whose user copy faults clears the bytes it could not
  copy. Data that was there is lost, though the call does not count it.
* `posix_shm_init` clears the count of a segment that workers are using, without
  the semaphore; and a worker that opens its semaphore before and its segment
  after a cleanup and an init counts in the new segment under the old
  semaphore, beside one that uses the new.
* A client of the forking servers gets end of file without a date when `execlp`
  fails; with the server's output in a file it may get the server's first
  line of output instead.
* A regular file at `FIFO_PATH` (a shell's `>` before the first start) is always
  readable and gives end of file: `select.c` then spins, though the comment at
  `select.c:97` says that `n == 0` should not occur. The comment's reason, that the
  writing end is open, speaks of a FIFO; `ReadsFindData` states it so.
* After a gpio-sim probe that failed the lookup table stays in the kernel's list
  when the module goes, because its remove function is not called.
* `signal.c` waits in `pause` for a signal whose handler has already run.

## 7. Plan

In order:

1. `chardev_user.c` as a client of `CharDev` and `RdTime` at once.
2. The pipes, the queue and the socket between two processes; `signal.c`.
3. A composition of `EpollServer` and `PrioInversion` through payment's socket.
