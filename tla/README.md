# TLA+ specifications of tinyOS 3

tinyOS is a small multi-core operating system kernel that runs on a simulated
machine. This directory holds specifications of its kernel, the configurations
with which TLC checks them on small instances, and proofs that TLAPS checks
for every instance. Paths below are relative to `src/tinyos3-master/`.
`PROJECT.json` lists the runs, the code lines every definition stands for,
the hazards, the mutants and the theorems.

## 1. The system

| Component | State | Operations | Interacts with |
|---|---|---|---|
| Scheduler (`kernel_sched.c/.h`) | TCBs (state, phase, priority, wakeup time), `SCHED[]`, `TIMEOUT_LIST`, the cores' `CCB`s, `yield_counter`, `active_threads` | `spawn_thread`, `wakeup`, `sleep_releasing`, `yield`/`gain`, aging, timeouts, idle threads | halt vector and timer of the BIOS; called by locks, interrupts, threads |
| Halting of cores (`bios.c`) | `halt_vector`, pending inter-core interrupts, timers | `cpu_core_halt`, `cpu_core_restart_one/all`, interrupts | the scheduler's idle threads |
| Locks and condition variables (`kernel_cc.c/.h`) | `kernel_mutex`, `kernel_sem`, rings of waiters (on the waiters' stacks) | `Mutex_*`, `Cond_*`, `kernel_lock/unlock/wait/signal/broadcast/sleep` | scheduler (sleep, wakeup, timeouts); every system call |
| Streams (`kernel_streams.c/.h`) | FCBs with reference counts, their free list, FIDTs | `Read`, `Write`, `Close`, `Dup2`, `FCB_reserve` | pipes, sockets, devices through `file_ops` |
| Pipes (`kernel_pipe.c/.h`) | ring buffer, the two ends, `has_data`, `has_space` | read, write, close of either end | streams, kernel monitor |
| Sockets (`kernel_socket.c/.h`) | `Port_Map`, listener queues, peers, reference counts | `Socket`, `Listen`, `Accept`, `Connect`, `ShutDown` | pipes, streams, timeouts |
| Threads of a process (`kernel_threads.c`) | PTCBs: exited, detached, reference count, exit value | `CreateThread`, `ThreadJoin`, `ThreadDetach`, `ThreadExit` | processes, kernel monitor |
| Process table (`kernel_proc.c/.h`) | PCBs: state, parent, children, exited children, thread count; free list | `Exec`, `WaitChild`, `Exit`, `OpenInfo` | threads, streams |
| Devices (`kernel_dev.c/.h`) | serial control blocks, `rx_ready` | serial read/write, interrupt handler | BIOS, scheduler (preemption) |
| Virtual machine (`bios.c/.h`, `terminal.c`) | fifos, device flags, pending interrupts, `PIC_active`, the two barriers | `vm_run()`, PIC daemon, `raise_interrupt()`, `cpu_interrupt_handler()`, serial ports | the kernel's interrupt handlers; a terminal emulator |
| System calls, boot (`kernel_sys.c`, `kernel_init.c`) | – | every call runs between `kernel_lock()` and `kernel_unlock()` | all of the above |
| Intrusive lists (`util.h`) | rings of `rlnode`s | splice, push, pop, remove | all of the above |
| Library (`tinyoslib.c`) | `barrier` | `BarrierSync()`, `Execute()`, `fidopen()` | system calls |
| Programs (`symposium.c`, `tinyos_shell.c`) | the philosophers' table; the shell's descriptors; the globals of the remote server | `process_line()`, `SymposiumTable_philosopher()`, `RemoteServer()`, … | system calls |
| Test harness (`unit_testing.c/.h`) | a process per test, two daemons that play the terminal | `execute_fork()`, `sendme()`, `expect()` | the virtual machine, the host's signals |

What is hard to test here:

* the scheduler releases `sched_spinlock` twice between the decision to sleep
  and the swap of contexts, and other cores may wake the thread up in each gap;
* an idle core decides to halt on a value it read before, while another core
  restarts "all halted cores";
* `cv_wait()` keeps its waiter on the stack while a signaller still writes to
  it, and a timeout may wake the waiter up at the same time;
* threads barge past the one that `kernel_unlock()` signalled;
* several readers and writers of a pipe race with the closing of either end
  and with the reference counts of its FCBs;
* joiners, detachers and the exiting thread share a reference count that
  decides when the PTCB is freed;
* parents, children and grandchildren end in any order, and the free list of
  PCBs is threaded through the field that otherwise names the parent;
* `Accept()` and `Connect()` sleep on one condition variable, one of them with
  a timeout, while the listener may be closed and its port taken again;
* the serial driver reads with preemption off, while the interrupt that would
  wake it up may already be gone;
* a pipeline ends only if every write end of every pipe is closed everywhere.

The list with source lines is under `hazards` in `PROJECT.json`.

## 2. The modules

```
Lists ──► Scheduler ──► SchedulerProofs          (TLAPS, as all ...Proofs)
            │   └─────► MCScheduler, MCKernelSafety   (TLC, as all MC...)
            ▼
KernelCC ─► MCKernel                KernelCC implements Monitor
KernelCC, Streams ────────────────► MCLocksAndFiles
KernelCC, Rings ─► KernelCCProofs
Pipe, Sockets ────────────────────► MCIpc        Pipe implements Channel
Sockets ──────────────────────────► MCKernelSafety
Pipe ─► PipeProofs      Sockets ─► SocketsProofs
Processes, ThreadLife ────────────► MCProcs
Processes, ThreadLife ─► ProcessesProofs
Streams ─► StreamsProofs
Streams ─► Pipeline ──┐
Rings,                │
Symposium, Barrier,   ├───────────► MCPrograms
RemoteServer,         │
Terminals, Harness ───┘
Symposium, Barrier, RemoteServer, Terminals, Harness,
Pipeline (with StreamsProofs) ────► ProgramProofs
```

`Lists` states what is needed of sequences without duplicates, and proves it;
`Scheduler`, `KernelCC` and the proofs of processes and sockets use it.

The layers are connected by abstraction. `Scheduler` shows that threads run
and are woken up exactly as `wakeup()`, `sleep_releasing()` and timeouts say;
`KernelCC` uses this in the form of a thread that is STOPPED or not.
`KernelCC` is shown to implement `Monitor`: one thread inside, `kernel_wait()`
leaves and re-enters. The models of the system calls use the monitor: a call,
or the part of one between two `kernel_wait()`s, is atomic with respect to
other calls. Where a loop inside a call is itself of interest (copying bytes,
init's `Exit()`), its turns are separate steps of the thread that holds the
monitor, in the variable `kernel`. The programs in turn are made of system
calls: `Pipeline` takes those of `Streams` as they are.
`Rings` justifies that the other modules take intrusive lists as sequences, for
lists of any number and length (`RingsAreSound`).

An MC module with a variable `workload` holds several parts that share nothing,
and a behaviour of it is a behaviour of one of them; the other parts keep their
initial states. The parts need no interleaving with each other, so that their
state spaces add up and do not multiply.

Definitions named "Faulty variant" are the mutations listed in `PROJECT.json`.
They are used nowhere else.

### Scheduler

State: the fields of the TCBs; `SCHED` and `TIMEOUT_LIST` as sequences;
`current_thread` and `previous_thread` of each core; `cpc`, the core's
position in `yield()`/`gain()`; `halt_vector` as a set of cores; `idle_pc`, the
position of each idle thread in `idle_thread()` and `cpu_core_halt()`. `saved`
is true while the context in the TCB is the one the thread was suspended with.

| Action | Code |
|---|---|
| `spawn_thread`, `wakeup` | the functions of these names, by the thread a core runs |
| `Block`, `Exit` (`sleep_releasing`) | `sleep_releasing()` up to the release of `sched_spinlock`, for a sleep and for the end of a thread |
| `YieldSleeping`, `YieldQuantum`, `YieldMutex`, `IdleYield`, `IdleAlarm` (all `EnterYield`) | the five ways into `yield()`: its first half, with the change of priority and `aging()` |
| `WakeupExpired` | one turn of `sched_wakeup_expired_timeouts()` |
| `SelectNext` | `sched_queue_select()` and the release of the lock |
| `SwapContext`, `Gain` | `cpu_swap_context()`; `gain()` |
| `IdleCheck`, `HaltSetBit`, `HaltInterrupt`, `HaltClearBit` | `idle_thread()` and the steps of `cpu_core_halt()` |
| `Tick` | time passes |

All other critical sections of `sched_spinlock` are one action each. `NONE` is
added to the thread states for a TCB that is not allocated. The clock counts up
to `MaxClock`; times are taken modulo `TimerMod` (2^64 in the code).

Not in the model: `last_cause`, used for nothing but the test for two mutex
yields in a row, is read through `curr_cause`, of which it is the previous
value; quantum lengths; the thread list for debugging.

### KernelCC and Monitor

State: the holders of `kernel_mutex` and of every `waitset_lock`,
`kernel_sem`, the rings, and for every thread its position, its TCB state and
the waiter record on its stack (`signalled`, `removed`). A step takes at most
one mutex. `cv_wait()` is `Enqueue`, `Release`, `sleep_releasing`, `Tidy`, and
`LockMutex`; `cv_signal()` is `SignalLock`, `Pop`, `Wake`, `Mark`, `NoWaiter`.
`kernel_lock()`, `kernel_unlock()`, `kernel_wait_wchan()`, `kernel_signal()`,
`kernel_broadcast()` and `kernel_sleep()` start calls made of these steps.
`Mutex_Lock()` is a wait until the mutex is free; the yields of a spinning
thread are `YieldMutex` of Scheduler.

### Pipe and Channel

State: `Pipe_CB` (buffer, positions, `used_space`, which ends are open), the two
FCBs (`fids`, descriptors that refer to them, and `refcount`), and for each
thread its position in `Read()` or `Write()`. `frees` counts `free()`.
`Read`/`ReadTest`/`ReadByte`/`ReadReturn` and their `Write` counterparts follow
`sys_Read`/`pipe_read` and `sys_Write`/`pipe_write` line by line, `Resume` is
the return of `kernel_wait()`; `Close`, `Inherit` and `Dup2` are the calls that
change the number of descriptors. `Channel` is the promise of `Pipe()` in
`tinyos.h`; the refinement mapping reads the bytes between the two positions.

### ThreadLife

The PTCBs of one process. `sys_CreateThread` (with `acquire_PTCB`),
`sys_ThreadJoin`, `JoinResume` (the return of `kernel_wait()`), `FinishJoin`,
`sys_ThreadDetach` and `sys_ThreadExit` are the functions of
`kernel_threads.c`. A tid is the address of a PTCB, so that a freed one may be
handed out again.

### Processes

PCBs, the free list linked through `parent`, and the threads of all processes.
`Exec`, `CreateThread`, `WaitChild`, `WaitAny`, `ThreadExit` and `InitExit`
are the calls, the `...Resume` actions the returns of `kernel_wait()`, and
`InitExitLoop` a turn of the loop in init's `Exit()`. Two constants state how
programs use the calls: `SharedWaits` (several threads of a process wait for the
same child) and `InitLeaves` (init may end in another way than by `Exit()` in
its last thread). Exit values are not modelled here.

### Streams

The FCBs with their free list and reference counts, and the FIDT of every
process, in one record `os`; the calls are functions from a table to a table:
`sys_OpenNull`, `sys_OpenTerminal`, `sys_Pipe`, `sys_Dup2`, `sys_Close`,
`Inherit` (what `Exec()` does to the FIDT) and `ExitFids`. `FCB_reserve` and
`FCB_reserve_fails` are the two outcomes of the function, the second one with
its roll-back. The order of the free list is kept. `Block` and `Unblock` stand
for a `Read()` or `Write()` that holds a reference while it sleeps.

### Sockets

The sockets of a process: `Port_Map`, the `Socket_CB`s made so far (`sock`), the
requests (`req`), the ring of each listener's `req_available` (`waitset`), and
for each pipe of a connection whether its ends are open and how often it was
freed. `Socket`, `Listen`, `Accept` (with `AcceptLoop`, `Take` and
`AcceptResume`), `Connect` (with `ConnectTimeout` and `ConnectReturn`),
`ShutDown`, `SocketClose` and `Transfer` (`Read()`, `Write()`, with
`TransferLoop` and `TransferResume`) follow `kernel_socket.c`. `Read()` and
`Write()` may sleep in a pipe and hold the socket's stream open meanwhile; what
is in the pipe is left to `Pipe`, so that here a call may find it empty, full or
in between at any time. `cv_signal()` takes every waiter it passes over off the
ring (`Reached`): the thread at its end need not be the one that was signalled.

Three things are undefined behaviour, and end the behaviour of the model with
the reason in `crashed`. `"request"`: `Connect()` or `Accept()` reads or writes
the queue node of a `Connect()` that has returned, which was on its stack; this
includes the neighbour that `rlist_push_front()` and `rlist_pop_front()` link
anew. `"listener"`: a `Connect()` wakes up in a listener that has been freed. The
thread locks `waitset_lock` first and the kernel semaphore only then, so this
lock may come before or after the `free()`, and the model tries both. `"pipe"`: a
pipe is used after it was freed. When such a use is another close of one of its
ends, what is left in the memory decides whether it is freed once more, and
`frees` counts it if so.

`Reuse` says whether a socket that waits in `Connect()` may be given to `Listen()`
or to another `Connect()` meanwhile. With `Reuse` the model is right for as long
as no thread sleeps in `Accept()` on a socket that becomes a peer: the fields of
the two share memory.

### Rings

`rl_splice()` and everything `util.h` builds on it, on `next` and `prev`
pointers, together with the sequences the lists should be. A loop along the
pointers is the function of the node it has come to after so many turns (`Walk`);
`SelectTurn` is one turn of `rlist_select()`, and `Only` what that should leave or
move. `RingsNext` makes
the calls in any order that their comments allow, except `rlist_pop_back()` (see
section 6).

### Terminals

From the fifo of a terminal emulator to the threads that read and write it. The
keyboard and the console as in `bios.c` (`kbd`, `con`, `ready`, `late`: its last
interrupt is more than `SERIAL_TIMEOUT` ago); the PIC daemon (`PicSelect`,
`PicRaise`, `PicStop`, `PicEnd`); the core threads from `system_barrier` to
`core_barrier` (`VmRun`, `SystemBarrier`, `Boot`, `CoreBarrier`, `StopCore`,
`Leave`); interrupts (`raise_interrupt`, `TakeSignal` for
`cpu_interrupt_handler()` with `dispatch_interrupts()`, `Reschedule`); and a
reader and a writer inside `kernel_lock()`, `serial_read()` and
`serial_write()`, down to `kernel_mutex`, because reading runs with preemption
off. Bytes are counted.

### Harness

`execute_fork()` (`Fork`, `SigWait`, `Cancel`, `Kill`, `WaitPid`, `Expire`), the
child (`CloseDaemon`, `ChildEnds`), and the daemons that type what the test
`sendme()`s (`KbdPoll`, `KbdWrite`) and compare the console with what it
`expect()`s (`ConPoll`, `ConCheck`, `ConRead`). The test is arbitrary: it asks
for patterns, reads, writes, hangs or ends. It may ask for patterns at any
time, and they queue up behind those the daemon has not met; `MaxPatterns` bounds
how many are unmet at once.

### Pipeline

`process_line()` of the shell, one step for each system call, over an instance
of `Streams` with the shell and its children as processes; the children write,
copy or count bytes one at a time, as streams opened with `fidopen()` do. The lines
are all those of up to `MaxFrags` fragments made of programs that only write
("echo": Echo, Hanoi, Fibonacci), copy their input ("copy") or read it all and
then report ("count"), in any order, but for one restriction: the first program
does not read, since that would be the terminal. A program that only writes
may stand behind a pipe, too, whose bytes nobody reads then.

Some of these lines never end, by the code: `Jams` says which. When a program
writes more than a pipe holds to one that does not read, it waits for good,
because it has inherited the read end of its own output pipe, and so the exit
of the program behind it does not break the pipe. `LinesEnd` states both
directions: all other lines end, and these do not.

### Symposium, Barrier, RemoteServer

`Symposium`: the host (`Create`, `Reap`, `Destroy`) and the philosophers
(`Arrive`, `Hunger`, `WakeUp`, `Sated`, `LeaveTable`), as threads or as
processes, some of which cannot be created. `Barrier`: `BarrierSync()` (`Sync`,
`SyncResume`), several times over, and then the cycle of joins of
`test_cyclic_joins`. `RemoteServer`: the listener, the threads of the
connections and the console, with `active_conn` loaded and stored in separate
steps; `mishap` tells what has gone wrong because of them.

## 3. The runs

| Run | Instance | What it shows |
|---|---|---|
| `kernel_safety` | cores: 2 cores (1 physical), 2 threads, 3 queues, aging every 2nd yield, timeouts 0, 1, none | queues, contexts, timeouts and assertions stay right in every interleaving of two cores |
| | sockets: 2 threads, 3 descriptors, 1 port, 3 sockets, 2 requests | `PortMapSound`, `SocketsProtected`, `ConnectionSound` |
| `sched_liveness` | 1 core, 3 threads, 2 queues | `NoStarvation`, `TimeoutsFire` |
| `locks_and_files` | locks: 3 threads, 1 condition variable besides `kernel_sem_cv` | exclusion, no dangling waiter, no lost wakeup (`KernelInvariant`), results of waits, refinement of `Monitor` |
| | files: 2 processes, 3 FCBs, 2 descriptors each, 1 pipe | `FilesSound`: reference counts equal references, free list and roll-back of `FCB_reserve()` |
| `kernel_liveness` | locks: 2 threads; cores: 2 cores, 1 thread | `KernelProgress`; `CoresLeave`: the race between halting and restarting costs at most one timer interrupt |
| `ipc` | pipe: 2 threads, 2 byte values, buffer of 2, transfers of up to 2, 2 descriptors per end | no use after free, no lost wakeup (`PipeInvariant`), refinement of `Channel`, `CallsReturn` |
| | sockets: 2 threads, 2 descriptors, 1 port, 3 sockets, 2 requests | `AcceptLeaves` |
| `procs` | processes: 5 PCBs, 4 threads | family tree, free list, thread counts, no missed exit, zombies are reaped |
| | threads: the main thread and 2 others, tids reused | reference counts, lifetime of PTCBs, every joiner returns |
| `programs` | shell: 2 lines of up to 3 fragments, 3 bytes, buffer of 1 | `ShellRestored`, `AllBytesArrive`, `LinesEnd` |
| | up to 4 philosophers, 2 bites, 3 free PCBs | `TableSound`, `SymposiumEnds` |
| | barrier: 3 threads and the main thread, 2 rounds | `BarrierHolds`, `BarrierPasses` |
| | server: 2 clients | `QuitIsClean`, `QuitEnds` |
| | rings: 2 lists, 4 nodes, 2 keys | `RingsSound` |
| | machine: 2 cores, fifos of 1 byte, 2 bytes typed, 1 written | `SignalsLiveCores`, `MachineStops` |
| | harness: patterns and output of 2 bytes, fifos of 1, up to 3 unmet patterns per daemon | `PassMeansMet`, `TestsEnd` |
| `procs_shared_wait` | 5 PCBs, 4 threads, `SharedWaits` | **violation**, see section 6 |
| `sockets_connect`, `sockets_shutdown` | 2 threads, 1 port, 3 descriptors, 3 sockets, 1 request | **violations**, see section 6 |
| `sockets_listen` | 2 threads, 2 ports, 3 descriptors, 1 request, `Reuse` | **violation**, see section 6 |
| `terminals_one_core` | 1 core, 1 byte typed and 1 written | **violation**, see section 6 |

Why these bounds. Every queue of the scheduler has an upper and a lower
neighbour with three priorities; two cores are what a race for a thread needs,
and a third thread is what starvation on one core needs. With three threads a
condition variable has a signaller, a waiter that times out and one that does
not. Three FCBs and two descriptors let `FCB_reserve()` fail for lack of either,
also half way. A buffer of two bytes and transfers of two wrap at every offset;
one reader and one writer with two descriptors each see an end closed while they
sleep and while it is duplicated. Two threads, a port and three sockets are a
listener and the two ends of a connection, or three sockets that compete for the
port, of which one may take it over from another that was closed; two requests
are one that is honoured and one that times out, or two in the queue at once.
Two descriptors are enough for `AcceptLeaves`: a listener and a socket that
connects to it. Three threads of a process are a target and
two joiners. Five PCBs are the null process, init, a parent, a child and a
grandchild or a second child; four threads let three generations run at once.
Three fragments have one with a pipe on either side; a second line shows
that the first one left nothing behind; more bytes than the buffer holds make
the writer wait. Three unmet patterns are one in work and two behind it. Four philosophers have two who do not sit side by side, and
with three free PCBs one of them is missing. Two rounds are what reuse of a
barrier needs. Four nodes make lists whose first, middle and last nodes differ.
The machine types one byte more than the keyboard's fifo holds. Bounds are constants
in the guards: `MaxClock`, `MaxTransfer`, `MaxFids`, `MAX_PROC`,
`PIPE_BUFFER_SIZE`, `MaxPipes`, `MaxSockets`, `MaxRequests`, `MaxLines`,
`MaxPatterns`, `Rounds`, `MaxOutput` and the finite sets of threads.

Symmetry is used in `locks_and_files` (threads), where all properties are safety
properties and treat the threads alike; the other runs have liveness properties,
or no members that could be exchanged, and use none.

Deadlock is checked in the scheduler's runs, `locks_and_files`,
`kernel_liveness`, `procs` and the violation of `Processes`. Their
specifications name the states in which the system may really
stop (`Halted`, `Quiet`, `Down`, `Stuck`; the sockets of `kernel_safety` may stop
anywhere, `SocketsStop`). It is not checked in `ipc` and
the three runs of `Sockets`, where threads may wait for ever in `Accept()`, and in
`programs` and `terminals_one_core`, where the programs and the machine end.
There the liveness properties say what must not stop.

### Fairness

* Scheduler: strong fairness of a core's kernel steps and of its idle thread.
  Critical sections are short and do not block, so that a core that spins on
  `sched_spinlock` gets it if it becomes free again and again; the timer armed
  by `gain()` interrupts running threads and halted cores. Nothing is
  assumed of the threads themselves.
* KernelCC: a thread that is in a call goes on (weak), timeouts expire (weak),
  and a thread inside the kernel leaves it in the end (strong). The system
  calls have no unbounded loop without `kernel_wait()`.
* Pipe: weak fairness of a thread inside a call, strong fairness of the return
  from `kernel_wait()`. **The code does not guarantee the second alone**:
  threads that enter the kernel may overtake the one that was woken up any
  number of times, since `kernel_sem` is not handed over. `KernelProgress` is
  all that holds without it. `CallsReturn` is therefore relative to no thread
  being overtaken for ever.
* Processes, ThreadLife, Sockets: weak fairness of the returns from
  `kernel_wait()` and of the timeout of `Connect()`. A call leaves the monitor
  within its step, so that a thread woken up can always go on; being overtaken
  is abstracted away together with the monitor.
* Pipeline, Symposium, Barrier: weak fairness of each process or thread that
  can go on. RemoteServer: strong fairness of a connection's thread, because
  `mx` is held now and then by others.
* Terminals: weak fairness of the terminal, the PIC daemon, the cores,
  the ALARM that gives a core to another thread, and each thread. None for
  an interrupt that nobody signals: `MachineStops` relies on the daemon
  raising it again. Harness: weak fairness of the timer, the parent, the
  daemons and the end of the child, but none of the test, which may hang.

Liveness with a condition. `AcceptLeaves` says nothing of a thread whose port has
had another listener: the loop of `Accept()` takes that one for its own. It and
all properties of `Sockets` end with the behaviour when `crashed`. `LinesEnd` is
about the lines that do not jam, and says of the others that they never end.
`QuitIsClean` and `QuitEnds` hold up to the first `mishap`. `TestsEnd` counts
a harness that its own alarm has ended ("terminated") as an end; `PassMeansMet`
is what keeps this from hiding a failure.

Safety with a condition. `procs` is run with `SharedWaits` and `InitLeaves`
FALSE, `kernel_safety` and `ipc` with `Reuse` FALSE: programs that keep to this are the ones the
properties promise something to, and the runs `procs_shared_wait` and
`sockets_listen` show what happens to the others. The same conditions are
hypotheses of the theorems.

## 4. The proofs

TLAPS checks the theorems below for every value of the constants that the
`ASSUME`s of the modules allow: any number of threads, cores, processes, queues,
condition variables, descriptors, ports, philosophers, clients, and any size of
buffers.

| Module | Theorem | Property |
|---|---|---|
| `SchedulerProofs` | `TypeCorrect` | `TypeOK` |
| | `QueueCorrect` | `QueueInvariant`: a thread is queued, once and in the queue of its priority, exactly when it is READY, CTX_CLEAN and not picked by a core |
| | `ContextsSafe` | `ContextSafe`: only saved contexts are loaded and no two cores hold the same thread |
| | `TimeoutsCorrect` | `TimeoutInvariant`: the sorted `TIMEOUT_LIST` holds exactly the stopped threads with a wakeup time |
| | `AssertionsCorrect` | `AssertionsHold`: the `assert`s of `kernel_sched.c` do not fail |
| | `NobodyLeftBehind` | `NoThreadLeftBehind`: a core leaves the scheduler only when all threads are gone |
| `KernelCCProofs` | `KernelSound` | `KernelInvariant`: exclusion, waiters that are alive while they are in a ring, the assertion of `cv_wait()`, no lost wakeup of the semaphore |
| | `WaitTellsCause` | `ResultTellsCause`: a wait returns 1 exactly if a signal ended it |
| | `SignalsReachWaiters` | `SignalReachesAWaiter`: a signal is not used up by a thread whose timeout came first |
| | `KernelIsMonitor` | `ImplementsMonitor` |
| | `RingsAreSound` | `RingsSound`: the pointers of `util.h` are the sequences that the other modules take a list for |
| `PipeProofs` | `PipeSound` | `PipeInvariant`: ring within bounds, no use after `free()`, no lost wakeup |
| | `PipeIsChannel` | `ImplementsChannel`: a bounded FIFO channel |
| `StreamsProofs` | `FilesAreSound` | `FilesSound`: reference counts, the free list of FCBs, and the open ends of pipes |
| `ProcessesProofs` | `ThreadsSound` | `ThreadsInvariant`: lifetime of PTCBs, reference and thread counts |
| | `JoinsReturnTheExitValue` | `[][JoinReturnsOrWaits]_threadLifeVars`, the safety part of `AllJoinersReturn` |
| | `ProcessesSound` | `ProcessInvariant`: family tree, thread counts, no missed exit |
| | `FreeListIsSound` | `FreeListSound` |
| `SocketsProofs` | `PortMapIsSound` | `PortMapSound` |
| | `SocketsStayProtected` | `SocketsProtected`: the reference counts are exact; what the free of a socket overtakes is at most a `Connect()` that slept in this listener and has been woken |
| | `ConnectionsAreSound` | `ConnectionSound`: crossed pipes, gone exactly when both ends were closed, however often they are freed |
| | `ListenersRemain` | `ListenersStay` |
| `ProgramProofs` | `BarrierIsSound` | `BarrierHolds` |
| | `TableIsSound` | `TableSound` |
| | `QuitsCleanly` | `QuitIsClean` |
| | `SignalsReachLiveCores` | `SignalsLiveCores` |
| | `PassedTestsAreMet` | `PassMeansMet`, for any number of patterns queued at once |
| | `LineIsRestored` | `ShellRestored`: a line of any length leaks no descriptor, FCB or pipe |
| | `BytesArrive` | `AllBytesArrive`: no byte is lost on the way to a program that reads its input |

Every module goes the same way: an inductive invariant, a lemma that the
initial states satisfy it, one lemma for each action that preserves it, a
theorem that it always holds, and then the properties. Hardly any of the
properties is inductive itself. What had to be added, and why:

* **Scheduler** (`IInv`). That a thread which `wakeup()` makes READY may be
  queued depends on which core still has it in its hands and how far that core
  is in `yield()`. `CoresInv` states what is known of `current` and `previous`
  of a core at each of its positions, `HoldInv` that no thread is held twice,
  `RestInv` that a thread nobody holds has a clean, saved context and is neither
  running nor exited, and `QueueInv` and `TimeoutInv` the facts about queues in
  terms of "held". `CountInv` adds that `active_threads` is the number of
  allocated threads, so that a core which has found it zero is right for good.
* **KernelCC** (`IInv`). `MutexInv` and `SemInv` say who holds what at each
  position, `StopInv` and `RingInv` that a stopped thread is in the ring of its
  condition variable or in the hands of a signaller, `WaiterInv` what a signaller
  has in its hands, `CauseInv` when `signalled` is set relative to the
  wakeup, and `NotLostInv` that a thread which stays out of the kernel while
  others sleep for it is on its way to signal one of them. The refinement is
  proved action by action: each maps to one action of `Monitor` or to a stutter.
* **Rings** (`ListsHeld`). The proofs stand in `KernelCCProofs`, since the waiters
  of a condition variable are such a ring. `RingsSound` alone is not inductive: a
  splice of two nodes is only a right step when they are known to be in different
  rings, or one before the other in the same. `Parted` adds that the rings of all
  heads and of the nodes in no list share no node. Then a splice either makes one
  ring of two (`JoinRings`) or takes a node out of one (`NodeLeaves`), and leaves
  the others alone. Every call of `util.h` is one or two of these, but for
  `rlist_reverse()`, whose loop goes round the ring and once to each node
  (`WalkRound`), and `rlist_select()`, for which `Turned` states what the two
  lists are after each turn of its loop. `rlist_len()`, `rlist_find()` and
  `rlist_equal()` walk a ring that is known to be the sequence.
* **Pipe** (`IInv`). `FileInv` ties the reference counts to descriptors and to
  calls under way, `SleepInv` states why sleeping threads sleep, or who will wake
  them, `RingInv` that the bytes lie between the two positions, and `CopyInv` how
  far a call has come: without it a call could return fewer bytes than it moved.
  For the refinement, lemmas relate a byte put or taken at one position of
  the ring to the sequence of its contents.
* **Streams** (`Sound`). The lemmas are about a table and the FCBs that blocked
  calls hold, not about the variables, so that they apply to the table of
  `Pipeline` as well. A reference count is the cardinality of a set of descriptors,
  over all processes, and of calls; each system call is shown to change that set
  by one element or by one process's row. `FilesSound` alone is not inductive:
  releasing an FCB closes the stream it names, so `Sound` adds that every
  open end of a pipe is the stream of only one FCB in use. That `Exit()` releases FCBs in the order of their
  last descriptors, and `FCB_reserve()` takes the lowest descriptors, needs ranks: the
  number of elements before an element determines it (`Ranks`, `LowestSpec`).
* **ThreadLife** (`IInv`). `MainInv` is needed for the end of a process: the main
  thread's PTCB, counted once too often, is there for as long as any thread is.
* **Processes** (`IInv`). `ListInv` says which children each list holds, and
  `Acyclic` that nobody is an ancestor of itself: without it `Exit()` could hand
  a process to itself, and a zombie could be reaped under a child. `WaitInv` needs
  the hypothesis that no two threads wait for one child. The free list is the
  existence of an order of the FREE PCBs that the links follow; acquiring and
  releasing a PCB gives that order explicitly.
* **Sockets** (`SocketIInv`). `RequestInv` ties a request to the thread that
  waits for it, `BacklogInv` and `PendingInv` say that a queued request is
  not admitted and its socket is nothing else yet, `ListenerInv` and
  `TransferInv` that a call works on a socket of the right kind, and `PeerInv`
  that a connection belongs to one request. `SocketsProtected` needs them all:
  it counts threads, and each path through `Accept()` and `Connect()` has to
  find the socket that was counted. The uncounted `Connect()` needs `SleepInv` in
  addition: whoever still sleeps in a listener is in its ring, so that the
  broadcast of `socket_close()` leaves nobody asleep in freed memory.
* **Programs**. `BarrierIInv` relates the times a thread has come and gone to
  `epoch`; `TableIInv` states who is fed, with exceptions while seats change one
  by one (`FedBut`); `ServerIInv` counts the connections that are served;
  `HarnessIInv` counts the patterns that are not met yet, queued and in work;
  `MachineIInv` says where the cores are for each position of the PIC daemon.
* **Pipeline** (`PipelineIInv`). The last section of `StreamsProofs` says what a
  system call does to the table of the streams that descriptors lead to, free
  of FCBs and counts: `Close()`, `Dup2()`, `OpenNull()` and `Pipe()` change one
  or two entries, `Exec()` copies a row and `Exit()` empties one. With these,
  `RowInv` lists the shell's six descriptors before each call of
  `process_line()`. `LinkInv` says that whoever is to read as fragment i has
  the read end of a pipe nobody else reads, that whoever is to write as
  fragment i - 1 has its write end, and that the pipe holds what is written and
  not read; the two are the shell first and the programs later, which
  `Source` and `Sink` follow. `DoneInv` adds that a program which has finished
  its input has got all that was due and that the one before it has ended. So a
  pipe keeps its reader while it has a writer and `fputc()` loses no byte, and
  at the end of input the count is right. The shell's own writing ends matter: a
  program sees the end of its input only because no descriptor but that of its
  predecessor leads to it.

Assumptions. Sets of threads, tids, callers, clients are finite, as memory is;
bounds are at least 1. `TimerAssumption` (Scheduler): no sum of the clock and a
timeout is `NO_TIMEOUT`, the value that marks a thread without timeout; a
restriction on callers, since the code would put such a thread on `TIMEOUT_LIST`
and forget that it is there. Hypotheses of theorems, where the code leaves
something to its callers and a run shows that it does not hold otherwise:
`~ SharedWaits` and `~ InitLeaves` for `ProcessesProofs`, `~ Reuse` for
`SocketsProofs`. The theorem `QuitsCleanly` is about executions up to the first
lost update, as `QuitIsClean` is.

The lemmas on sets and sequences rest on the library's theorems about finite
sets, sequences and well-founded orders. Where an argument goes by induction (a
lowest descriptor exists, a set of processes has one whose parent is outside
it), it takes a least element, or an invariant quantified over all subsets,
rather than an induction schema. The loops of `util.h` are no exception: that a
set of numbers with 0, and with n + 1 whenever with n, has them all (`AllNat`) is
proved from the well-founded order of the numbers, and that the state of a loop
after every number of turns exists (`LoopExists`) from that.

Only model-checked is liveness: `NoStarvation`, `TimeoutsFire`, `KernelProgress`,
`CoresLeave`, `CallsReturn`, `AcceptLeaves`, `ZombiesReaped`, the first half of
`AllJoinersReturn`, and `LinesEnd`, `SymposiumEnds`, `BarrierPasses`, `QuitEnds`,
`MachineStops` and `TestsEnd` of the programs. Fairness and ENABLED are outside the prover's logic.

## 5. What is not modelled

* `OpenInfo()` (`procinfo_read()`): it only reads the process table; what may go
  wrong in it is in section 6.
* Exit statuses, arguments and the packing of arguments (`util.h`): data that
  is copied and that no property looks at.
* Set-up of host files, signals and timers, and the statistics of `bios.c`;
  terminals beyond the first, which is like it; the interrupts of the console
  (the kernel's handler for `SERIAL_TX_READY` does nothing); the window and
  keyboard handling of `terminal.c`.
* Parsing of command lines, and the commands of the shell that are no part of a
  pipeline's work (sum, listings, help), and what Hanoi and Fibonacci compute;
  `console.c`; `fibo()`.
* Option parsing and reporting of the test harness. The tests of
  `validate_api.c` are read as documentation of the interface; only the cyclic
  join test is run as a model.
* Memory: allocation succeeds, as the kernel assumes (`xmalloc`).

## 6. What came up

* `procs_shared_wait`: `wait_for_specific_child()` does not look again whose
  child it is when `kernel_wait()` returns. If two threads of a process wait
  for the same child, both release its PCB, and the free list is corrupted.
  With `SharedWaits = FALSE` everything in `procs` holds.
* `sockets_connect`: `Connect()` sleeps on `req_available` of the listener, and
  `Accept()` signals `connected_cv` of the request, on which nobody sleeps. A
  connection that was made is reported as -1 when the timeout comes first.
* `sockets_listen`: a socket that waits in `Connect()` is still unbound, and
  another thread may give it to `Listen()`. `Accept()` then makes a peer of a
  listener: `tinyos.h:579` says that a listening socket is good for nothing but
  `Accept()`, `Close()` and `Dup2()`. `Port_Map` goes on naming the socket, its
  port takes no other listener, and after `Close()` the entry dangles. In the
  same way the socket may be given to a second `Connect()`, and then the first
  connection loses its end (`ConnectionSound` fails with three threads). The
  inductive invariant of `SocketsProofs` needs that neither is done
  (`PendingInv`), which is how this came up.
* `terminals_one_core`: `serial_read()` calls `kernel_wait()` with preemption
  off, which makes `Mutex_Lock()` a spinlock. If the thread that holds
  `kernel_mutex` was preempted, a machine with one core hangs. With two cores
  `MachineStops` holds.
* `sockets_shutdown`: `tinyos.h:688` says that shutting down several times is no
  error. `pipe_reader_close()` and `pipe_writer_close()` do not test whether their
  end is closed, and the last close frees the pipe: the next `ShutDown()` of
  either socket uses and frees memory that is free. `Close()` of either socket
  after both were shut down does the same. `ConnectionSound` therefore says when
  a pipe is gone, and not that it is freed once.

Seen in the source without a run of its own:

* `tinyos.h:337` promises that a thread is joined successfully once.
  `sys_Exec()` counts the main thread's PTCB twice (`kernel_proc.c:213`), so that
  it survives a join and can be joined again. Nothing dangles
  (`ThreadsInvariant` states the extra reference): the PTCB is freed with the
  process.
* `kernel_sched.h:57-62` states "in the queue if and only if READY and
  CTX_CLEAN". Between `sched_queue_select()` and `gain()` the thread that was
  picked is READY, CTX_CLEAN and not queued; `QueueInvariant` states the
  exception, and `ContextSafe` that it does no harm.
* `halt_vector` is commented as denoting the halted cores (`bios.c:94`). A bit is
  set before `sigwaitinfo()` and `cpu_core_restart_one()` may clear it before the
  core waits; the timer interrupt covers this, as `CoresLeave` shows.
* `Exit()` is documented to end the process (`tinyos.h:245`). With other threads
  running it ends the calling thread only.
* The assertions at the end of init hold only if init's last thread is the one
  that calls `Exit()` (`InitLeaves = FALSE`).
* Lists. `rlist_pop_back()` (`util.h:455`) removes the head from the ring rather
  than the tail: the caller gets the right node and an empty list. The kernel
  does not use it; `test_list_queue` calls it and does not notice.
* Sockets. A `Connect()` holds no reference on the listener in whose `req_available`
  it sleeps. `socket_close()` wakes it up and frees the listener when no `Accept()`
  is counted (`375`), and the thread then locks `waitset_lock` in freed memory
  (`kernel_cc.c:141`). `SocketsProtected` states this exception and no other: such
  a thread is awake already, and the socket is the listener it waited in.
* Sockets. `Listen()` and `Accept()` follow the pointer of a stream before they
  test it (`kernel_socket.c:58`, `98`). A port equal to `MAX_PORT` passes the
  test of `Socket()`, as `tinyos.h:544` allows it, and is an index past the end
  of `Port_Map` (`19`, `78`). `Accept()` loses a request when it gets no descriptor (`136`). `Connect()` leaves a
  request on its stack in the listener's queue when it times out, where the next
  `Connect()` or `Accept()` writes to it, and its
  signal may wake up another `Connect()` instead of an `Accept()`. A client that
  is closed while it connects leaves pipe ends that nobody owns.
* Shell. A child of a pipeline inherits the read end of its own output pipe, so
  that it gets no error from writing to a pipe nobody else reads: `hanoi 12 | echo hi`
  never ends (`Jams`). The result of
  `Pipe()` is not tested. The remote server increments `active_conn` without
  its mutex (`tinyos_shell.c:463`), closes a socket that its listener still
  passes to `Accept()`, and at the end of its input returns while its threads
  still use the globals on its stack.
* Harness. `SIGALRM` may come between `sigwait()` and `alarm(0)` of
  `execute_fork()` and then ends the harness, although the comment there says
  that all is well when `SIGCHLD` arrives first. The console daemon may see its
  poll time out, then data and `complete` arrive, and report a mismatch that
  is none.
* `parse_int_list` compares `nlist[j]` where `args[j]` is meant
  (`unit_testing.c:893`).
  `procinfo_read()` reads `PT[MAX_PROC]` before it tests the bound
  (`kernel_proc.c:396`) and copies from the NULL arguments of a zombie (`423`).

## 7. Plan

Done: all components of the kernel, the machine with a terminal, the programs
whose threads or processes interact, and the harness; the invariants of all of
them, and both refinements, proved. What is left is in the models: `OpenInfo()`,
and exit statuses in `Processes`.
