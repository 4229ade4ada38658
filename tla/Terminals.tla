----------------------------- MODULE Terminals -----------------------------
(***************************************************************************)
(* A terminal of the virtual machine, from the fifos of the terminal       *)
(* emulator to the threads that read and write it: the keyboard and        *)
(* console devices and the PIC daemon of bios.c, the interrupts of core 0, *)
(* the serial driver of kernel_dev.c, and the start and the end of the     *)
(* machine (vm_run(), core_thread(), boot_tinyos_kernel()).                *)
(*                                                                         *)
(* A reader and a writer thread make system calls, one at a time thanks to *)
(* the kernel semaphore.  They share the cores: serial_read() runs with    *)
(* preemption off, and a thread is preempted elsewhere by an ALARM.        *)
(* Interrupts of the devices go to core 0, the default of bios.c, which    *)
(* the kernel never changes.  Bytes are counted, not told apart.  The      *)
(* driver polls the console and its handler of SERIAL_TX_READY does        *)
(* nothing, so the interrupts of the console are left out.                 *)
(***************************************************************************)
EXTENDS Integers, FiniteSets

CONSTANTS NCores,
          FifoSize,     \* bytes that a fifo holds
          InBytes,      \* bytes typed, and asked for by the reader
          OutBytes      \* bytes the writer writes

ASSUME TerminalsAssumption ==
    {NCores, FifoSize, InBytes, OutBytes} \subseteq Nat \ {0}

Cores == 0 .. NCores - 1
TermUsers == {"reader", "writer"}

VARIABLES
    kbd, con,   \* bytes in the fifos of the terminal
    typed,      \* bytes typed so far
    ready,      \* the ready flag of the keyboard
    late,       \* its last_int is over SERIAL_TIMEOUT ago
    expired,    \* the timer of core 0 has sent its SIGALRM
    pending,    \* intr_pending of core 0
    sig,        \* SIGUSR1 is pending for core 0
    intvec,     \* core 0 has its interrupt handlers
    pic, seen,  \* where the PIC daemon is; select() has returned the keyboard
    PIC_active,
    cpu,        \* where each core is in core_thread()
    core,       \* the core a thread runs on, or -1
    at,         \* where a thread is
    moved, todo,\* bytes moved by the call; bytes left to move
    kernel_mutex, kernel_sem,
    ghost       \* the PIC has sent a signal to a core that has ended

machineVars == <<pic, PIC_active, cpu, intvec>>
deviceVars == <<kbd, con, typed, ready, late, expired>>
interruptVars == <<pending, sig>>
threadVars == <<core, at, moved, todo, kernel_mutex, kernel_sem>>
terminalVars == <<machineVars, deviceVars, interruptVars, threadVars, seen, ghost>>

TerminalsInit ==
    /\ kbd = 0 /\ con = 0 /\ typed = 0
    /\ ready = FALSE /\ late = FALSE /\ expired = FALSE
    /\ pending = {} /\ sig = FALSE /\ intvec = FALSE
    /\ pic = "off" /\ seen = FALSE /\ PIC_active = FALSE
    /\ cpu = [c \in Cores |-> "off"]
    /\ core = [t \in TermUsers |-> -1]
    /\ at = [t \in TermUsers |-> "lock"]
    /\ moved = [t \in TermUsers |-> 0]
    /\ todo = [t \in TermUsers |-> IF t = "reader" THEN InBytes ELSE OutBytes]
    /\ kernel_mutex = "none" /\ kernel_sem = 1
    /\ ghost = FALSE

\* vm_run() up to PIC_daemon(): terminal_init() and the core threads.  The
\* console may hold bytes that the emulator has not shown yet.
VmRun ==
    /\ pic = "off"
    /\ pic' = "start" /\ PIC_active' = TRUE
    /\ cpu' = [c \in Cores |-> "start"]
    /\ con' \in 0 .. FifoSize
    /\ UNCHANGED <<intvec, interruptVars, kbd, typed, ready, late, expired, threadVars, seen, ghost>>

-----------------------------------------------------------------------------
(* The terminal emulator.                                                  *)

\* transfer_byte() from the standard input to the keyboard ...
Type ==
    /\ pic # "off" /\ typed < InBytes /\ kbd < FifoSize
    /\ typed' = typed + 1
    /\ kbd' = kbd + 1
    /\ UNCHANGED <<con, machineVars, interruptVars, threadVars, ready, late, expired, seen, ghost>>

\* ... and from the console to the standard output
Show ==
    /\ pic # "off" /\ con > 0
    /\ con' = con - 1
    /\ UNCHANGED <<kbd, machineVars, interruptVars, threadVars, typed, ready, late, expired, seen, ghost>>

\* Time passes: the timer of core 0, set by gain(), goes off, and the timeout
\* of the keyboard is over.
TimePasses ==
    /\ pic # "off"
    /\ late' = TRUE
    /\ expired' = (expired \/ cpu[0] = "run")
    /\ UNCHANGED <<machineVars, interruptVars, threadVars, kbd, con, typed, ready, seen, ghost>>

-----------------------------------------------------------------------------
(* The PIC daemon.                                                         *)

\* raise_interrupt() for each of irqs, on core 0: a signal only for one that
\* is not pending yet.
raise_interrupt(irqs) ==
    /\ pending' = pending \cup irqs
    /\ sig' = (sig \/ ~(irqs \subseteq pending))
    /\ ghost' = (ghost \/ (~(irqs \subseteq pending) /\ cpu[0] = "ended"))

\* One pass up to pic_select(): a keyboard that is not ready is polled, and
\* core 0 gets its ALARM if its timer has expired.  select()
\* returns at any time: after SERIAL_TIMEOUT at the latest, or when a device
\* that turned not ready has sent SIGUSR1.
PicSelect ==
    /\ pic = "loop" /\ PIC_active
    /\ seen' = (~ready /\ kbd > 0)
    /\ raise_interrupt(IF expired THEN {"ALARM"} ELSE {})
    /\ expired' = FALSE
    /\ pic' = "raise"
    /\ UNCHANGED <<PIC_active, cpu, intvec, kbd, con, typed, ready, late, threadVars>>

\* Faulty variant: an interrupt that was lost is not repeated.
RaisedOnce == seen

\* term_dev_raise_if_ready() has reason to raise an interrupt: select() has
\* returned the device, or last_int is over SERIAL_TIMEOUT ago.
Raised == seen \/ late

\* term_dev_raise_if_ready() for the keyboard
PicRaise ==
    /\ pic = "raise"
    /\ ready' = (ready \/ Raised)
    /\ late' = (late /\ ~Raised)
    /\ raise_interrupt(IF Raised THEN {"SERIAL_RX_READY"} ELSE {})
    /\ seen' = FALSE
    /\ pic' = "loop"
    /\ UNCHANGED <<PIC_active, cpu, intvec, kbd, con, typed, expired, threadVars>>

\* The loop ends; the daemon goes to the barrier.
PicStop ==
    /\ pic = "loop" /\ ~PIC_active
    /\ pic' = "leaving"
    /\ UNCHANGED <<PIC_active, cpu, intvec, interruptVars, deviceVars, threadVars, seen, ghost>>

\* After the barrier vm_run() joins the core threads, and destroys the
\* terminals.
PicEnd ==
    /\ pic = "close" /\ \A c \in Cores : cpu[c] = "ended"
    /\ pic' = "ended"
    /\ UNCHANGED <<PIC_active, cpu, intvec, interruptVars, deviceVars, threadVars, seen, ghost>>

PicStep == PicSelect \/ PicRaise \/ PicStop \/ PicEnd

-----------------------------------------------------------------------------
(* The cores: core_thread() and boot_tinyos_kernel().                      *)

\* The threads at the system barrier, at the start or at the end.
AtSystemBarrier ==
    {c \in Cores : cpu[c] \in {"start", "leaving"}}
        \cup (IF pic \in {"start", "leaving"} THEN {-1} ELSE {})

AtCoreBarrier == {c \in Cores : cpu[c] \in {"booted", "stopped"}}

\* system_barrier is initialised for ncores+1 threads
SystemParties == Cardinality(Cores) + 1

\* The threads S leave the system barrier together.
SystemBarrier ==
    \E S \in SUBSET AtSystemBarrier :
        /\ Cardinality(S) = SystemParties
        /\ cpu' = [c \in Cores |-> IF c \notin S THEN cpu[c]
                                   ELSE IF cpu[c] = "start" THEN "boot" ELSE "ended"]
        /\ pic' = IF -1 \notin S THEN pic ELSE IF pic = "start" THEN "loop" ELSE "close"
        /\ UNCHANGED <<PIC_active, intvec, interruptVars, deviceVars, threadVars, seen, ghost>>

\* Core 0 initialises the kernel, which installs the handlers of its
\* interrupts, and makes the first process.
Boot(c) ==
    /\ cpu[c] = "boot"
    /\ cpu' = [cpu EXCEPT ![c] = "booted"]
    /\ intvec' = (intvec \/ c = 0)
    /\ UNCHANGED <<pic, PIC_active, interruptVars, deviceVars, threadVars, seen, ghost>>

\* core_barrier, before run_scheduler() and after it
CoreBarrier ==
    /\ AtCoreBarrier = Cores
    /\ cpu' = [c \in Cores |-> IF cpu[c] = "booted" THEN "run" ELSE "leave"]
    /\ UNCHANGED <<pic, PIC_active, intvec, interruptVars, deviceVars, threadVars, seen, ghost>>

\* The scheduler returns when no thread is left; the handlers are reset.
StopCore(c) ==
    /\ cpu[c] = "run" /\ \A t \in TermUsers : at[t] = "done"
    /\ cpu' = [cpu EXCEPT ![c] = "stopped"]
    /\ intvec' = (intvec /\ c # 0)
    /\ UNCHANGED <<pic, PIC_active, interruptVars, deviceVars, threadVars, seen, ghost>>

\* Faulty variant: core 0 does not wait for the PIC daemon at the barrier.
LeaveAtOnce(c) ==
    /\ cpu[c] = "leave"
    /\ PIC_active' = (PIC_active /\ c # 0)
    /\ cpu' = [cpu EXCEPT ![c] = "ended"]
    /\ UNCHANGED <<pic, intvec, interruptVars, deviceVars, threadVars, seen, ghost>>

\* Core 0 stops the PIC daemon.
Leave(c) ==
    /\ cpu[c] = "leave"
    /\ PIC_active' = (PIC_active /\ c # 0)
    /\ cpu' = [cpu EXCEPT ![c] = "leaving"]
    /\ UNCHANGED <<pic, intvec, interruptVars, deviceVars, threadVars, seen, ghost>>

CoreStep == SystemBarrier \/ CoreBarrier \/ \E c \in Cores : Boot(c) \/ StopCore(c) \/ Leave(c)

-----------------------------------------------------------------------------
(* Interrupts and scheduling.                                              *)

\* The reader is between preempt_off and preempt_on of serial_read().
PreemptOff(t) == t = "reader" /\ at[t] \in {"try", "mark", "wait", "woken"}

Blocked == {"asleep", "semwait", "resem", "done"}

\* t, on a core of its own, is executing.
Running(t) == core[t] # -1

\* The threads in the queues of the scheduler
READY == {t \in TermUsers : core[t] = -1 /\ at[t] \notin Blocked}

\* What yield() on core c may make of core: another thread gets the core, or
\* the current one keeps it when no other is READY.
yield(c) ==
    IF READY = {} THEN {core}
    ELSE {[t \in TermUsers |-> IF t = u THEN c ELSE IF core[t] = c THEN -1 ELSE core[t]] :
             u \in READY}

\* An idle core takes a thread, or a core other than core 0 has its ALARM.
Reschedule(c) ==
    /\ cpu[c] = "run" /\ READY # {}
    /\ \A t \in TermUsers : core[t] = c => (c # 0 /\ ~PreemptOff(t))
    /\ core' \in yield(c)
    /\ UNCHANGED <<machineVars, deviceVars, interruptVars, at, moved, todo, kernel_mutex, kernel_sem, seen, ghost>>

\* The reader, if Cond_Broadcast(&rx_ready) is called, wakes up.
Broadcast(places) ==
    [places EXCEPT !["reader"] = IF @ = "asleep" THEN "woken" ELSE @]

\* sigusr1_handler() or, when the core is idle, cpu_core_halt(), with the loop
\* of dispatch_interrupts().  The ALARM, of the lower number, comes first:
\* yield() may give the core to another thread.  A thread that comes back on
\* another core leaves the loop, and one that does not come back for long
\* stays in it: SERIAL_RX_READY is pending then with no signal for it.
\* Handlers that have been reset do nothing.
TakeSignal(stays) ==
    LET alarm == cpu[0] = "run" /\ "ALARM" \in pending
        rest  == IF alarm /\ ~stays THEN pending \ {"ALARM"} ELSE {}
    IN
    /\ sig /\ cpu[0] # "ended" /\ (stays \/ (alarm /\ READY # {}))
    /\ ~\E t \in TermUsers : core[t] = 0 /\ PreemptOff(t)
    /\ sig' = FALSE /\ pending' = rest
    /\ core' \in IF alarm THEN yield(0) ELSE {core}
    /\ at' = IF intvec /\ "SERIAL_RX_READY" \in pending \ rest THEN Broadcast(at) ELSE at
    /\ UNCHANGED <<machineVars, deviceVars, moved, todo, kernel_mutex, kernel_sem, seen, ghost>>

-----------------------------------------------------------------------------
(* System calls: kernel_lock(), kernel_unlock().                           *)

\* Mutex_Lock(&kernel_mutex): a thread that finds it locked spins; it yields
\* the core now and then if preemption is on (Reschedule, TakeSignal).
LockMutex(t, from, to) ==
    /\ Running(t) /\ at[t] = from /\ kernel_mutex = "none"
    /\ kernel_mutex' = t
    /\ at' = [at EXCEPT ![t] = to]
    /\ UNCHANGED <<machineVars, deviceVars, interruptVars, core, moved, todo, kernel_sem, seen, ghost>>

\* The state after Cond_Signal(&kernel_sem_cv)
SemSignalled(places) ==
    [t \in TermUsers |-> CASE places[t] = "semwait" -> "lock"
                       [] places[t] = "resem" -> "woken"
                       [] OTHER -> places[t]]

\* kernel_lock() with kernel_mutex locked
TakeSem(t) ==
    /\ Running(t) /\ at[t] = "sem"
    /\ kernel_mutex' = "none"
    /\ kernel_sem' = 0
    /\ at' = [at EXCEPT ![t] = IF kernel_sem = 0 THEN "semwait" ELSE "try"]
    /\ core' = [core EXCEPT ![t] = IF kernel_sem = 0 THEN -1 ELSE @]
    /\ UNCHANGED <<machineVars, deviceVars, interruptVars, moved, todo, seen, ghost>>

\* kernel_unlock() with kernel_mutex locked.  The call returns moved, and the
\* thread makes another one for the bytes that are left, or ends.
PostSem(t) ==
    /\ Running(t) /\ at[t] = "post"
    /\ kernel_mutex' = "none"
    /\ kernel_sem' = 1
    /\ at' = [SemSignalled(at) EXCEPT ![t] = IF moved[t] = todo[t] THEN "done" ELSE "lock"]
    /\ core' = [core EXCEPT ![t] = IF moved[t] = todo[t] THEN -1 ELSE @]
    /\ todo' = [todo EXCEPT ![t] = @ - moved[t]]
    /\ moved' = [moved EXCEPT ![t] = 0]
    /\ UNCHANGED <<machineVars, deviceVars, interruptVars, seen, ghost>>

-----------------------------------------------------------------------------
(* The serial driver.                                                      *)

\* io_device_read() would get a byte, and io_device_write() has room for one.
FdReady(t) == IF t = "reader" THEN kbd > 0 ELSE con < FifoSize

\* io_device_read() or io_device_write() of one byte succeeds.
MoveByte(t) ==
    /\ Running(t) /\ at[t] = "try" /\ FdReady(t)
    /\ kbd' = IF t = "reader" THEN kbd - 1 ELSE kbd
    /\ con' = IF t = "writer" THEN con + 1 ELSE con
    /\ moved' = [moved EXCEPT ![t] = @ + 1]
    /\ at' = [at EXCEPT ![t] = IF moved[t] + 1 = todo[t] THEN "unlock" ELSE "try"]
    /\ UNCHANGED <<machineVars, interruptVars, typed, ready, late, expired, core, todo,
                   kernel_mutex, kernel_sem, seen, ghost>>

MoveFails(t) ==
    /\ Running(t) /\ at[t] = "try" /\ ~FdReady(t)
    /\ at' = [at EXCEPT ![t] = "mark"]
    /\ UNCHANGED <<machineVars, deviceVars, interruptVars, core, moved, todo,
                   kernel_mutex, kernel_sem, seen, ghost>>

\* Where a failed transfer leads: nothing was read, or written, yet ...
Nothing(t) == IF t = "reader" THEN "wait" ELSE "try"

\* A failed transfer turns the keyboard not ready.  A call that has moved a byte
\* returns; otherwise serial_write() yields, and serial_read() waits.
MarkDevice(t) ==
    /\ Running(t) /\ at[t] = "mark"
    /\ ready' = (ready /\ t = "writer")
    /\ at' = [at EXCEPT ![t] = IF moved[t] > 0 THEN "unlock" ELSE Nothing(t)]
    /\ core' \in IF t = "writer" /\ moved[t] = 0 THEN yield(core[t]) ELSE {core}
    /\ UNCHANGED <<machineVars, interruptVars, kbd, con, typed, late, expired, moved, todo,
                   kernel_mutex, kernel_sem, seen, ghost>>

\* kernel_wait(&rx_ready), up to the sleep
WaitRx ==
    /\ Running("reader") /\ at["reader"] = "wait" /\ kernel_mutex = "none"
    /\ kernel_sem' = 1
    /\ at' = [SemSignalled(at) EXCEPT !["reader"] = "asleep"]
    /\ core' = [core EXCEPT !["reader"] = -1]
    /\ UNCHANGED <<machineVars, deviceVars, interruptVars, moved, todo, kernel_mutex, seen, ghost>>

\* kernel_wait() after the sleep: kernel_mutex, and then the semaphore
RetakeSem ==
    /\ Running("reader") /\ at["reader"] = "woken" /\ kernel_mutex = "none"
    /\ kernel_sem' = 0
    /\ at' = [at EXCEPT !["reader"] = IF kernel_sem = 0 THEN "resem" ELSE "try"]
    /\ core' = [core EXCEPT !["reader"] = IF kernel_sem = 0 THEN -1 ELSE @]
    /\ UNCHANGED <<machineVars, deviceVars, interruptVars, moved, todo, kernel_mutex, seen, ghost>>

UserStep(t) ==
    \/ LockMutex(t, "lock", "sem") \/ TakeSem(t)
    \/ LockMutex(t, "unlock", "post") \/ PostSem(t)
    \/ MoveByte(t) \/ MoveFails(t) \/ MarkDevice(t)
    \/ t = "reader" /\ (WaitRx \/ RetakeSem)

-----------------------------------------------------------------------------
TerminalsNext ==
    \/ VmRun \/ Type \/ Show \/ TimePasses
    \/ PicStep \/ CoreStep
    \/ \E stays \in BOOLEAN : TakeSignal(stays)
    \/ \E c \in Cores : Reschedule(c)
    \/ \E t \in TermUsers : UserStep(t)

\* The host runs the threads of the machine and the emulator, and time
\* passes; the machine delivers signals and gives its cores to threads.
TerminalsFairness ==
    /\ WF_terminalVars(Type) /\ WF_terminalVars(Show) /\ WF_terminalVars(TimePasses)
    /\ WF_terminalVars(PicStep) /\ WF_terminalVars(CoreStep)
    /\ WF_terminalVars(TakeSignal(TRUE))
    /\ WF_terminalVars(\E c \in Cores : Reschedule(c))
    /\ \A t \in TermUsers : WF_terminalVars(UserStep(t))

TerminalsSpec == TerminalsInit /\ [][TerminalsNext]_terminalVars /\ TerminalsFairness

-----------------------------------------------------------------------------
(* Properties.                                                             *)

\* The PIC daemon signals core threads that exist: the cores and the daemon
\* meet at system_barrier, after core 0 has told the daemon to stop and
\* before any core thread ends.
SignalsLiveCores == ~ghost

\* A thread that reads the keyboard and one that writes the console end, and
\* then the machine stops.  An interrupt that comes between the failed
\* bios_read_serial() and the sleep on rx_ready is lost, or stays pending on
\* core 0 without a signal: term_dev_raise_if_ready() must repeat it.
MachineStops == []<>(pic \in {"off", "ended"})

\* The comment on Mutex_Lock() of kernel_cc.c: it spins when preemption is
\* off, so that it can be called from the non-preemptive domain too.  Here,
\* kernel_wait() of serial_read() gets kernel_mutex in the end.
SpinEnds ==
    LET spinning == core["reader"] # -1 /\ at["reader"] \in {"wait", "woken"}
    IN  spinning ~> ~spinning
=============================================================================
