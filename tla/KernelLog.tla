------------------------------ MODULE KernelLog ------------------------------
(***************************************************************************)
(* LOG_MESSAGE, Logging::LogFmt, Kernel::Log, Kernel::Panic, the logging   *)
(* of IDT::HandleException, and the two consoles behind them: IO::Serial   *)
(* and IO::FramebufferConsole.  A context that logs is the thread of a CPU *)
(* or an interrupt handler that suspends it; the locks are those of        *)
(* AbstractLock, taken with interrupts off.                                *)
(*                                                                         *)
(* What a context has still to write is a sequence of <<device, text>>.    *)
(* LogFmt writes a message in several texts; a newline follows once the    *)
(* log lock is released.                                                   *)
(***************************************************************************)
EXTENDS Naturals, Sequences

CONSTANTS
    Contexts, Nobody,
    Threads,          \* the contexts that are no handlers, one to a CPU
    CpuOf,            \* CpuOf[c]: where context c runs
    serial, fb,       \* debugPort and framebufferConsole
    Parts,            \* texts that LogFmt writes for one message
    Levels,           \* LogLevel (0 .. 4), and what the command line may set
    ERROR,            \* LogLevel::ERROR
    ErrorMessages,    \* LOG_ERRORs of HandleException before it panics
    Length            \* characters of a text

ASSUME KernelLogAssumption ==
    /\ Parts \in Nat \ {0} /\ ErrorMessages \in Nat \ {0} /\ Length \in Nat \ {0}
    /\ Levels \subseteq Nat /\ ERROR \in Levels
    /\ serial # fb /\ Nobody \notin Contexts
    /\ Threads \subseteq Contexts /\ \A c, e \in Threads : CpuOf[c] = CpuOf[e] => c = e

Devices == {serial, fb}
Texts == 0 .. Parts                 \* 0 is the newline or a text of a panic

VARIABLES
    ready,            \* ready[d]: portsInitStatus / _initialized
    minimumLogLevel,
    logLock, lock,    \* holder of the log lock, and of each device's _lock
    doing,            \* doing[c]: what c is in the middle of
    todo,             \* todo[c]: the Writes left to do
    errors,           \* errors[c]: LOG_ERRORs left before PANIC
    charIndex,        \* of the Serial::Write that is under way
    transmitEmpty,    \* the bit of the line status register
    last              \* last[d]: <<context, part>> last written of a message

vars == <<ready, minimumLogLevel, logLock, lock, doing, todo, errors,
          charIndex, transmitEmpty, last>>
config == <<ready, minimumLogLevel>>
port == <<charIndex, transmitEmpty>>

\* Kernel::Log: the text goes to the serial port, then to the framebuffer.
Log(t) == <<<<serial, t>>, <<fb, t>>>>
MessageWrites == [k \in 1 .. 2 * Parts |-> Log((k + 1) \div 2)[2 - (k % 2)]]
\* Kernel::Panic: "Kernel panic: " and the message, on one and then the other.
PanicWrites == <<<<serial, 0>>, <<serial, 0>>, <<fb, 0>>, <<fb, 0>>>>

\* Serial::Initialize may find no port; the framebuffer is ready only after
\* FramebufferConsole::Initialize.
Init ==
    /\ ready \in [Devices -> BOOLEAN]
    /\ minimumLogLevel \in Levels
    /\ logLock = Nobody /\ lock = [d \in Devices |-> Nobody]
    /\ doing = [c \in Contexts |-> "idle"]
    /\ todo = [c \in Contexts |-> <<>>]
    /\ errors = [c \in Contexts |-> 0]
    /\ charIndex = 0 /\ transmitEmpty = TRUE
    /\ last = [d \in Devices |-> <<Nobody, 0>>]

(***************************************************************************)
(* Which context of a CPU runs.  Lock turns interrupts off before it waits *)
(* and the ScopedLock turns them on again with its release; Panic leaves   *)
(* them off, and handlers of interrupts and exceptions have them off.  A   *)
(* thread that is about to take its first lock can still be interrupted.   *)
(***************************************************************************)
InterruptibleAlways(c) ==        \* Mutant: Lock does not turn interrupts off
    doing[c] = "idle" \/ (c \in Threads /\ errors[c] = 0 /\ doing[c] \notin {"panic", "halted"})

Interruptible(c) ==
    \/ doing[c] = "idle"
    \/ /\ c \in Threads /\ errors[c] = 0 /\ doing[c] \in {"log_wait", "newline"}
       /\ \A d \in Devices : lock[d] # c

Runs(c) ==
    \A e \in Contexts \ {c} : CpuOf[e] = CpuOf[c] =>
        \/ doing[e] = "idle"
        \/ c \notin Threads /\ (doing[c] # "idle" \/ Interruptible(e))

At(c, place) == doing[c] = place /\ Runs(c)
Do(c, what) == doing' = [doing EXCEPT ![c] = what]

(***************************************************************************)
(* LOG_MESSAGE(level, ...).                                                *)
(***************************************************************************)
LogMessage(level) == level >= ERROR \/ level >= minimumLogLevel

StartMessage(c) == /\ Do(c, "log_wait")
                   /\ UNCHANGED <<config, logLock, lock, todo, port, last>>

LOG_MESSAGE(c, level) ==
    /\ At(c, "idle")
    /\ LogMessage(level)
    /\ StartMessage(c)
    /\ UNCHANGED errors

EnterUnlocked(c) ==              \* Mutant: LogFmt without its ScopedLock
    /\ At(c, "log_wait")
    /\ todo' = [todo EXCEPT ![c] = MessageWrites]
    /\ Do(c, "log")
    /\ UNCHANGED <<config, logLock, lock, errors, port, last>>

EnterLogFmt(c) ==
    /\ At(c, "log_wait") /\ logLock = Nobody
    /\ logLock' = c
    /\ todo' = [todo EXCEPT ![c] = MessageWrites]
    /\ Do(c, "log")
    /\ UNCHANGED <<config, lock, errors, port, last>>

LeaveLogFmt(c) ==                \* ~ScopedLock, then Core::Write("\n\r")
    /\ At(c, "log") /\ todo[c] = <<>>
    /\ logLock' = Nobody
    /\ todo' = [todo EXCEPT ![c] = Log(0)]
    /\ Do(c, "newline")
    /\ UNCHANGED <<config, lock, errors, port, last>>

EndMessage(c) ==
    /\ At(c, "newline") /\ todo[c] = <<>>
    /\ Do(c, IF errors[c] > 0 THEN "exception" ELSE "idle")
    /\ UNCHANGED <<config, logLock, lock, todo, errors, port, last>>

(***************************************************************************)
(* Serial::Write and FramebufferConsole::Write, for the next text of c.    *)
(* The serial port looks whether it is ready before it takes its lock, the *)
(* framebuffer under it, except for the strings of Panic.                  *)
(***************************************************************************)
Writing(c) == doing[c] \in {"log", "newline", "panic"} /\ todo[c] # <<>>
Device(c) == Head(todo[c])[1]
Text(c) == Head(todo[c])[2]

Unready(c) == ~ready[Device(c)] /\ (Device(c) = serial \/ doing[c] = "panic")

SkipWrite(c) ==
    /\ Runs(c) /\ Writing(c) /\ Unready(c)
    /\ todo' = [todo EXCEPT ![c] = Tail(@)]
    /\ UNCHANGED <<config, logLock, lock, doing, errors, port, last>>

LockDevice(c) ==
    /\ Runs(c) /\ Writing(c) /\ ~Unready(c)
    /\ lock[Device(c)] = Nobody
    /\ lock' = [lock EXCEPT ![Device(c)] = c]
    /\ UNCHANGED <<config, logLock, doing, todo, errors, port, last>>

\* A character goes out once the one before it has left the transmitter.
SendChar(c) ==
    /\ Runs(c) /\ Writing(c) /\ Device(c) = serial /\ lock[serial] = c
    /\ charIndex < Length /\ transmitEmpty
    /\ charIndex' = charIndex + 1
    /\ transmitEmpty' = FALSE
    /\ UNCHANGED <<config, logLock, lock, doing, todo, errors, last>>

Put(c) == last' = IF ready[Device(c)] /\ Text(c) > 0
                  THEN [last EXCEPT ![Device(c)] = <<c, Text(c)>>] ELSE last

Written(c) == Device(c) = serial => charIndex = Length

\* Mutant: what is not ready is left by an early return, without an unlock.
WriteKeepsLock(c) ==
    /\ Runs(c) /\ Writing(c) /\ lock[Device(c)] = c /\ Written(c)
    /\ Put(c)
    /\ lock' = IF ready[Device(c)] THEN [lock EXCEPT ![Device(c)] = Nobody] ELSE lock
    /\ todo' = [todo EXCEPT ![c] = Tail(@)]
    /\ charIndex' = IF Device(c) = serial THEN 0 ELSE charIndex
    /\ UNCHANGED <<config, logLock, doing, errors, transmitEmpty>>

WriteDevice(c) ==                \* the end of Write, and ~ScopedLock
    /\ Runs(c) /\ Writing(c) /\ lock[Device(c)] = c /\ Written(c)
    /\ Put(c)
    /\ lock' = [lock EXCEPT ![Device(c)] = Nobody]
    /\ todo' = [todo EXCEPT ![c] = Tail(@)]
    /\ charIndex' = IF Device(c) = serial THEN 0 ELSE charIndex
    /\ UNCHANGED <<config, logLock, doing, errors, transmitEmpty>>

Transmit ==                      \* the port
    /\ ~transmitEmpty
    /\ transmitEmpty' = TRUE
    /\ UNCHANGED <<config, logLock, lock, doing, todo, errors, charIndex, last>>

(***************************************************************************)
(* PANIC, and an exception in code that holds none of these locks.         *)
(***************************************************************************)
Panic(c) ==
    /\ At(c, "idle") \/ (At(c, "exception") /\ errors[c] = 1)
    /\ errors' = [errors EXCEPT ![c] = 0]
    /\ todo' = [todo EXCEPT ![c] = PanicWrites]
    /\ Do(c, "panic")
    /\ UNCHANGED <<config, logLock, lock, port, last>>

Halt(c) ==
    /\ At(c, "panic") /\ todo[c] = <<>>
    /\ Do(c, "halted")
    /\ UNCHANGED <<config, logLock, lock, todo, errors, port, last>>

HandleException(c) ==
    /\ At(c, "idle")
    /\ errors' = [errors EXCEPT ![c] = ErrorMessages + 1]
    /\ Do(c, "exception")
    /\ UNCHANGED <<config, logLock, lock, todo, port, last>>

ExceptionLogs(c) ==              \* LOG_ERROR is never filtered out
    /\ At(c, "exception") /\ errors[c] > 1
    /\ errors' = [errors EXCEPT ![c] = @ - 1]
    /\ StartMessage(c)

Step(c) == \/ EnterLogFmt(c) \/ LeaveLogFmt(c) \/ EndMessage(c)
           \/ SkipWrite(c) \/ LockDevice(c) \/ SendChar(c) \/ WriteDevice(c)
           \/ Halt(c) \/ ExceptionLogs(c)
           \/ doing[c] = "exception" /\ Panic(c)

Next == \/ Transmit
        \/ \E c \in Contexts :
              \/ Step(c)
              \/ \E level \in Levels : LOG_MESSAGE(c, level)
              \/ HandleException(c) \/ Panic(c)

Spec == Init /\ [][Next]_vars

\* Every CPU goes on with the context that runs on it, and the port sends
\* what it is given.  Which of the CPUs that wait gets a lock is up to the
\* compare-exchange, so no fairness is assumed of that, and interrupts may
\* keep a thread from running for ever.
FairSpec == Spec /\ WF_vars(Transmit) /\ \A c \in Contexts : WF_vars(Step(c))

(***************************************************************************)
(* Properties.                                                             *)
(***************************************************************************)
\* On each console the texts of one message follow each other: between two
\* of them there is no text of another message, only the newline of a
\* message that has just ended, or a panic.
MessageContiguous ==
    \A c \in Contexts :
        doing[c] = "log" /\ todo[c] # <<>> /\ ready[Device(c)] /\ Text(c) > 1 =>
            last[Device(c)] = <<c, Text(c) - 1>>

\* Nobody that does not go on keeps a lock from the others: a context that
\* logs nothing, has halted, waits for the log lock or is suspended by a
\* handler, and nobody holds the locks of both consoles.
LocksReleased ==
    \A c \in Contexts :
        /\ doing[c] \in {"idle", "exception", "halted", "log_wait"} \/ ~Runs(c) =>
             logLock # c /\ \A d \in Devices : lock[d] # c
        /\ ~(lock[serial] = c /\ lock[fb] = c)

\* Whoever has the log lock gets its message through and releases it, however
\* long the others go on logging, and even if they panic in between: what
\* they can write without the log lock is bounded.  Waiting for the log lock
\* need not end, as the spin lock is not fair.
HolderLeaves == \A c \in Contexts : logLock = c ~> logLock # c

\* An exception in code that holds none of these locks ends in the panic
\* message and the halt, on whatever consoles are ready, if in the end the
\* other contexts log no more: they never leave a lock behind.
Silent(c) == \A e \in Contexts \ {c} : doing[e] \in {"idle", "halted"} \/ ~Runs(e)
ExceptionHalts ==
    \A c \in Contexts :
        <>[]Silent(c) => (doing[c] \in {"exception", "panic"} ~> doing[c] = "halted")
==============================================================================
