-------------------------------- MODULE LAPIC --------------------------------
(***************************************************************************)
(* The parts of Interrupts::LAPIC that have no caller at start: SendIPI    *)
(* and its shorthands, and SetLvtTimer, called by the thread and by a      *)
(* handler that interrupts it between any two accesses to a register.      *)
(* SendEOI and Initialize are in IDT.                                      *)
(***************************************************************************)
EXTENDS Naturals, Sequences

CONSTANTS
    Requests,      \* [vector, destination, shorthand]: the IPIs asked for
    Timers         \* [vector, divide, count]: what SetLvtTimer is asked for

ASSUME LAPICAssumption ==
    /\ Requests \subseteq [vector : Nat, destination : Nat, shorthand : STRING]
    /\ Timers \subseteq [vector : Nat, divide : Nat, count : Nat]

VARIABLES
    lpc,           \* lpc[x]: where context x is; the handler runs to its end
    ask,           \* ask[x]: what x is sending or setting
    icrHigh,       \* the destination register
    sending,       \* the IPI behind the delivery status, bit 12 of ICR_LOW
    sent,          \* the last IPI that went out
    timer,         \* the timer's registers
    running,       \* what the timer counts down with, since its last start
    overtaken      \* the handler wrote what the thread's call has written

lvars == <<lpc, ask, icrHigh, sending, sent, timer, running, overtaken>>

Contexts == {"thread", "handler"}
Nothing == <<>>
Idle(x) == lpc[x] = "idle"
Runs(x) == x = "handler" \/ Idle("handler")      \* on one CPU

LInit ==
    /\ lpc = [x \in Contexts |-> "idle"]
    /\ ask = [x \in Contexts |-> Nothing]
    /\ icrHigh = 0 /\ sending = Nothing /\ sent = Nothing
    /\ timer = [divide |-> 0, vector |-> 0, count |-> 0] /\ running = Nothing
    /\ overtaken = FALSE

Call(x, what, at) ==
    /\ Idle(x) /\ Runs(x)
    /\ ask' = [ask EXCEPT ![x] = what]
    /\ lpc' = [lpc EXCEPT ![x] = at]

Go(x, from, to) ==
    /\ lpc[x] = from /\ Runs(x)
    /\ lpc' = [lpc EXCEPT ![x] = to]

Overtakes(x, places) ==
    overtaken' = IF x = "thread" THEN FALSE ELSE overtaken \/ lpc["thread"] \in places

(***************************************************************************)
(* SendIPI(vector, destination, deliveryMode, triggerMode, shorthand).     *)
(***************************************************************************)
SendIPI(x, r) ==
    /\ Call(x, r, "wait")
    /\ UNCHANGED <<icrHigh, sending, sent, timer, running, overtaken>>

WaitSkipped(x) ==          \* Mutant: no loop of lines 64-66
    /\ Go(x, "wait", IF ask[x].shorthand = "NoShorthand" THEN "high" ELSE "low")
    /\ UNCHANGED <<ask, icrHigh, sending, sent, timer, running, overtaken>>

Wait(x) ==                 \* 64-66
    /\ sending = Nothing
    /\ Go(x, "wait", IF ask[x].shorthand = "NoShorthand" THEN "high" ELSE "low")
    /\ UNCHANGED <<ask, icrHigh, sending, sent, timer, running, overtaken>>

WriteHigh(x) ==            \* 69
    /\ Go(x, "high", "low")
    /\ icrHigh' = ask[x].destination
    /\ Overtakes(x, {"low"})
    /\ UNCHANGED <<ask, sending, sent, timer, running>>

WriteLow(x) ==             \* 72-78; starts the delivery
    /\ Go(x, "low", "sent")
    /\ sending' = [request |-> ask[x], to |-> icrHigh, mixed |-> x = "thread" /\ overtaken]
    /\ UNCHANGED <<ask, icrHigh, sent, timer, running, overtaken>>

Sent(x) ==                 \* 80-82
    /\ sending = Nothing
    /\ Go(x, "sent", "idle")
    /\ ask' = [ask EXCEPT ![x] = Nothing]
    /\ UNCHANGED <<icrHigh, sending, sent, timer, running, overtaken>>

Accept ==                  \* the bus takes the IPI
    /\ sending # Nothing
    /\ sent' = sending
    /\ sending' = Nothing
    /\ UNCHANGED <<lpc, ask, icrHigh, timer, running, overtaken>>

(***************************************************************************)
(* SetLvtTimer(vector, divide, periodic, count): writing the count starts  *)
(* the countdown, with whatever the other two registers hold.              *)
(***************************************************************************)
SetLvtTimer(x, t) ==       \* 53
    /\ Call(x, t, "vector")
    /\ timer' = [timer EXCEPT !.divide = t.divide]
    /\ Overtakes(x, {"vector", "count"})
    /\ UNCHANGED <<icrHigh, sending, sent, running>>

TimerVector(x) ==          \* 54
    /\ Go(x, "vector", "count")
    /\ timer' = [timer EXCEPT !.vector = ask[x].vector]
    /\ UNCHANGED <<ask, icrHigh, sending, sent, running, overtaken>>

TimerCount(x) ==           \* 55
    /\ Go(x, "count", "idle")
    /\ timer' = [timer EXCEPT !.count = ask[x].count]
    /\ running' = [regs |-> timer', asked |-> ask[x], mixed |-> x = "thread" /\ overtaken]
    /\ ask' = [ask EXCEPT ![x] = Nothing]
    /\ UNCHANGED <<icrHigh, sending, sent, overtaken>>

LSteps(x) == Wait(x) \/ WriteHigh(x) \/ WriteLow(x) \/ Sent(x) \/ TimerVector(x) \/ TimerCount(x)

LNext == \/ \E x \in Contexts : LSteps(x)
         \/ \E x \in Contexts, r \in Requests : SendIPI(x, r)
         \/ \E x \in Contexts, t \in Timers : SetLvtTimer(x, t)
         \/ Accept

(***************************************************************************)
(* Properties.                                                             *)
(***************************************************************************)
\* Thread and handler share the ICR without a lock: no IPI under way is
\* overwritten, and each goes where it was asked to go, unless the handler
\* wrote ICR_HIGH between the thread's two writes; one with a shorthand goes
\* there even then.  The timer counts with the registers of one call, unless
\* a handler's call fell into it.
IPIsExact ==
    [][/\ sending # Nothing /\ sending' # sending => sending' = Nothing /\ sent' = sending
       /\ sent' # sent /\ sent'.request.shorthand = "NoShorthand" =>
            sent'.mixed \/ sent'.to = sent'.request.destination
       /\ running' # running => running'.mixed \/ running'.regs = running'.asked]_lvars
==============================================================================
