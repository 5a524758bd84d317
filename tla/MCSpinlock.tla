----------------------------- MODULE MCSpinlock -----------------------------
(***************************************************************************)
(* Two CPUs with one level of interrupts.  The lock order is the one of    *)
(* the code: AllocatePages logs under the PMM lock (LOG_ERROR takes the    *)
(* log lock) and LogFmt writes to the serial port under the log lock.      *)
(***************************************************************************)
EXTENDS Spinlock

CONSTANTS pmm, log, serial

CodeOrder == {<<pmm, log>>, <<pmm, serial>>, <<log, serial>>}
=============================================================================
