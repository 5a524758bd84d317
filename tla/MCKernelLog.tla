---------------------------- MODULE MCKernelLog ----------------------------
(***************************************************************************)
(* Two CPUs; the first can be interrupted by a handler that logs.          *)
(***************************************************************************)
EXTENDS KernelLog

CONSTANTS t1, h1, t2

OneHandler == [c \in Contexts |-> IF c = t2 THEN 2 ELSE 1]
============================================================================
