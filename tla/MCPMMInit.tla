------------------------------ MODULE MCPMMInit ------------------------------
(***************************************************************************)
(* Every memory map of one or two entries in a memory of MaxAddr bytes     *)
(* with pages of two bytes, bytes of four bits and a "MiB" of one page.    *)
(***************************************************************************)
EXTENDS PMMInit

CONSTANT MaxAddr

Entries == {e \in [base : 0 .. MaxAddr - 1, length : 1 .. MaxAddr, usable : BOOLEAN] :
                e.base + e.length <= MaxAddr}

Before(d, e) == d.base + d.length <= e.base
SmallMaps == {IF p[1] = p[2] THEN <<p[1]>> ELSE p :
                p \in {q \in Entries \X Entries : q[1] = q[2] \/ Before(q[1], q[2])}}

SmallTest == <<1, 1, 2>>
==============================================================================
