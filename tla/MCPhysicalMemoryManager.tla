----------------------- MODULE MCPhysicalMemoryManager -----------------------
(***************************************************************************)
(* Two clients on a small memory.  Frame 0 is reserved, as is all of the   *)
(* first MiB; another reserved frame splits the rest into two regions.     *)
(***************************************************************************)
EXTENDS PhysicalMemoryManager

NoWildFrees == {}

\* A misaligned address, a reserved frame, the frame after the last one, a
\* run that begins well and ends in a reserved frame, all of which FreePages
\* detects; and a frame in the middle of the larger region, which it clears
\* whoever owns it.
AnyFrees == {<<PageSize + 1, 1>>, <<0, 1>>, <<FrameCount * PageSize, 1>>, <<PageSize, 2>>,
             <<4 * PageSize, 1>>}
==============================================================================
