---------------------------- MODULE MCKernelPool ----------------------------
(***************************************************************************)
(* KernelPool with up to 7 rows of one block of 2 elements and up to 4     *)
(* threads: more threads than rows, fewer, numbers that divide and numbers *)
(* that do not, no rows at all, and the thread counts that make no sense.  *)
(* One array each for the ways not to fit: another type, a part of a row,  *)
(* a part of a block.                                                      *)
(***************************************************************************)
EXTENDS KernelPool

MCBlk == 2
Misfits == { [float32 |-> FALSE, size |-> 4, perRow |-> 2],
             [float32 |-> TRUE,  size |-> 7, perRow |-> 2],
             [float32 |-> TRUE,  size |-> 6, perRow |-> 3] }
MCChunks == [float32 : {TRUE}, size : {2 * n : n \in 0 .. 7}, perRow : {2}] \cup Misfits
MCThreadCounts == -1 .. 4
=============================================================================
