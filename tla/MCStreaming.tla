----------------------------- MODULE MCStreaming -----------------------------
(***************************************************************************)
(* Small jobs for Streaming.  40 units of memory with a reserve of 8: the  *)
(* RSS readings are two of a small process, which differ by less than a    *)
(* row, one inside the emergency margin (above 36), and one over the limit.*)
(***************************************************************************)
EXTENDS Streaming

Quantized(rows, cost, packed) ==
    [copied |-> FALSE, rows |-> rows, cost |-> cost, packed |-> packed]
Copied(rows) == [copied |-> TRUE, rows |-> rows, cost |-> 1, packed |-> 1]

\* Rows that need several chunks, a copy that is no multiple of the buffer,
\* an empty tensor, one with costlier rows.
MCJob == <<Quantized(12, 2, 2), Copied(3), Copied(0), Quantized(2, 12, 1)>>

MCRss == {20, 21, 37, 41}
=============================================================================
