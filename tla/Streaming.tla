------------------------------ MODULE Streaming ------------------------------
(***************************************************************************)
(* How the tensors of a job go through a bounded amount of memory: the     *)
(* working budget of `quantize_model`, the chunk loops `_stream_quantize`  *)
(* and `_stream_copy`, the BlockController that sizes the chunks from RSS  *)
(* measurements, and the statistics the run reports.                       *)
(*                                                                         *)
(* What the operating system reports as RSS is the environment's choice at *)
(* every reading: allocators and garbage collection owe the code nothing.  *)
(*                                                                         *)
(* Abstractions.  Memory is counted in units.  The controller's float      *)
(* estimate is a positive number of units, and a blend that falls between  *)
(* two units may be rounded either way.  The seen_min/seen_max telemetry   *)
(* and bytes_read, which advances with bytes_written, are left out, and so *)
(* is the test hook _force_chunk_rows.  Kills and errors are Engine's: a   *)
(* resumed run is one whose Job is what was left of the plan.              *)
(***************************************************************************)
EXTENDS Integers, Sequences

CONSTANTS
    Job,        \* the tensors to write, in order: [copied, rows, cost, packed]
    MaxRam,     \* --max-ram
    Reserve,    \* RESERVE
    CopyRows,   \* COPY_CHUNK, in rows of a copied tensor
    RssLevels   \* what rss_bytes() may return

VARIABLES
    pc,         \* "idle", "tensor" or "stream"
    adaptive,   \* quantize_model's `adaptive`
    working,    \* the working budget
    tensor,     \* index of the tensor at hand
    r0,         \* rows of it that have been written
    maxChunk,   \* rows its read buffer has room for
    est,        \* the controller's estimate of the cost of one row
    chunk,      \* rows of the last chunk, 0 before the first one
    breached,   \* history: that chunk ended in ctrl.violation()
    written,    \* stats["bytes_written"]
    peak,       \* stats["peak_rss"]
    violations, \* whether stats["budget_violations"] > 0
    outcome     \* how the last run ended

vars == <<pc, adaptive, working, tensor, r0, maxChunk, est, chunk, breached,
          written, peak, violations, outcome>>

ASSUME JobAssumption ==
    /\ Job \in Seq([copied : BOOLEAN, rows : Nat, cost : Nat \ {0},
                    packed : Nat \ {0}])
    /\ MaxRam \in Nat /\ Reserve \in Nat /\ RssLevels \subseteq Nat
    /\ CopyRows \in Nat \ {0}

\* The tensor at hand.
T == Job[tensor]

\* A BlockController sizes the chunks.
Controlled == adaptive /\ ~T.copied

Smaller(a, b) == IF a < b THEN a ELSE b
Larger(a, b) == IF a < b THEN b ELSE a
-----------------------------------------------------------------------------
(* BlockController.                                                        *)

\* next_rows, with safety = 0.85 and min_rows = 1.
NextRows(budget, cost, remaining) ==
    Larger(1, Smaller(remaining, (17 * budget) \div (20 * cost)))

\* observe, with ewma_alpha = 0.3: the estimates it may lead to.
Observed(cost, rows, before, after) ==
    LET blend == 7 * cost * rows + 3 * (after - before)
        down == blend \div (10 * rows)
    IN  IF rows <= 0 \/ after <= before THEN {cost}
        ELSE {Larger(1, down), down + (IF blend % (10 * rows) = 0 THEN 0 ELSE 1)}

\* Mutant: the estimate is halved, and the next chunk doubled.
Relaxed(cost) == Larger(1, cost \div 2)
\* violation.
Doubled(cost) == 2 * cost
-----------------------------------------------------------------------------
(* The chunk that comes next.                                              *)

\* Mutant: only whole chunks are copied.
WholeChunkSize ==
    IF T.copied THEN Smaller(CopyRows, CopyRows * ((T.rows - r0) \div CopyRows))
    ELSE IF Controlled THEN Smaller(NextRows(working, est, T.rows - r0), maxChunk)
    ELSE Smaller(maxChunk, T.rows - r0)

\* Mutant: the controller may grow past the read buffer.
UnbufferedSize ==
    IF T.copied THEN Smaller(CopyRows, T.rows - r0)
    ELSE IF Controlled THEN NextRows(working, est, T.rows - r0)
    ELSE Smaller(maxChunk, T.rows - r0)

ChunkSize ==
    IF T.copied THEN Smaller(CopyRows, T.rows - r0)
    ELSE IF Controlled THEN Smaller(NextRows(working, est, T.rows - r0), maxChunk)
    ELSE Smaller(maxChunk, T.rows - r0)

\* Rows the read buffer is made for.
BufferRows ==
    IF T.copied THEN Smaller(T.rows, CopyRows)
    ELSE Smaller(T.rows, working \div T.cost)
-----------------------------------------------------------------------------
Init ==
    /\ pc = "idle" /\ outcome = "none"
    /\ adaptive = FALSE
    /\ working = 0 /\ tensor = 1 /\ r0 = 0
    /\ maxChunk = 0 /\ est = 1 /\ chunk = 0 /\ breached = FALSE
    /\ written = 0 /\ peak = 0 /\ violations = FALSE

\* Mutant: the budget is not checked.
StartAnyway(adapt, atStart, rss) ==
    /\ pc = "idle"
    /\ adaptive' = adapt
    /\ working' = MaxRam - rss - Reserve
    /\ tensor' = 1 /\ r0' = 0
    /\ maxChunk' = 0 /\ est' = 1 /\ chunk' = 0 /\ breached' = FALSE
    /\ written' = 0 /\ peak' = atStart /\ violations' = FALSE
    /\ pc' = "tensor" /\ outcome' = "running"

\* A run begins.  `atStart` is the RSS when the statistics are set up, before
\* the source's metadata is released, `rss` what is left of it after that.
Start(adapt, atStart, rss) ==
    /\ pc = "idle"
    /\ adaptive' = adapt
    /\ working' = MaxRam - rss - Reserve
    /\ tensor' = 1 /\ r0' = 0
    /\ maxChunk' = 0 /\ est' = 1 /\ chunk' = 0 /\ breached' = FALSE
    /\ written' = 0 /\ peak' = atStart /\ violations' = FALSE
    /\ IF working' > 0 THEN pc' = "tensor" /\ outcome' = "running"
       ELSE pc' = "idle" /\ outcome' = "no budget"

\* A tensor begins: size its buffer, or give up on it.  One that is to be packed
\* and has no rows is given up on too, and the budget is blamed.
OpenTensor ==
    /\ pc = "tensor" /\ tensor <= Len(Job)
    /\ IF ~T.copied /\ BufferRows < 1
       THEN /\ pc' = "idle" /\ outcome' = "row too large"
            /\ UNCHANGED <<maxChunk, est>>
       ELSE /\ pc' = "stream" /\ UNCHANGED outcome
            /\ maxChunk' = BufferRows
            /\ est' = T.cost
    /\ r0' = 0 /\ chunk' = 0 /\ breached' = FALSE
    /\ UNCHANGED <<adaptive, working, tensor, written, peak, violations>>

\* Read ChunkSize rows into the buffer, quantize or copy them, write them.
Process ==
    /\ chunk' = ChunkSize
    /\ r0' = r0 + ChunkSize
    /\ written' = written + ChunkSize * T.packed
    /\ UNCHANGED <<pc, adaptive, working, tensor, maxChunk, peak, outcome>>

\* Without a controller nothing is measured.
PlainChunk ==
    /\ pc = "stream" /\ r0 < T.rows
    /\ ~Controlled
    /\ Process
    /\ breached' = FALSE
    /\ UNCHANGED <<est, violations>>

\* With it: fold the measurement in, and back off from the limit.
AdaptiveChunk(before, after) ==
    /\ pc = "stream" /\ r0 < T.rows
    /\ Controlled
    /\ Process
    /\ breached' = (after > MaxRam - Reserve \div 2)
    /\ violations' = (violations \/ after > MaxRam)
    /\ \E e \in Observed(est, ChunkSize, before, after) :
          est' = IF breached' THEN Doubled(e) ELSE e

\* Mutant: the rows that do not fill a chunk are left out.
CommitEarly(rss) ==
    /\ pc = "stream" /\ r0 + chunk >= T.rows
    /\ pc' = "tensor"
    /\ tensor' = tensor + 1
    /\ peak' = Larger(peak, rss)
    /\ violations' = (violations \/ rss > MaxRam)
    /\ UNCHANGED <<adaptive, working, r0, maxChunk, est, chunk, breached, written,
                   outcome>>

\* The tensor is committed, and the RSS sampled (lines 306-309).
Commit(rss) ==
    /\ pc = "stream" /\ r0 >= T.rows
    /\ pc' = "tensor"
    /\ tensor' = tensor + 1
    /\ peak' = Larger(peak, rss)
    /\ violations' = (violations \/ rss > MaxRam)
    /\ UNCHANGED <<adaptive, working, r0, maxChunk, est, chunk, breached, written,
                   outcome>>

Report ==
    /\ pc = "tensor" /\ tensor > Len(Job)
    /\ pc' = "idle" /\ outcome' = "ok"
    /\ UNCHANGED <<adaptive, working, tensor, r0, maxChunk, est, chunk, breached,
                   written, peak, violations>>

Step ==
    \/ OpenTensor
    \/ PlainChunk
    \/ \E before, after \in RssLevels : AdaptiveChunk(before, after)
    \/ \E rss \in RssLevels : Commit(rss)
    \/ Report

Next ==
    \/ \E adapt \in BOOLEAN, atStart, rss \in RssLevels : Start(adapt, atStart, rss)
    \/ Step

Spec == Init /\ [][Next]_vars

\* A run that has begun goes on.
FairSpec == Spec /\ WF_vars(Step)
-----------------------------------------------------------------------------
Outcomes == {"none", "running", "ok", "no budget", "row too large"}

PlacesOK ==
    /\ pc \in {"idle", "tensor", "stream"}
    /\ outcome \in Outcomes
    /\ working \in Int
    /\ pc # "idle" => working > 0
    /\ tensor \in Nat \ {0} /\ r0 \in Nat
    /\ pc = "stream" => tensor \in 1 .. Len(Job)
    /\ maxChunk \in Nat /\ est \in Nat \ {0} /\ chunk \in Nat
    /\ written \in Nat /\ peak \in Nat

\* Every variable has its type, and a run that goes on has a budget.
TypeOK ==
    /\ PlacesOK
    /\ adaptive \in BOOLEAN /\ breached \in BOOLEAN /\ violations \in BOOLEAN

\* No chunk is empty, none is larger than the read buffer, and none reaches
\* past the last row, whatever the RSS readings do to the estimate: the
\* reads of gguf_io.py:78-85 never come up short.
ChunkFits ==
    pc = "stream" /\ r0 < T.rows =>
        /\ 1 <= ChunkSize
        /\ ChunkSize <= maxChunk
        /\ r0 + ChunkSize <= T.rows

\* Once a chunk has come too close to the limit, the next one is not larger,
\* even though the same measurement may have lowered the estimate first
\* (engine.py:388-395).
BackOff ==
    pc = "stream" /\ r0 < T.rows /\ breached => ChunkSize <= chunk

\* Bytes of the first i tensors of the plan.
UpTo[i \in 0 .. Len(Job)] ==
    IF i = 0 THEN 0 ELSE UpTo[i - 1] + Job[i].rows * Job[i].packed

\* A run that ends well has written exactly the bytes planned, and reports
\* so (the bytes written of README.md:77-79).
WrittenAsPlanned == outcome = "ok" => written = UpTo[Len(Job)]

\* Every run comes to an end.
Ends == pc # "idle" ~> pc = "idle"
-----------------------------------------------------------------------------
\* The buffer holds at least a row, if there is one, and at most the tensor,
\* and a breach has left an estimate that keeps the next chunk down.
ChunkInv ==
    /\ TypeOK
    /\ pc = "stream" =>
          /\ r0 <= T.rows
          /\ T.rows > 0 => 1 <= maxChunk
          /\ T.copied => maxChunk = Smaller(T.rows, CopyRows)
    /\ BackOff

\* What has been written is what was planned for the tensors before the one at
\* hand and for the rows of it that are done.
WrittenInv ==
    /\ pc = "tensor" => tensor <= Len(Job) + 1 /\ written = UpTo[tensor - 1]
    /\ pc = "stream" => written = UpTo[tensor - 1] + r0 * T.packed
    /\ outcome = "ok" => pc = "idle" /\ written = UpTo[Len(Job)]

\* The inductive invariant.
StreamInv == ChunkInv /\ WrittenInv
=============================================================================
