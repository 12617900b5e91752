----------------------------- MODULE KernelPool -----------------------------
(***************************************************************************)
(* `GgmlLib.quantize_rows`: a chunk that is not a number of whole rows of  *)
(* float32, a row not a number of whole blocks, is refused.  The rows of   *)
(* any other are split into windows, each window is quantized by a thread  *)
(* of its own straight into the shared output buffer, and the sizes the    *)
(* threads report are summed and compared with the size of the buffer.     *)
(*                                                                         *)
(* ctypes releases the interpreter lock during the calls, so the kernels   *)
(* really run at the same time: one row at a time, in any interleaving.    *)
(*                                                                         *)
(* Abstractions.  The packed bytes of row r are the number r, and sizes of *)
(* packed data are counted in rows, not bytes.  One worker runs in the     *)
(* calling thread and not in a pool (lines 90-91); its window is the one   *)
(* window the bounds give it, so it needs no case of its own.              *)
(***************************************************************************)
EXTENDS Integers

CONSTANTS
    Blk,          \* elements of a block of the ggml type
    Chunks,       \* the arrays a caller may pass, each with its n_per_row
    ThreadCounts, \* values --threads may have, zero and negative ones too
    Blank         \* a row of the buffer that no kernel has written

VARIABLES
    pc,       \* "idle", or "running" while a call is in progress
    result,   \* how the last call ended: "none", "ok", "raised", "refused"
    threads,  \* the threads argument
    nrows,    \* rows of the chunk
    out,      \* the output buffer
    done,     \* done[w]: rows worker w has quantized
    joined,   \* workers whose result has been summed
    written   \* that sum

vars == <<pc, result, threads, nrows, out, done, joined, written>>

\* float32: a one-dimensional array of that type; size: its elements;
\* perRow: n_per_row.
ASSUME PoolAssumption ==
    /\ Blk \in Nat \ {0}
    /\ Chunks \subseteq [float32 : BOOLEAN, size : Nat, perRow : Nat \ {0}]
    /\ ThreadCounts \subseteq Int
ASSUME BlankAssumption == Blank \notin Nat

Rows == 0 .. nrows - 1
-----------------------------------------------------------------------------
\* What lines 70-71 ask of the array; anything else is a ValueError.
Fits(c) == c.float32 /\ c.size % c.perRow = 0 /\ c.perRow % Blk = 0

\* nrows = x.size // n_per_row
RowsIn(c) == c.size \div c.perRow
-----------------------------------------------------------------------------
(* The split.                                                              *)

Clamp(n, t) == IF t < n THEN t ELSE n

\* workers = max(1, min(int(threads), nrows))
WorkersOf(n, t) == IF Clamp(n, t) < 1 THEN 1 ELSE Clamp(n, t)
WorkerCount == WorkersOf(nrows, threads)
Workers == 0 .. WorkerCount - 1

\* Mutant: every window has the same size, what does not divide is lost.
EvenBound(n, k, i) == (n \div k) * i
\* bounds[i], for n rows and k workers.
BoundOf(n, k, i) == (n * i) \div k
Bound(i) == BoundOf(nrows, WorkerCount, i)

\* Mutant: the end of a window taken as its last row.
WideWindow(w) == Bound(w + 1) - Bound(w) + 1

Window(w) == Bound(w + 1) - Bound(w)

\* Mutant: a window begins one row late.
LateRow(w, k) == Bound(w) + k + 1
\* The row that is k-th in the window of w, in the source and in the buffer.
RowOf(w, k) == Bound(w) + k
-----------------------------------------------------------------------------
Init ==
    /\ pc = "idle" /\ result = "none"
    /\ threads \in ThreadCounts
    /\ nrows = 0
    /\ out = [r \in Rows |-> Blank]
    /\ done = [w \in Workers |-> 0]
    /\ joined = 0 /\ written = 0

\* An array that does not fit raises before anything is allocated.
Refuse(c) ==
    /\ pc = "idle"
    /\ ~Fits(c)
    /\ result' = "refused"
    /\ UNCHANGED <<pc, threads, nrows, out, done, joined, written>>

\* A chunk of whole rows gets a buffer, and its windows their threads.
Call(c) ==
    /\ pc = "idle"
    /\ Fits(c)
    /\ UNCHANGED threads
    /\ pc' = "running" /\ result' = "none"
    /\ nrows' = RowsIn(c)
    /\ out' = [r \in Rows' |-> Blank]
    /\ done' = [w \in Workers' |-> 0]
    /\ joined' = 0 /\ written' = 0

\* Mutant: the kernel stops before the last row of its window.
KernelShort(w) ==
    /\ pc = "running"
    /\ done[w] + 1 < Window(w)
    /\ out' = [out EXCEPT ![RowOf(w, done[w])] = RowOf(w, done[w])]
    /\ done' = [done EXCEPT ![w] = @ + 1]
    /\ UNCHANGED <<pc, result, threads, nrows, joined, written>>

\* The kernel of worker w packs its next row.
Kernel(w) ==
    /\ pc = "running"
    /\ done[w] < Window(w)
    /\ out' = [out EXCEPT ![RowOf(w, done[w])] = RowOf(w, done[w])]
    /\ done' = [done EXCEPT ![w] = @ + 1]
    /\ UNCHANGED <<pc, result, threads, nrows, joined, written>>

\* Mutant: the sum does not wait for the kernel.
JoinEarly ==
    /\ pc = "running"
    /\ joined \in Workers
    /\ written' = written + Window(joined)
    /\ joined' = joined + 1
    /\ UNCHANGED <<pc, result, threads, nrows, out, done>>

\* sum(ex.map(...)) waits for the workers in order and adds their sizes.
Join ==
    /\ pc = "running"
    /\ joined \in Workers
    /\ done[joined] = Window(joined)
    /\ written' = written + Window(joined)
    /\ joined' = joined + 1
    /\ UNCHANGED <<pc, result, threads, nrows, out, done>>

\* The check of lines 96-98.
Return ==
    /\ pc = "running"
    /\ joined \notin Workers
    /\ pc' = "idle"
    /\ result' = IF written = nrows THEN "ok" ELSE "raised"
    /\ UNCHANGED <<threads, nrows, out, done, joined, written>>

Next ==
    \/ \E c \in Chunks : Refuse(c) \/ Call(c)
    \/ \E w \in Workers : Kernel(w)
    \/ Join
    \/ Return

Spec == Init /\ [][Next]_vars

\* Every thread is scheduled; nobody is obliged to call.
FairSpec ==
    /\ Spec
    /\ \A t \in ThreadCounts \cup {1} :
          \A w \in 0 .. t - 1 : WF_vars(w \in Workers /\ Kernel(w))
    /\ WF_vars(Join)
    /\ WF_vars(Return)
-----------------------------------------------------------------------------
\* Every variable has its type.
TypeOK ==
    /\ pc \in {"idle", "running"}
    /\ result \in {"none", "ok", "raised", "refused"}
    /\ threads \in ThreadCounts
    /\ nrows \in Nat
    /\ out \in [Rows -> Nat \cup {Blank}]
    /\ done \in [Workers -> Nat]
    /\ joined \in 0 .. WorkerCount
    /\ written \in Nat

\* "Byte-identical to quantizing the whole tensor at once"
\* (ggml_backend.py:65-67): a call that returns has packed every row, and
\* each into its own place, however the kernels interleave.
ResultIsWhole == result = "ok" => \A r \in Rows : out[r] = r

\* The sizes always add up: "wrote ... expected ..." (lines 96-98) is never
\* raised, for no number of rows and threads.
NeverRaises == result # "raised"

\* The kernels stay inside the buffer and out of each other's way: the row a
\* kernel is about to write is one of the buffer's and nobody has written it,
\* so there is no data race.
RaceFree ==
    pc = "running" =>
        \A w \in Workers :
            done[w] < Window(w) => /\ RowOf(w, done[w]) \in Rows
                                   /\ out[RowOf(w, done[w])] = Blank

\* Every call comes back.
Returns == pc = "running" ~> pc = "idle"
-----------------------------------------------------------------------------
\* The inductive invariant: each worker has filled exactly the part of its
\* window that it has gone through, and the sum is the bound of the next
\* worker to join.
Filled(w) ==
    /\ done[w] <= Window(w)
    /\ \A k \in 0 .. Window(w) - 1 :
          out[RowOf(w, k)] = IF k < done[w] THEN RowOf(w, k) ELSE Blank

PoolInv ==
    /\ TypeOK
    /\ \A w \in Workers : Filled(w)
    /\ \A w \in Workers : w < joined => done[w] = Window(w)
    /\ written = Bound(joined)
    /\ result = "ok" => joined = WorkerCount
    /\ result # "raised"
=============================================================================
