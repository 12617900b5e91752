-------------------------- MODULE KernelPoolProofs --------------------------
(***************************************************************************)
(* The windows of `quantize_rows` partition the rows of the chunk, for     *)
(* every number of rows and every --threads; hence every call packs each   *)
(* row once, into its place, and never raises.                             *)
(***************************************************************************)
EXTENDS KernelPool, Numbers
-----------------------------------------------------------------------------
(* The split.                                                              *)

LEMMA WorkersPositive ==
    ASSUME NEW n \in Nat, NEW t \in Int
    PROVE  WorkersOf(n, t) \in Nat \ {0}
  BY DEF WorkersOf, Clamp

\* A chunk of the streaming loop has a number of rows.
LEMMA RowsInNat ==
    ASSUME NEW c \in Chunks
    PROVE  RowsIn(c) \in Nat
<1>1. c.size \in Nat /\ c.perRow \in Nat \ {0}
  BY PoolAssumption
<1>2. 0 \div c.perRow = 0
  <2>1. 0 = c.perRow * 0 + 0 /\ 0 \in 0 .. c.perRow - 1
    BY <1>1
  <2>2. QED
    BY <1>1, <2>1, DivisionUnique
<1>3. c.size \div c.perRow \in Int
  BY <1>1, Division
<1>4. 0 \in Int /\ c.size \in Int /\ 0 <= c.size
  BY <1>1
<1>5. 0 \div c.perRow <= c.size \div c.perRow
  BY <1>1, <1>4, DivisionMonotone
<1>6. QED
  BY <1>2, <1>3, <1>5 DEF RowsIn

LEMMA BoundTypes ==
    ASSUME NEW n \in Nat, NEW k \in Nat \ {0}, NEW i \in Nat
    PROVE  BoundOf(n, k, i) \in Nat
<1>1. n * i \in Int /\ 0 <= n * i
  BY SMTT(30)
<1>2. 0 \div k = 0
  <2>1. 0 = k * 0 + 0 /\ 0 \in 0 .. k - 1
    OBVIOUS
  <2>2. QED
    BY <2>1, DivisionUnique
<1>3. (n * i) \div k \in Int /\ 0 <= (n * i) \div k
  BY <1>1, <1>2, Division, DivisionMonotone
<1>4. QED
  BY <1>3 DEF BoundOf

\* The first window begins with the first row, the last one ends with the
\* last row.
LEMMA BoundEnds ==
    ASSUME NEW n \in Nat, NEW k \in Nat \ {0}
    PROVE  BoundOf(n, k, 0) = 0 /\ BoundOf(n, k, k) = n
<1>1. n * 0 = k * 0 + 0 /\ n * k = k * n + 0 /\ 0 \in 0 .. k - 1
        /\ n * 0 \in Int /\ n * k \in Int
  BY SMTT(30)
<1>2. (n * 0) \div k = 0
  BY <1>1, DivisionUnique
<1>3. (n * k) \div k = n
  BY <1>1, DivisionUnique
<1>4. QED
  BY <1>2, <1>3 DEF BoundOf

LEMMA BoundMonotone ==
    ASSUME NEW n \in Nat, NEW k \in Nat \ {0}, NEW i \in Nat, NEW j \in Nat, i <= j
    PROVE  BoundOf(n, k, i) <= BoundOf(n, k, j)
<1>1. n * i \in Int /\ n * j \in Int
  OBVIOUS
<1>2. n * i <= n * j
  <2>1. CASE n = 0
    BY <2>1
  <2>2. CASE n # 0
    BY <2>2, TimesMonotone
  <2>3. QED
    BY <2>1, <2>2
<1>3. QED
  BY <1>1, <1>2, DivisionMonotone DEF BoundOf

\* Every row lies in a window, and a window ends before any later one
\* begins: `bounds` of ggml_backend.py:93 partitions the rows.
THEOREM WindowsPartition ==
    ASSUME NEW n \in Nat, NEW k \in Nat \ {0}
    PROVE  /\ \A r \in 0 .. n - 1 : \E w \in 0 .. k - 1 :
                 BoundOf(n, k, w) <= r /\ r < BoundOf(n, k, w + 1)
           /\ \A v, w \in 0 .. k - 1 :
                 v < w => BoundOf(n, k, v + 1) <= BoundOf(n, k, w)
<1>1. ASSUME NEW r \in 0 .. n - 1
      PROVE  \E w \in 0 .. k - 1 :
                BoundOf(n, k, w) <= r /\ r < BoundOf(n, k, w + 1)
  <2> DEFINE Beyond == {i \in Nat : r < BoundOf(n, k, i)}
  <2>1. k \in Beyond /\ 0 \notin Beyond
    BY BoundEnds
  <2>2. Beyond \in SUBSET Nat /\ Beyond # {}
    BY <2>1
  <2>3. PICK x \in Beyond : \A y \in Beyond : x <= y
    <3> HIDE DEF Beyond
    <3> QED BY <2>2, LeastElement
  <2>4. x \in Nat /\ x <= k /\ x # 0
    BY <2>1, <2>3
  <2>5. x - 1 \in 0 .. k - 1 /\ x - 1 \in Nat /\ (x - 1) + 1 = x
    BY <2>4
  <2>6. x - 1 \notin Beyond
    <3> HIDE DEF Beyond
    <3> QED BY <2>3, <2>4, <2>5
  <2>7. BoundOf(n, k, x - 1) <= r
    BY <2>5, <2>6, BoundTypes
  <2>8. r < BoundOf(n, k, (x - 1) + 1)
    BY <2>3, <2>5
  <2>9. QED
    BY <2>5, <2>7, <2>8
<1>2. ASSUME NEW v \in 0 .. k - 1, NEW w \in 0 .. k - 1, v < w
      PROVE  BoundOf(n, k, v + 1) <= BoundOf(n, k, w)
  <2>1. v + 1 \in Nat /\ w \in Nat /\ v + 1 <= w
    BY <1>2
  <2>2. QED
    BY <2>1, BoundMonotone
<1>3. QED
  BY <1>1, <1>2
-----------------------------------------------------------------------------
(* The invariant.                                                          *)

\* The same facts in the vocabulary of the state.
Split ==
    /\ WorkerCount \in Nat \ {0}
    /\ \A i \in Nat : Bound(i) \in Nat
    /\ Bound(0) = 0 /\ Bound(WorkerCount) = nrows
    /\ \A w \in Workers : Window(w) \in Nat /\ Bound(w + 1) <= nrows
    /\ \A v, w \in Workers : v < w => Bound(v + 1) <= Bound(w)
    /\ \A r \in Rows : \E w \in Workers : Bound(w) <= r /\ r < Bound(w + 1)
    /\ \A w \in Workers : \A k \in 0 .. Window(w) - 1 :
          RowOf(w, k) \in Rows /\ RowOf(w, k) \in Nat

LEMMA SplitFacts == nrows \in Nat /\ threads \in Int => Split
<1> SUFFICES ASSUME nrows \in Nat, threads \in Int PROVE Split
  OBVIOUS
<1> DEFINE k == WorkersOf(nrows, threads)
<1>1. k \in Nat \ {0}
  BY WorkersPositive
<1>2. \A i \in Nat : BoundOf(nrows, k, i) \in Nat
  <2> HIDE DEF k
  <2> QED BY <1>1, BoundTypes
<1>3. BoundOf(nrows, k, 0) = 0 /\ BoundOf(nrows, k, k) = nrows
  <2> HIDE DEF k
  <2> QED BY <1>1, BoundEnds
<1>4. ASSUME NEW w \in 0 .. k - 1
      PROVE  /\ BoundOf(nrows, k, w + 1) - BoundOf(nrows, k, w) \in Nat
             /\ BoundOf(nrows, k, w + 1) <= nrows
  <2> HIDE DEF k
  <2>1. w \in Nat /\ w + 1 \in Nat /\ k \in Nat /\ w <= w + 1 /\ w + 1 <= k
    BY <1>1
  <2>2. BoundOf(nrows, k, w) <= BoundOf(nrows, k, w + 1)
    BY <2>1, <1>1, BoundMonotone
  <2>3. BoundOf(nrows, k, w + 1) <= BoundOf(nrows, k, k)
    BY <2>1, <1>1, BoundMonotone
  <2>4. BoundOf(nrows, k, w) \in Nat /\ BoundOf(nrows, k, w + 1) \in Nat
    BY <2>1, <1>2
  <2>5. QED
    BY <2>2, <2>3, <2>4, <1>3
<1>5. /\ \A r \in 0 .. nrows - 1 : \E w \in 0 .. k - 1 :
             BoundOf(nrows, k, w) <= r /\ r < BoundOf(nrows, k, w + 1)
      /\ \A v, w \in 0 .. k - 1 :
             v < w => BoundOf(nrows, k, v + 1) <= BoundOf(nrows, k, w)
  <2> HIDE DEF k
  <2> QED BY <1>1, WindowsPartition
<1>6. WorkerCount = k
  BY DEF WorkerCount
<1>7. ASSUME NEW w \in Workers, NEW j \in 0 .. Window(w) - 1
      PROVE  RowOf(w, j) \in Rows /\ RowOf(w, j) \in Nat
  <2> HIDE DEF k
  <2>1. w \in 0 .. k - 1 /\ w \in Nat /\ w + 1 \in Nat
    BY <1>1, <1>6 DEF Workers
  <2>2. Bound(w) \in Nat /\ Bound(w + 1) \in Nat /\ Bound(w + 1) <= nrows
    BY <1>2, <1>4, <1>6, <2>1 DEF Bound
  <2>3. QED
    BY <2>2 DEF Window, RowOf, Rows
<1>8. QED
  <2> HIDE DEF k
  <2> QED BY <1>1, <1>2, <1>3, <1>4, <1>5, <1>6, <1>7
          DEF Split, Bound, Window, Workers, Rows

\* ... and in the next state.
LEMMA SplitNext == (nrows \in Nat /\ threads \in Int => Split)'
  BY SplitFacts, PTL

\* Rows of different workers, and different rows of one worker, are
\* different rows of the buffer.
LEMMA RowsDiffer ==
    ASSUME nrows \in Nat, threads \in Int,
           NEW v \in Workers, NEW w \in Workers,
           NEW j \in 0 .. Window(v) - 1, NEW k \in 0 .. Window(w) - 1,
           RowOf(v, j) = RowOf(w, k)
    PROVE  v = w /\ j = k
<1>1. v \in Nat /\ w \in Nat /\ v + 1 \in Nat /\ w + 1 \in Nat
  BY SplitFacts DEF Split, Workers
<1>2. /\ Bound(v) \in Nat /\ Bound(v + 1) \in Nat
      /\ Bound(w) \in Nat /\ Bound(w + 1) \in Nat
  BY <1>1, SplitFacts DEF Split
<1>3. /\ v < w => Bound(v + 1) <= Bound(w)
      /\ w < v => Bound(w + 1) <= Bound(v)
  BY SplitFacts DEF Split
<1>4. /\ j \in Nat /\ Bound(v) + j < Bound(v + 1)
      /\ k \in Nat /\ Bound(w) + k < Bound(w + 1)
      /\ Bound(v) + j = Bound(w) + k
  BY <1>2 DEF Window, RowOf
<1>5. v = w
  BY <1>1, <1>2, <1>3, <1>4
<1>6. QED
  BY <1>5, <1>4, <1>2

LEMMA PoolInit == Init => PoolInv
<1> SUFFICES ASSUME Init PROVE PoolInv
  OBVIOUS
<1>1. nrows \in Nat /\ nrows = 0 /\ threads \in Int
  BY PoolAssumption DEF Init
<1>2. TypeOK
  BY <1>1, SplitFacts DEF Split, Init, TypeOK
<1>3. ASSUME NEW w \in Workers
      PROVE  Filled(w)
  <2>1. w \in Nat /\ w + 1 \in Nat
    BY <1>1, SplitFacts DEF Split, Workers
  <2>2. Bound(w) \in Nat /\ Bound(w + 1) \in Nat /\ Bound(w + 1) <= 0 /\ Window(w) \in Nat
    BY <1>1, <2>1, SplitFacts DEF Split
  <2>3. Window(w) = 0
    BY <2>2 DEF Window
  <2>4. QED
    BY <2>3 DEF Filled, Init
<1>4. QED
  BY <1>1, <1>2, <1>3, SplitFacts DEF Split, PoolInv, Init, Workers

LEMMA PoolStep == PoolInv /\ [Next]_vars => PoolInv'
<1> SUFFICES ASSUME PoolInv, [Next]_vars PROVE PoolInv'
  OBVIOUS
<1> USE DEF PoolInv
<1>0. nrows \in Nat /\ threads \in Int /\ joined \in 0 .. WorkerCount
        /\ done \in [Workers -> Nat] /\ out \in [Rows -> Nat \cup {Blank}]
  BY PoolAssumption DEF TypeOK
<1>1. ASSUME NEW c \in Chunks, Call(c)
      PROVE  PoolInv'
  <2>1. nrows' \in Nat /\ threads' \in Int /\ threads' = threads
    BY <1>1, <1>0, RowsInNat DEF Call
  <2>2. /\ WorkerCount' \in Nat \ {0} /\ Bound(0)' = 0
        /\ \A w \in Workers' : (Window(w) \in Nat)'
    BY <2>1, SplitNext DEF Split
  <2>3. TypeOK'
    BY <1>1, <2>1, <2>2 DEF Call, TypeOK
  <2>4. ASSUME NEW w \in Workers'
        PROVE  Filled(w)'
    <3>2. \A k \in 0 .. Window(w)' - 1 : RowOf(w, k)' \in Rows'
      BY <2>1, SplitNext DEF Split
    <3>3. done'[w] = 0 /\ \A r \in Rows' : out'[r] = Blank
      BY <1>1, <2>4 DEF Call
    <3>4. Window(w)' \in Nat
      BY <2>2
    <3>5. QED
      BY <3>2, <3>3, <3>4 DEF Filled
  <2>5. \A w \in Workers' : ~(w < 0)
    BY <2>2 DEF Workers
  <2>6. joined' = 0 /\ written' = 0 /\ result' = "none"
    BY <1>1 DEF Call
  <2>7. QED
    BY <2>2, <2>3, <2>4, <2>5, <2>6
<1>2. ASSUME NEW c \in Chunks, Refuse(c)
      PROVE  PoolInv'
  <2>1. /\ UNCHANGED <<pc, threads, nrows, out, done, joined, written>>
        /\ result' = "refused"
    BY <1>2 DEF Refuse
  <2>2. /\ Workers' = Workers /\ WorkerCount' = WorkerCount /\ Rows' = Rows
        /\ \A i : Bound(i)' = Bound(i)
        /\ \A v : Window(v)' = Window(v)
        /\ \A v, k : RowOf(v, k)' = RowOf(v, k)
    BY <2>1 DEF Workers, WorkerCount, Rows, Bound, Window, RowOf
  <2>3. TypeOK' /\ \A v \in Workers : Filled(v)'
    BY <2>1, <2>2 DEF TypeOK, Filled
  <2>4. QED
    BY <2>1, <2>2, <2>3
<1>3. ASSUME NEW w \in Workers, Kernel(w)
      PROVE  PoolInv'
  <2> DEFINE j == done[w]
  <2>1. /\ UNCHANGED <<nrows, threads, joined, written, result, pc>>
        /\ Window(w) \in Nat /\ j \in Nat /\ j < Window(w)
        /\ j \in 0 .. Window(w) - 1
    BY <1>0, <1>3, SplitFacts DEF Split, Kernel
  <2>2. RowOf(w, j) \in Rows /\ RowOf(w, j) \in Nat
    BY <2>1, <1>0, SplitFacts DEF Split
  <2>3. /\ out' = [out EXCEPT ![RowOf(w, j)] = RowOf(w, j)]
        /\ done' = [done EXCEPT ![w] = j + 1]
        /\ out'[RowOf(w, j)] = RowOf(w, j) /\ done'[w] = j + 1
    BY <1>3, <2>2, <1>0 DEF Kernel
  <2>4. /\ Workers' = Workers /\ WorkerCount' = WorkerCount /\ Rows' = Rows
        /\ \A i : Bound(i)' = Bound(i)
        /\ \A v : Window(v)' = Window(v)
        /\ \A v, k : RowOf(v, k)' = RowOf(v, k)
    BY <2>1 DEF Workers, WorkerCount, Rows, Bound, Window, RowOf
  <2>5. TypeOK'
    <3>1. out' \in [Rows -> Nat \cup {Blank}]
      BY <2>3, <2>2, <1>0
    <3>2. done' \in [Workers -> Nat]
      BY <2>3, <2>1, <1>0
    <3>3. QED
      BY <3>1, <3>2, <2>1, <2>4 DEF TypeOK
  <2>6. ASSUME NEW v \in Workers
        PROVE  Filled(v)'
    <3>1. ASSUME NEW k \in 0 .. Window(v) - 1
          PROVE  out'[RowOf(v, k)] = IF k < done'[v] THEN RowOf(v, k) ELSE Blank
      <4>1. out[RowOf(v, k)] = IF k < done[v] THEN RowOf(v, k) ELSE Blank
        BY DEF Filled
      <4>2. RowOf(v, k) \in Rows /\ k \in Nat /\ done[v] \in Nat
        BY <1>0, SplitFacts DEF Split
      <4>3. CASE v = w /\ k = j
        BY <4>3, <2>3, <2>1
      <4>4. CASE ~(v = w /\ k = j)
        <5>1. RowOf(v, k) # RowOf(w, j)
          BY <4>4, <2>1, <1>0, RowsDiffer
        <5>2. out'[RowOf(v, k)] = out[RowOf(v, k)]
          BY <5>1, <2>3, <4>2, <1>0
        <5>3. k < done'[v] <=> k < done[v]
          <6>1. CASE v = w
            BY <6>1, <4>4, <4>2, <2>3, <2>1
          <6>2. CASE v # w
            BY <6>2, <2>3, <1>0
          <6>3. QED
            BY <6>1, <6>2
        <5>4. QED
          BY <5>2, <5>3, <4>1
      <4>5. QED
        BY <4>3, <4>4
    <3>2. done'[v] <= Window(v)
      <4>1. done[v] <= Window(v)
        BY DEF Filled
      <4>2. CASE v = w
        BY <4>2, <2>1, <2>3
      <4>3. CASE v # w
        BY <4>3, <4>1, <2>3, <1>0
      <4>4. QED
        BY <4>2, <4>3
    <3>3. QED
      BY <3>1, <3>2, <2>4 DEF Filled
  <2>7. ASSUME NEW v \in Workers, v < joined
        PROVE  done'[v] = Window(v)
    <3>1. done[v] = Window(v)
      BY <2>7
    <3>2. v # w
      BY <3>1, <2>1
    <3>3. QED
      BY <3>1, <3>2, <2>3, <1>0
  <2>8. QED
    <3> HIDE DEF j
    <3> QED BY <2>1, <2>4, <2>5, <2>6, <2>7
<1>4. ASSUME Join
      PROVE  PoolInv'
  <2>1. /\ UNCHANGED <<nrows, threads, done, out, result, pc>>
        /\ joined \in Workers /\ done[joined] = Window(joined)
        /\ joined' = joined + 1 /\ written' = written + Window(joined)
    BY <1>4 DEF Join
  <2>2. /\ Workers' = Workers /\ WorkerCount' = WorkerCount /\ Rows' = Rows
        /\ \A i : Bound(i)' = Bound(i)
        /\ \A v : Window(v)' = Window(v)
        /\ \A v, k : RowOf(v, k)' = RowOf(v, k)
    BY <2>1 DEF Workers, WorkerCount, Rows, Bound, Window, RowOf
  <2>3. /\ WorkerCount \in Nat \ {0} /\ joined \in Nat /\ joined + 1 \in 0 .. WorkerCount
        /\ joined # WorkerCount
        /\ Bound(joined) \in Nat /\ Bound(joined + 1) \in Nat
    <3>1. Split /\ WorkerCount \in Nat \ {0}
      BY <1>0, SplitFacts DEF Split
    <3>2. joined \in 0 .. WorkerCount - 1
      BY <2>1 DEF Workers
    <3>3. /\ joined \in Nat /\ joined + 1 \in Nat /\ joined + 1 \in 0 .. WorkerCount
          /\ joined # WorkerCount
      BY <3>1, <3>2
    <3>4. QED
      BY <3>1, <3>3 DEF Split
  <2>4. written' = Bound(joined + 1)
    BY <2>1, <2>3 DEF Window
  <2>5. TypeOK'
    BY <2>1, <2>2, <2>3, <2>4 DEF TypeOK
  <2>6. \A v \in Workers : Filled(v)'
    BY <2>1, <2>2 DEF Filled
  <2>7. ASSUME NEW v \in Workers, v < joined + 1
        PROVE  done[v] = Window(v)
    <3>1. v \in Nat
      BY <2>3 DEF Workers
    <3>2. v < joined \/ v = joined
      BY <3>1, <2>3, <2>7
    <3>3. QED
      BY <3>2, <2>1
  <2>8. result # "ok"
    BY <2>3
  <2>9. QED
    BY <2>1, <2>2, <2>4, <2>5, <2>6, <2>7, <2>8
<1>5. ASSUME Return
      PROVE  PoolInv'
  <2>1. /\ UNCHANGED <<nrows, threads, done, out, joined, written>>
        /\ joined \notin Workers /\ pc' = "idle"
        /\ result' = IF written = nrows THEN "ok" ELSE "raised"
    BY <1>5 DEF Return
  <2>2. /\ Workers' = Workers /\ WorkerCount' = WorkerCount /\ Rows' = Rows
        /\ \A i : Bound(i)' = Bound(i)
        /\ \A v : Window(v)' = Window(v)
        /\ \A v, k : RowOf(v, k)' = RowOf(v, k)
    BY <2>1 DEF Workers, WorkerCount, Rows, Bound, Window, RowOf
  <2>3. joined = WorkerCount
    BY <2>1, <1>0, SplitFacts DEF Split, Workers
  <2>4. written = nrows
    BY <2>3, <1>0, SplitFacts DEF Split
  <2>5. TypeOK'
    BY <2>1, <2>2, <2>4 DEF TypeOK
  <2>6. \A v \in Workers : Filled(v)'
    BY <2>1, <2>2 DEF Filled
  <2>7. QED
    BY <2>1, <2>2, <2>3, <2>4, <2>5, <2>6
<1>6. CASE UNCHANGED vars
  BY <1>6 DEF vars, TypeOK, Filled, Workers, WorkerCount, Rows, Bound, Window, RowOf
<1>7. QED
  BY <1>1, <1>2, <1>3, <1>4, <1>5, <1>6 DEF Next

THEOREM PoolInvariant == Spec => []PoolInv
  BY PoolInit, PoolStep, PTL DEF Spec
-----------------------------------------------------------------------------
\* A call that returns has packed every row into its place
\* (ggml_backend.py:65-67), for every number of rows and threads.
THEOREM WholeResult == Spec => []ResultIsWhole
<1>1. PoolInv => ResultIsWhole
  <2> SUFFICES ASSUME PoolInv, result = "ok", NEW r \in Rows
               PROVE  out[r] = r
    BY DEF ResultIsWhole
  <2>1. nrows \in Nat /\ threads \in Int /\ done \in [Workers -> Nat]
          /\ joined = WorkerCount
    BY PoolAssumption DEF PoolInv, TypeOK
  <2>2. PICK w \in Workers : Bound(w) <= r /\ r < Bound(w + 1)
    BY <2>1, SplitFacts DEF Split
  <2>3. w \in Nat /\ w + 1 \in Nat /\ w < joined /\ Bound(w) \in Nat /\ Bound(w + 1) \in Nat
    BY <2>1, SplitFacts DEF Split, Workers
  <2>4. r \in Int /\ r - Bound(w) \in 0 .. Window(w) - 1
    BY <2>1, <2>2, <2>3 DEF Window, Rows
  <2>5. done[w] = Window(w) /\ Filled(w)
    BY <2>2, <2>3 DEF PoolInv
  <2>6. out[RowOf(w, r - Bound(w))] = RowOf(w, r - Bound(w))
    BY <2>4, <2>5, <2>1, SplitFacts DEF Split, Filled
  <2>7. RowOf(w, r - Bound(w)) = r
    BY <2>3, <2>4 DEF RowOf
  <2>8. QED
    BY <2>6, <2>7
<1>2. QED
  BY <1>1, PoolInvariant, PTL

\* The sizes the threads report always add up to the size of the buffer.
THEOREM NoSizeMismatch == Spec => []NeverRaises
<1>1. PoolInv => NeverRaises
  BY DEF PoolInv, NeverRaises
<1>2. QED
  BY <1>1, PoolInvariant, PTL

\* No thread writes outside the buffer, and no two write the same row.
THEOREM NoRace == Spec => []RaceFree
<1>1. PoolInv => RaceFree
  <2> SUFFICES ASSUME PoolInv, NEW w \in Workers, done[w] < Window(w)
               PROVE  RowOf(w, done[w]) \in Rows /\ out[RowOf(w, done[w])] = Blank
    BY DEF RaceFree
  <2>1. nrows \in Nat /\ threads \in Int /\ done[w] \in Nat /\ Filled(w)
    BY PoolAssumption DEF PoolInv, TypeOK
  <2>2. Window(w) \in Nat
    BY <2>1, SplitFacts DEF Split
  <2>3. done[w] \in 0 .. Window(w) - 1 /\ ~(done[w] < done[w])
    BY <2>1, <2>2
  <2>4. out[RowOf(w, done[w])] = Blank
    BY <2>1, <2>3 DEF Filled
  <2>5. RowOf(w, done[w]) \in Rows
    BY <2>1, <2>2, <2>3, SplitFacts DEF Split
  <2>6. QED
    BY <2>4, <2>5
<1>2. QED
  BY <1>1, PoolInvariant, PTL
=============================================================================
