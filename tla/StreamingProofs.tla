--------------------------- MODULE StreamingProofs ---------------------------
(***************************************************************************)
(* Whatever the RSS readings are, chunks fit the buffer and the tensor,    *)
(* and a chunk that came too close to the limit is never followed by a     *)
(* larger one.                                                             *)
(***************************************************************************)
EXTENDS Streaming, Numbers
-----------------------------------------------------------------------------
(* The controller.                                                         *)

\* Dividing by more gives less.
LEMMA DivisionAntitone ==
    ASSUME NEW a \in Nat, NEW p \in Nat \ {0}, NEW q \in Nat \ {0}, p <= q
    PROVE  a \div q <= a \div p /\ 0 <= a \div q
<1> DEFINE x == a \div p
           y == a \div q
<1>1. /\ x \in Int /\ a % p \in 0 .. p - 1 /\ a = p * x + (a % p)
      /\ y \in Int /\ a % q \in 0 .. q - 1 /\ a = q * y + (a % q)
  BY Division
<1>2. 0 <= y /\ 0 <= x
  <2>1. 0 = q * 0 + 0 /\ 0 \in 0 .. q - 1 /\ 0 = p * 0 + 0 /\ 0 \in 0 .. p - 1
    OBVIOUS
  <2>2. 0 \div q = 0 /\ 0 \div p = 0
    BY <2>1, DivisionUnique
  <2>3. 0 <= a
    OBVIOUS
  <2>4. 0 \div q <= a \div q /\ 0 \div p <= a \div p
    BY <2>3, DivisionMonotone
  <2>5. QED
    BY <2>2, <2>4
<1>3. p * y <= q * y /\ p * y \in Int /\ q * y \in Int
  <2>1. CASE y = 0
    BY <2>1
  <2>2. CASE y # 0
    <3>1. y \in Nat \ {0}
      BY <1>1, <1>2, <2>2
    <3>2. y * p <= y * q
      BY <3>1, TimesMonotone
    <3>3. y * p = p * y /\ y * q = q * y /\ y * p \in Int /\ y * q \in Int
      BY <3>1, SMTT(30)
    <3>4. QED
      BY <3>2, <3>3
  <2>3. QED
    BY <2>1, <2>2
<1>4. x < y => p * x + p <= p * y /\ p * x \in Int
  BY <1>1, TimesMonotone
<1>5. ~(x < y)
  <2> SUFFICES ASSUME x < y PROVE FALSE
    OBVIOUS
  <2> DEFINE px == p * x
             py == p * y
             qy == q * y
  <2>1. px + p <= py /\ py <= qy /\ px \in Int /\ py \in Int /\ qy \in Int
    BY <1>3, <1>4
  <2>2. a = px + (a % p) /\ a = qy + (a % q) /\ a % p < p /\ 0 <= a % q
        /\ a % p \in Int /\ a % q \in Int
    BY <1>1
  <2> HIDE DEF px, py, qy, x, y
  <2>3. QED
    BY <2>1, <2>2
<1>6. QED
  BY <1>1, <1>2, <1>5

\* next_rows returns at least one row and no more than remain, and no more
\* rows for a higher estimate or when fewer remain.
LEMMA NextRowsBounds ==
    ASSUME NEW w \in Nat, NEW c \in Nat \ {0}, NEW d \in Nat \ {0}, c <= d,
           NEW m \in Nat \ {0}, NEW n \in Nat \ {0}, n <= m
    PROVE  /\ NextRows(w, c, m) \in 1 .. m
           /\ NextRows(w, d, n) <= NextRows(w, c, m)
<1>1. 17 * w \in Nat /\ 20 * c \in Nat \ {0} /\ 20 * d \in Nat \ {0} /\ 20 * c <= 20 * d
  OBVIOUS
<1> DEFINE a == 17 * w
           p == 20 * c
           q == 20 * d
           x == a \div p
           y == a \div q
<1>2. x \in Int /\ y \in Int /\ y <= x
  <2>1. a \in Nat /\ a \in Int /\ p \in Nat \ {0} /\ q \in Nat \ {0} /\ p <= q
    BY <1>1
  <2> HIDE DEF a, p, q
  <2>2. a \div p \in Int /\ a \div q \in Int
    BY <2>1, Division
  <2>3. a \div q <= a \div p
    BY <2>1, DivisionAntitone
  <2>4. QED
    BY <2>2, <2>3
<1>3. NextRows(w, c, m) = Larger(1, Smaller(m, x)) /\ NextRows(w, d, n) = Larger(1, Smaller(n, y))
  BY DEF NextRows
<1>4. QED
  <2> HIDE DEF x, y
  <2> QED BY <1>2, <1>3 DEF Larger, Smaller

\* One observation never takes away more than half of the estimate, so that
\* doubling makes up for it.
LEMMA DoublingMakesUp ==
    ASSUME NEW c \in Nat \ {0}, NEW rows \in Nat \ {0}, NEW before \in Nat,
           NEW after \in Nat, NEW e \in Observed(c, rows, before, after)
    PROVE  e \in Nat \ {0} /\ c <= Doubled(e) /\ Doubled(e) \in Nat \ {0}
<1> DEFINE blend == 7 * c * rows + 3 * (after - before)
           k == 10 * rows
           down == blend \div k
           up == down + (IF blend % k = 0 THEN 0 ELSE 1)
<1>1. CASE after <= before
  BY <1>1 DEF Observed, Doubled
<1>2. CASE ~(after <= before)
  <2>1. c * rows \in Nat \ {0} /\ 7 * c * rows = 7 * (c * rows)
    BY SMTT(30)
  <2>2. blend \in Nat /\ k \in Nat \ {0} /\ 7 * (c * rows) < blend
    <3> DEFINE cr == c * rows
    <3>1. cr \in Nat \ {0} /\ blend = 7 * cr + 3 * (after - before)
      BY <2>1
    <3> HIDE DEF cr, blend
    <3>2. blend \in Nat /\ 7 * cr < blend
      BY <3>1, <1>2
    <3>3. QED
      BY <3>2 DEF cr
  <2>3. down \in Int /\ blend % k \in 0 .. k - 1 /\ blend = k * down + (blend % k)
    <3>1. blend \in Int /\ k \in Nat \ {0}
      <4> HIDE DEF blend, k
      <4> QED BY <2>2
    <3> HIDE DEF blend, k
    <3> QED BY <3>1, Division
  <2>4. 0 <= down
    <3>1. 0 <= blend /\ 0 = k * 0 + 0 /\ 0 \in 0 .. k - 1
      <4> HIDE DEF blend, k
      <4> QED BY <2>2
    <3>2. 0 \div k = 0
      <4> HIDE DEF blend, k
      <4> QED BY <3>1, <2>2, DivisionUnique
    <3>3. QED
      <4> HIDE DEF blend, k
      <4> QED BY <3>1, <3>2, <2>2, DivisionMonotone
  <2>5. blend < k * down + k
    <3> HIDE DEF blend, k, down
    <3>1. k * down \in Int
      BY <2>2, <2>3
    <3>2. QED
      BY <3>1, <2>2, <2>3
  <2>6. 7 * c < 10 * down + 10
    <3>1. k * down + k = rows * (10 * down + 10)
      <4> HIDE DEF down
      <4> QED BY <2>3, SMTT(30)
    <3>2. 7 * (c * rows) = rows * (7 * c)
      BY SMTT(30)
    <3>3. rows * (7 * c) < rows * (10 * down + 10)
      <4> HIDE DEF down
      <4>1. rows * (10 * down + 10) \in Int /\ rows * (7 * c) \in Int
        BY <2>3
      <4>2. QED
        BY <4>1, <3>1, <3>2, <2>2, <2>5 DEF k
    <3>4. 10 * down + 10 <= 7 * c => rows * (10 * down + 10) <= rows * (7 * c)
      <4>1. 10 * down + 10 \in Int /\ 7 * c \in Int
        <5> HIDE DEF down
        <5> QED BY <2>3
      <4> HIDE DEF down
      <4> QED BY <4>1, TimesMonotone
    <3>5. QED
      <4>1. 10 * down + 10 \in Int /\ 7 * c \in Int
            /\ rows * (10 * down + 10) \in Int /\ rows * (7 * c) \in Int
        <5> HIDE DEF down
        <5> QED BY <2>3
      <4> HIDE DEF down
      <4> QED BY <4>1, <3>3, <3>4
  <2>7. e \in {Larger(1, down), up} /\ down <= up /\ up \in Int
    <3>1. e \in {Larger(1, down), up}
      BY <1>2 DEF Observed
    <3>2. down <= up /\ up \in Int
      <4> HIDE DEF down, blend, k
      <4> QED BY <2>3
    <3>3. QED
      BY <3>1, <3>2
  <2>8. up > 0
    <3>1. CASE down = 0
      <4>1. blend % k # 0
        <5> HIDE DEF down, blend, k
        <5>1. blend = blend % k /\ 0 < blend
          BY <2>1, <2>2, <2>3, <3>1
        <5>2. QED
          BY <5>1
      <4>2. QED
        BY <3>1, <4>1
    <3>2. CASE down # 0
      <4> HIDE DEF down, up
      <4> QED BY <3>2, <2>3, <2>4, <2>7
    <3>3. QED
      BY <3>1, <3>2
  <2>9. QED
    <3> HIDE DEF down, up
    <3>1. e \in Int /\ 1 <= e /\ (down <= e)
      BY <2>3, <2>4, <2>7, <2>8 DEF Larger
    <3>2. c <= 2 * e
      BY <3>1, <2>3, <2>6
    <3>3. QED
      BY <3>1, <3>2 DEF Doubled
<1>3. QED
  BY <1>1, <1>2
-----------------------------------------------------------------------------
(* The loop.                                                               *)

LEMMA JobLength == Len(Job) \in Nat
<1> DEFINE Tensor == [copied : BOOLEAN, rows : Nat, cost : Nat \ {0},
                      packed : Nat \ {0}]
<1>1. Job \in Seq(Tensor)
  BY JobAssumption
<1> HIDE DEF Tensor
<1>2. QED
  BY <1>1

LEMMA TensorTypes ==
    ASSUME NEW i \in 1 .. Len(Job)
    PROVE  /\ Job[i].copied \in BOOLEAN
           /\ Job[i].rows \in Nat /\ Job[i].cost \in Nat \ {0}
           /\ Job[i].packed \in Nat \ {0}
<1> DEFINE Tensor == [copied : BOOLEAN, rows : Nat, cost : Nat \ {0},
                      packed : Nat \ {0}]
<1>1. Job \in Seq(Tensor)
  BY JobAssumption
<1>2. Job[i] \in Tensor
  <2> HIDE DEF Tensor
  <2> QED BY <1>1
<1>3. QED
  BY <1>2

\* Every chunk fits, when the invariant holds.
LEMMA SizeFits ==
    ASSUME ChunkInv, pc = "stream", r0 < T.rows
    PROVE  /\ ChunkSize \in Nat \ {0}
           /\ ChunkSize <= maxChunk
           /\ r0 + ChunkSize <= T.rows
<1>1. /\ T.rows \in Nat \ {0} /\ T.copied \in BOOLEAN
      /\ r0 \in Nat /\ maxChunk \in Nat /\ est \in Nat \ {0} /\ working \in Nat
      /\ CopyRows \in Nat \ {0} /\ 1 <= maxChunk
      /\ T.copied => maxChunk = Smaller(T.rows, CopyRows)
  BY TensorTypes, JobAssumption DEF ChunkInv, TypeOK, PlacesOK, T
<1>2. T.rows - r0 \in Nat \ {0}
  BY <1>1
<1>3. NextRows(working, est, T.rows - r0) \in 1 .. T.rows - r0
  <2> DEFINE m == T.rows - r0
  <2>1. m \in Nat \ {0} /\ m <= m /\ est <= est /\ working \in Nat /\ est \in Nat \ {0}
    BY <1>1, <1>2
  <2> HIDE DEF m
  <2>2. NextRows(working, est, m) \in 1 .. m
    BY <2>1, NextRowsBounds
  <2>3. QED
    BY <2>2 DEF m
<1>4. QED
  BY <1>1, <1>2, <1>3 DEF ChunkSize, Smaller

LEMMA Disjunction == \A a, b \in BOOLEAN : (a \/ b) \in BOOLEAN
  OBVIOUS

LEMMA Comparison == \A a, b \in Int : (a > b) \in BOOLEAN
  OBVIOUS

\* The parameters' types, at one place.
LEMMA Sizes == MaxRam \in Int /\ MaxRam - Reserve \div 2 \in Int /\ RssLevels \subseteq Int
  BY JobAssumption

LEMMA StreamInit == Init => ChunkInv
<1> SUFFICES ASSUME Init PROVE ChunkInv
  OBVIOUS
<1>1. pc = "idle" /\ PlacesOK
  BY DEF Init, PlacesOK, Outcomes
<1>2. adaptive \in BOOLEAN /\ breached \in BOOLEAN /\ violations \in BOOLEAN
  BY Zenon DEF Init
<1>3. QED
  BY <1>1, <1>2 DEF ChunkInv, BackOff, TypeOK

LEMMA StartStep ==
    ASSUME ChunkInv, NEW b \in BOOLEAN, NEW a \in RssLevels, NEW rss \in RssLevels,
           Start(b, a, rss)
    PROVE  ChunkInv'
<1>1. a \in Nat /\ MaxRam - rss - Reserve \in Int
  BY JobAssumption
<1>0. adaptive' \in BOOLEAN /\ breached' \in BOOLEAN /\ violations' \in BOOLEAN
  BY Zenon DEF Start
<1>2. CASE working' > 0
  <2>1. pc' = "tensor" /\ outcome' = "running"
    BY <1>2 DEF Start
  <2>2. PlacesOK'
    <3>1. /\ tensor' = 1 /\ r0' = 0 /\ maxChunk' = 0 /\ est' = 1 /\ chunk' = 0
          /\ written' = 0 /\ peak' = a /\ working' \in Int
      BY <1>1 DEF Start
    <3>2. QED
      BY <1>1, <1>2, <2>1, <3>1 DEF PlacesOK, Outcomes
  <2>3. QED
    BY <1>0, <2>1, <2>2 DEF ChunkInv, BackOff, TypeOK
<1>3. CASE ~(working' > 0)
  <2>1. pc' = "idle" /\ outcome' = "no budget"
    BY <1>3 DEF Start
  <2>2. PlacesOK'
    <3>1. /\ tensor' = 1 /\ r0' = 0 /\ maxChunk' = 0 /\ est' = 1 /\ chunk' = 0
          /\ written' = 0 /\ peak' = a /\ working' \in Int
      BY <1>1 DEF Start
    <3>2. /\ pc' \in {"idle", "tensor", "stream"} /\ outcome' \in Outcomes
          /\ pc' # "stream" /\ ~(pc' # "idle")
      BY <2>1 DEF Outcomes
    <3>3. /\ tensor' \in Nat \ {0} /\ r0' \in Nat /\ maxChunk' \in Nat /\ est' \in Nat \ {0}
          /\ chunk' \in Nat /\ written' \in Nat /\ peak' \in Nat
      BY <1>1, <3>1
    <3>4. QED
      BY <3>1, <3>2, <3>3 DEF PlacesOK
  <2>3. QED
    BY <1>0, <2>1, <2>2 DEF ChunkInv, BackOff, TypeOK
<1>4. QED
  BY <1>2, <1>3

LEMMA OpenStep ==
    ASSUME ChunkInv, OpenTensor
    PROVE  ChunkInv'
<1>1. /\ tensor \in 1 .. Len(Job) /\ working \in Nat /\ pc = "tensor"
      /\ tensor' = tensor /\ r0' = 0 /\ breached' = FALSE /\ T' = T
  <2>1. /\ tensor \in Nat \ {0} /\ tensor <= Len(Job) /\ pc = "tensor"
        /\ working \in Int /\ working > 0
    BY DEF OpenTensor, ChunkInv, TypeOK, PlacesOK
  <2>2. tensor' = tensor /\ r0' = 0 /\ breached' = FALSE /\ T' = T
    BY DEF OpenTensor, T
  <2>3. QED
    BY <2>1, <2>2, JobLength
<1>2. T.cost \in Nat \ {0} /\ T.rows \in Nat /\ T.copied \in BOOLEAN /\ CopyRows \in Nat \ {0}
  BY <1>1, TensorTypes, JobAssumption DEF T
<1>3. working \div T.cost \in Int
  <2> DEFINE k == T.cost
  <2>1. working \in Int /\ k \in Nat \ {0}
    BY <1>1, <1>2
  <2> HIDE DEF k
  <2>2. working \div k \in Int
    BY <2>1, Division
  <2>3. QED
    BY <2>2 DEF k
<1>4. BufferRows \in Int /\ (T.copied => BufferRows = Smaller(T.rows, CopyRows))
  BY <1>2, <1>3 DEF BufferRows, Smaller
<1>0. adaptive' \in BOOLEAN /\ breached' \in BOOLEAN /\ violations' \in BOOLEAN
  BY Zenon DEF OpenTensor, ChunkInv, TypeOK
<1>5. PlacesOK'
  <2>1. CASE ~T.copied /\ BufferRows < 1
    <3>1. pc' = "idle" /\ outcome' = "row too large" /\ UNCHANGED <<maxChunk, est>>
      BY <2>1 DEF OpenTensor
    <3>2. chunk' = 0 /\ UNCHANGED <<working, tensor, written, peak>>
      BY DEF OpenTensor
    <3>3. PlacesOK
      BY DEF ChunkInv, TypeOK
    <3>4. QED
      BY <1>1, <3>1, <3>2, <3>3 DEF PlacesOK, Outcomes
  <2>2. CASE ~(~T.copied /\ BufferRows < 1)
    <3>1. /\ pc' = "stream" /\ outcome' = outcome
          /\ maxChunk' = BufferRows /\ est' = T.cost
          /\ BufferRows \in Nat /\ T.cost \in Nat \ {0}
      <4>1. T.copied => BufferRows \in Nat
        BY <1>2, <1>4 DEF Smaller
      <4>2. ~T.copied => BufferRows \in Nat
        BY <1>2, <1>4, <2>2
      <4>3. BufferRows \in Nat /\ T.cost \in Nat \ {0}
        BY <1>2, <4>1, <4>2
      <4>4. QED
        BY <2>2, <4>3 DEF OpenTensor
    <3>2. chunk' = 0 /\ UNCHANGED <<working, tensor, written, peak>>
      BY DEF OpenTensor
    <3>3. PlacesOK
      BY DEF ChunkInv, TypeOK
    <3>4. Len(Job)' = Len(Job)
      OBVIOUS
    <3>5. QED
      BY <1>1, <3>1, <3>2, <3>3 DEF PlacesOK
  <2>3. QED
    BY <2>1, <2>2
<1>6. pc' = "stream" => /\ r0' <= T'.rows
                        /\ T'.rows > 0 => 1 <= maxChunk'
                        /\ T'.copied => maxChunk' = Smaller(T'.rows, CopyRows)
  <2>1. r0' = 0 /\ T' = T
    BY DEF OpenTensor, T
  <2>2. pc' = "stream" => maxChunk' = BufferRows /\ (T.copied \/ ~(BufferRows < 1))
    BY <1>1 DEF OpenTensor
  <2>3. T.copied /\ T.rows > 0 => 1 <= BufferRows
    BY <1>2, <1>4 DEF Smaller
  <2>4. QED
    BY <1>2, <1>4, <2>1, <2>2, <2>3
<1>7. BackOff'
  BY <1>1 DEF BackOff
<1>8. QED
  BY <1>0, <1>5, <1>6, <1>7 DEF ChunkInv, TypeOK

\* What a chunk does to everything but the estimate.
LEMMA ProcessStep ==
    ASSUME ChunkInv, pc = "stream", r0 < T.rows, Process,
           est' \in Nat \ {0},
           adaptive' \in BOOLEAN, breached' \in BOOLEAN, violations' \in BOOLEAN
    PROVE  /\ TypeOK'
           /\ pc' = "stream" /\ T' = T /\ Controlled' = Controlled
           /\ r0' <= T.rows /\ maxChunk' = maxChunk /\ working' = working
           /\ r0' = r0 + chunk' /\ chunk' = ChunkSize
<1>1. /\ ChunkSize \in Nat \ {0} /\ r0 + ChunkSize <= T.rows /\ r0 \in Nat
      /\ tensor \in 1 .. Len(Job)
  BY SizeFits DEF ChunkInv, TypeOK, PlacesOK
<1>2. T.packed \in Nat
  BY <1>1, TensorTypes DEF T
<1>3. ChunkSize * T.packed \in Nat
  BY <1>1, <1>2
<1>4. T' = T /\ Controlled' = Controlled
  BY DEF Process, T, Controlled
<1>5. PlacesOK'
  BY <1>1, <1>3 DEF Process, ChunkInv, TypeOK, PlacesOK
<1>6. QED
  BY <1>1, <1>4, <1>5 DEF Process, TypeOK

LEMMA PlainStep ==
    ASSUME ChunkInv, PlainChunk
    PROVE  ChunkInv'
<1>1. /\ est' \in Nat \ {0} /\ breached' = FALSE
      /\ pc = "stream" /\ r0 < T.rows /\ Process
  BY DEF PlainChunk, ChunkInv, TypeOK, PlacesOK
<1>3. adaptive' \in BOOLEAN /\ breached' \in BOOLEAN /\ violations' \in BOOLEAN
  BY Zenon DEF PlainChunk, Process, ChunkInv, TypeOK
<1>2. TypeOK' /\ T' = T /\ r0' <= T.rows /\ maxChunk' = maxChunk
  BY <1>1, <1>3, ProcessStep
<1>4. QED
  BY <1>1, <1>2 DEF ChunkInv, BackOff

LEMMA AdaptiveStep ==
    ASSUME ChunkInv, NEW before \in RssLevels, NEW after \in RssLevels,
           AdaptiveChunk(before, after)
    PROVE  ChunkInv'
<1>0. adaptive' \in BOOLEAN /\ breached' \in BOOLEAN /\ violations' \in BOOLEAN
  <2>1. violations \in BOOLEAN
    BY Zenon DEF ChunkInv, TypeOK
  <2>2. (after > MaxRam - Reserve \div 2) \in BOOLEAN /\ (after > MaxRam) \in BOOLEAN
    BY Zenon, Comparison, Sizes
  <2>3. (violations \/ after > MaxRam) \in BOOLEAN
    BY Zenon, <2>1, <2>2, Disjunction
  <2>4. QED
    BY Zenon, <2>2, <2>3 DEF AdaptiveChunk, Process, ChunkInv, TypeOK
<1>1. pc = "stream" /\ r0 < T.rows /\ Process /\ Controlled
  BY DEF AdaptiveChunk
<1>2. /\ est \in Nat \ {0} /\ ChunkSize \in Nat \ {0} /\ before \in Nat /\ after \in Nat
      /\ working \in Nat /\ r0 \in Nat /\ maxChunk \in Nat /\ tensor \in 1 .. Len(Job)
  BY <1>1, SizeFits, JobAssumption DEF ChunkInv, TypeOK, PlacesOK
<1>3. PICK e \in Observed(est, ChunkSize, before, after) :
         est' = IF breached' THEN Doubled(e) ELSE e
  BY DEF AdaptiveChunk
<1>4. e \in Nat \ {0} /\ est <= Doubled(e) /\ Doubled(e) \in Nat \ {0}
  BY <1>2, <1>3, DoublingMakesUp
<1>5. est' \in Nat \ {0}
  BY <1>3, <1>4
<1>6. /\ TypeOK' /\ pc' = "stream" /\ T' = T /\ Controlled' = Controlled
      /\ r0' <= T.rows /\ maxChunk' = maxChunk /\ working' = working
      /\ r0' = r0 + chunk' /\ chunk' = ChunkSize
  BY <1>0, <1>1, <1>5, ProcessStep
<1>7. BackOff'
  <2> SUFFICES ASSUME r0' < T'.rows, breached'
               PROVE  ChunkSize' <= chunk'
    BY DEF BackOff
  <2>1. est' \in Nat \ {0} /\ est <= est'
    BY <1>3, <1>4
  <2>2. T.rows \in Nat
    BY <1>2, TensorTypes DEF T
  <2>3. /\ T.rows - r0 \in Nat \ {0} /\ T.rows - r0' \in Nat \ {0}
        /\ T.rows - r0' <= T.rows - r0
    BY <1>1, <1>2, <1>6, <2>2
  <2>4. /\ NextRows(working, est', T.rows - r0') <= NextRows(working, est, T.rows - r0)
        /\ NextRows(working, est, T.rows - r0) \in Int
        /\ NextRows(working, est', T.rows - r0') \in Int
    <3> DEFINE m == T.rows - r0
               n == T.rows - r0'
    <3>1. /\ m \in Nat \ {0} /\ n \in Nat \ {0} /\ n <= m /\ m <= m
          /\ est <= est /\ est \in Nat \ {0} /\ est' \in Nat \ {0} /\ est <= est'
          /\ working \in Nat /\ n <= n /\ est' <= est'
      BY <1>2, <2>1, <2>3
    <3> HIDE DEF m, n
    <3>2. /\ NextRows(working, est', n) <= NextRows(working, est, m)
          /\ NextRows(working, est, m) \in 1 .. m
      BY <3>1, NextRowsBounds
    <3>3. NextRows(working, est', n) \in 1 .. n
      BY <3>1, NextRowsBounds
    <3>4. QED
      BY <3>1, <3>2, <3>3 DEF m, n
  <2>5. ~T.copied
    BY <1>1 DEF Controlled
  <2>6. /\ ChunkSize = Smaller(NextRows(working, est, T.rows - r0), maxChunk)
        /\ ChunkSize' = Smaller(NextRows(working, est', T.rows - r0'), maxChunk)
    BY <1>1, <1>6, <2>5 DEF ChunkSize
  <2>7. QED
    BY <1>2, <1>6, <2>4, <2>6 DEF Smaller
<1>8. (T.rows > 0 => 1 <= maxChunk) /\ (T.copied => maxChunk = Smaller(T.rows, CopyRows))
  BY <1>1 DEF ChunkInv
<1>9. pc' = "stream" =>
         /\ r0' <= T'.rows
         /\ T'.rows > 0 => 1 <= maxChunk'
         /\ T'.copied => maxChunk' = Smaller(T'.rows, CopyRows)
  BY <1>6, <1>8
<1>10. TypeOK'
  BY <1>6
<1>11. QED
  BY <1>7, <1>9, <1>10 DEF ChunkInv

LEMMA CommitStep ==
    ASSUME ChunkInv, NEW rss \in RssLevels, Commit(rss)
    PROVE  ChunkInv'
<1>1. rss \in Nat /\ Larger(peak, rss) \in Nat
  BY JobAssumption DEF ChunkInv, TypeOK, PlacesOK, Larger
<1>2. pc' = "tensor" /\ PlacesOK'
  BY <1>1 DEF Commit, ChunkInv, TypeOK, PlacesOK
<1>3. adaptive' \in BOOLEAN /\ breached' \in BOOLEAN /\ violations' \in BOOLEAN
  <2>1. violations \in BOOLEAN /\ breached \in BOOLEAN /\ adaptive \in BOOLEAN
    BY Zenon DEF ChunkInv, TypeOK
  <2>2. (rss > MaxRam) \in BOOLEAN
    BY Zenon, Comparison, Sizes
  <2>3. (violations \/ rss > MaxRam) \in BOOLEAN
    BY Zenon, <2>1, <2>2, Disjunction
  <2>4. QED
    BY Zenon, <2>1, <2>3 DEF Commit
<1>4. QED
  BY <1>2, <1>3 DEF ChunkInv, BackOff, TypeOK

LEMMA StreamStep == ChunkInv /\ [Next]_vars => ChunkInv'
<1> SUFFICES ASSUME ChunkInv, [Next]_vars PROVE ChunkInv'
  OBVIOUS
<1>1. ASSUME NEW b \in BOOLEAN, NEW a \in RssLevels, NEW rss \in RssLevels, Start(b, a, rss)
      PROVE  ChunkInv'
  BY <1>1, StartStep
<1>2. ASSUME NEW before \in RssLevels, NEW after \in RssLevels, AdaptiveChunk(before, after)
      PROVE  ChunkInv'
  BY <1>2, AdaptiveStep
<1>3. ASSUME NEW rss \in RssLevels, Commit(rss)
      PROVE  ChunkInv'
  BY <1>3, CommitStep
<1>4. ASSUME Report
      PROVE  ChunkInv'
  <2>1. pc' = "idle" /\ PlacesOK'
    BY <1>4 DEF Report, ChunkInv, TypeOK, PlacesOK, Outcomes
  <2>2. adaptive' \in BOOLEAN /\ breached' \in BOOLEAN /\ violations' \in BOOLEAN
    BY <1>4, Zenon DEF Report, ChunkInv, TypeOK
  <2>3. QED
    BY <2>1, <2>2 DEF ChunkInv, BackOff, TypeOK
<1>5. CASE UNCHANGED vars
  BY <1>5 DEF vars, ChunkInv, TypeOK, PlacesOK, BackOff, T, ChunkSize, Controlled
<1>6. QED
  BY <1>1, <1>2, <1>3, <1>4, <1>5, OpenStep, PlainStep DEF Next, Step

LEMMA ChunkInvariant == Spec => []ChunkInv
  BY StreamInit, StreamStep, PTL DEF Spec

\* No chunk is empty, larger than the buffer or past the end of the tensor,
\* for every job and budget and whatever the RSS readings.
THEOREM ChunksFit == Spec => []ChunkFits
<1>1. ChunkInv => ChunkFits
  BY SizeFits DEF ChunkFits
<1>2. QED
  BY <1>1, ChunkInvariant, PTL

\* After a breach the next chunk is never larger (engine.py:388-395): one
\* observation takes at most three tenths off the estimate, and the violation
\* doubles it.
THEOREM BacksOff == Spec => []BackOff
<1>1. ChunkInv => BackOff
  BY DEF ChunkInv
<1>2. QED
  BY <1>1, ChunkInvariant, PTL
-----------------------------------------------------------------------------
(* What has been written.                                                  *)

\* The recursive definition of UpTo defines a function.
LEMMA UpToDefined ==
    /\ UpTo \in [0 .. Len(Job) -> Nat]
    /\ UpTo[0] = 0
    /\ \A i \in 1 .. Len(Job) : UpTo[i] = UpTo[i - 1] + Job[i].rows * Job[i].packed
<1> DEFINE a == [i \in 1 .. Len(Job) |-> Job[i].rows * Job[i].packed]
           Defined(f) ==
             f = [i \in 0 .. Len(Job) |->
                    IF i = 0 THEN 0 ELSE f[i - 1] + Job[i].rows * Job[i].packed]
<1>1. a \in [1 .. Len(Job) -> Nat] /\ \A i \in 1 .. Len(Job) : a[i] = Job[i].rows * Job[i].packed
  BY TensorTypes
<1> HIDE DEF a
<1>2. PICK f : IsSums(f, a, Len(Job))
  BY <1>1, JobLength, Sums
<1>3. \A i \in 0 .. Len(Job) : f[i] = IF i = 0 THEN 0 ELSE f[i - 1] + a[i]
  BY <1>2, Zenon DEF IsSums
<1>4. \A i \in 0 .. Len(Job) :
        f[i] = IF i = 0 THEN 0 ELSE f[i - 1] + Job[i].rows * Job[i].packed
  BY <1>1, <1>3, JobLength
<1>5. Defined(f)
  BY <1>2, <1>4, Zenon DEF IsSums
<1>6. Defined(UpTo)
  BY <1>5, Zenon DEF UpTo
<1>7. \A i \in 0 .. Len(Job) : UpTo[i] = IF i = 0 THEN 0 ELSE UpTo[i - 1] + a[i]
  <2>1. \A i \in 0 .. Len(Job) :
          UpTo[i] = IF i = 0 THEN 0 ELSE UpTo[i - 1] + Job[i].rows * Job[i].packed
    BY <1>6, Zenon
  <2> HIDE DEF Defined
  <2>2. QED
    BY <1>1, <2>1, JobLength
<1>8. UpTo = [i \in 0 .. Len(Job) |-> UpTo[i]]
  BY <1>6, Zenon
<1>9. IsSums(UpTo, a, Len(Job))
  BY <1>7, <1>8, Zenon DEF IsSums
<1>10. QED
  BY <1>1, <1>9, JobLength, SumsOf

\* One tensor more.
LEMMA UpToNext ==
    ASSUME NEW i \in 1 .. Len(Job)
    PROVE  /\ UpTo[i] \in Nat /\ UpTo[i - 1] \in Nat
           /\ UpTo[i] = UpTo[i - 1] + Job[i].rows * Job[i].packed
<1>1. i \in 0 .. Len(Job) /\ i - 1 \in 0 .. Len(Job) /\ i # 0
  BY JobLength
<1>2. QED
  BY <1>1, UpToDefined

\* Rows of m bytes.
LEMMA RowsDistribute ==
    ASSUME NEW a \in Nat, NEW b \in Nat, NEW m \in Nat
    PROVE  a * m \in Nat /\ b * m \in Nat /\ (a + b) * m = a * m + b * m
  BY SMTT(30)

\* Init establishes it.
LEMMA WrittenInit == Init => WrittenInv
  BY DEF Init, WrittenInv

\* A chunk adds the bytes of its rows.
LEMMA WrittenProcess ==
    ASSUME ChunkInv, WrittenInv, pc = "stream", r0 < T.rows, Process
    PROVE  WrittenInv'
<1>1. tensor \in 1 .. Len(Job) /\ r0 \in Nat
  BY DEF ChunkInv, TypeOK, PlacesOK
<1>2. T.packed \in Nat /\ ChunkSize \in Nat
  BY <1>1, TensorTypes, SizeFits DEF T
<1>3. /\ pc' = "stream" /\ outcome' = outcome /\ tensor' = tensor /\ T' = T
      /\ r0' = r0 + ChunkSize /\ written' = written + ChunkSize * T.packed
  BY DEF Process, T
<1>4. UpTo[tensor - 1] \in Nat
  BY <1>1, UpToNext
<1>5. (r0 + ChunkSize) * T.packed = r0 * T.packed + ChunkSize * T.packed
      /\ r0 * T.packed \in Nat /\ ChunkSize * T.packed \in Nat
  BY <1>1, <1>2, RowsDistribute
<1>6. written = UpTo[tensor - 1] + r0 * T.packed
  BY DEF WrittenInv
<1>7. written' = UpTo[tensor - 1] + (r0 + ChunkSize) * T.packed
  BY <1>3, <1>4, <1>5, <1>6
<1>8. written' = UpTo[tensor' - 1] + r0' * T'.packed
  BY <1>7, <1>3
<1>9. QED
  BY <1>3, <1>8 DEF WrittenInv

\* Every step keeps it.
LEMMA WrittenStep == ChunkInv /\ WrittenInv /\ [Next]_vars => WrittenInv'
<1> SUFFICES ASSUME ChunkInv, WrittenInv, [Next]_vars PROVE WrittenInv'
  OBVIOUS
<1>1. ASSUME NEW b \in BOOLEAN, NEW a \in RssLevels, NEW rss \in RssLevels, Start(b, a, rss)
      PROVE  WrittenInv'
  <2>1. UpTo[0] = 0
    BY UpToDefined, JobLength
  <2>2. outcome' # "ok" /\ pc' # "stream" /\ tensor' = 1 /\ written' = 0
    BY <1>1 DEF Start
  <2>3. QED
    BY <2>1, <2>2, JobLength DEF WrittenInv
<1>2. CASE OpenTensor
  <2>1. /\ tensor' = tensor /\ written' = written /\ r0' = 0 /\ T' = T /\ pc = "tensor"
        /\ tensor <= Len(Job) /\ pc' # "tensor"
        /\ outcome' = outcome \/ outcome' = "row too large"
    BY <1>2 DEF OpenTensor, T
  <2>2. tensor \in 1 .. Len(Job)
    <3>1. tensor \in Nat \ {0} /\ tensor <= Len(Job)
      BY <2>1 DEF ChunkInv, TypeOK, PlacesOK
    <3>2. QED
      BY <3>1, JobLength
  <2>3. T.packed \in Nat /\ UpTo[tensor - 1] \in Nat
    BY <2>2, TensorTypes, UpToNext DEF T
  <2>4. 0 * T.packed = 0
    BY <2>3
  <2>5. written' = UpTo[tensor' - 1] + r0' * T'.packed
    <3>1. written = UpTo[tensor - 1]
      BY <2>1 DEF WrittenInv
    <3>2. written = UpTo[tensor - 1] + 0 * T.packed
      BY <3>1, <2>3, <2>4
    <3>3. QED
      BY <3>2, <2>1
  <2>6. outcome' # "ok"
    BY <2>1 DEF WrittenInv
  <2>7. QED
    BY <2>1, <2>5, <2>6 DEF WrittenInv
<1>3. CASE PlainChunk
  BY <1>3, WrittenProcess DEF PlainChunk
<1>4. ASSUME NEW before \in RssLevels, NEW after \in RssLevels, AdaptiveChunk(before, after)
      PROVE  WrittenInv'
  BY <1>4, WrittenProcess DEF AdaptiveChunk
<1>5. ASSUME NEW rss \in RssLevels, Commit(rss)
      PROVE  WrittenInv'
  <2>1. /\ pc = "stream" /\ pc' = "tensor" /\ tensor' = tensor + 1 /\ written' = written
        /\ outcome' = outcome /\ r0 >= T.rows
    BY <1>5 DEF Commit
  <2>2. tensor \in 1 .. Len(Job) /\ r0 \in Nat /\ r0 <= T.rows
    BY <2>1 DEF ChunkInv, TypeOK, PlacesOK
  <2>3. r0 = T.rows
    BY <2>1, <2>2, TensorTypes DEF T
  <2>4. written = UpTo[tensor]
    BY <2>1, <2>2, <2>3, UpToNext DEF T, WrittenInv
  <2>5. (tensor + 1) - 1 = tensor /\ tensor + 1 <= Len(Job) + 1
    BY <2>2, JobLength
  <2>6. QED
    BY <2>1, <2>4, <2>5 DEF WrittenInv
<1>6. CASE Report
  <2>1. /\ pc = "tensor" /\ tensor > Len(Job) /\ pc' = "idle" /\ written' = written
    BY <1>6 DEF Report
  <2>2. tensor - 1 = Len(Job)
    BY <2>1, JobLength DEF WrittenInv, ChunkInv, TypeOK, PlacesOK
  <2>3. QED
    BY <2>1, <2>2 DEF WrittenInv
<1>7. CASE UNCHANGED vars
  BY <1>7 DEF vars, WrittenInv, T
<1>8. QED
  BY <1>1, <1>2, <1>3, <1>4, <1>5, <1>6, <1>7 DEF Next, Step

\* The inductive invariant, for every job, budget and RSS readings.
THEOREM StreamInvariant == Spec => []StreamInv
<1>1. Init => StreamInv
  BY StreamInit, WrittenInit DEF StreamInv
<1>2. StreamInv /\ [Next]_vars => StreamInv'
  BY StreamStep, WrittenStep DEF StreamInv
<1>3. QED
  BY <1>1, <1>2, PTL DEF Spec

\* A run that ends well has written exactly the bytes planned, however its
\* tensors are cut into chunks (engine.py:364-398, 408-418).
THEOREM WritesThePlan == Spec => []WrittenAsPlanned
<1>1. StreamInv => WrittenAsPlanned
  BY DEF StreamInv, WrittenInv, WrittenAsPlanned
<1>2. QED
  BY <1>1, StreamInvariant, PTL
-----------------------------------------------------------------------------
(* Why every run comes to an end.                                          *)

\* A step ends the run, moves on to the next tensor of the job, begins to
\* stream the one at hand, or takes rows of it that are left.
Advances ==
    \/ pc' = "idle"
    \/ tensor \in 1 .. Len(Job) /\ tensor' = tensor + 1
    \/ pc = "tensor" /\ pc' = "stream" /\ tensor' = tensor
    \/ pc = "stream" /\ pc' = "stream" /\ tensor' = tensor /\ r0 < r0' /\ r0' <= T.rows

\* No step of a run leaves it where it was, for every job, budget and RSS
\* readings: an estimate that has grown beyond any chunk, and a measurement
\* gone backwards, still leave one row for the next chunk
\* (controller.py:32-48, engine.py:362-396).
THEOREM NoStepIsIdle == Spec => [][Step => Advances]_vars
<1>1. ChunkInv /\ [Next]_vars => [Step => Advances]_vars
  <2> SUFFICES ASSUME ChunkInv, Step PROVE Advances
    OBVIOUS
  <2>1. CASE OpenTensor
    BY <2>1 DEF OpenTensor, Advances
  <2>2. CASE Report
    BY <2>2 DEF Report, Advances
  <2>3. ASSUME NEW rss \in RssLevels, Commit(rss) PROVE Advances
    BY <2>3 DEF Commit, Advances, ChunkInv, TypeOK, PlacesOK
  <2>4. ASSUME pc = "stream", r0 < T.rows, Process PROVE Advances
    <3>1. ChunkSize \in Nat \ {0} /\ r0 + ChunkSize <= T.rows /\ r0 \in Nat
      BY <2>4, SizeFits DEF ChunkInv, TypeOK, PlacesOK
    <3>2. r0' = r0 + ChunkSize /\ pc' = pc /\ tensor' = tensor
      BY <2>4 DEF Process
    <3>3. QED
      BY <2>4, <3>1, <3>2 DEF Advances
  <2>5. CASE PlainChunk
    BY <2>4, <2>5 DEF PlainChunk
  <2>6. ASSUME NEW before \in RssLevels, NEW after \in RssLevels, AdaptiveChunk(before, after)
        PROVE  Advances
    BY <2>4, <2>6 DEF AdaptiveChunk
  <2>7. QED
    BY <2>1, <2>2, <2>3, <2>5, <2>6 DEF Step
<1>2. QED
  BY <1>1, ChunkInvariant, PTL DEF Spec
=============================================================================
