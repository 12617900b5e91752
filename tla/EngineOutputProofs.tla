------------------------- MODULE EngineOutputProofs -------------------------
(***************************************************************************)
(* A run that reports success has made the file an uninterrupted run would *)
(* have made, whatever crashed, was cut, corrupted or replaced before it,  *)
(* provided that stat identifies the source: for every plan, format,       *)
(* version and fault.  And what a manifest has recorded stays recorded,    *)
(* and stays in the file, as long as no power is lost.  So the job,        *)
(* however often it is killed and resumed, implements ResumableJob.        *)
(***************************************************************************)
EXTENDS EngineProofs, FiniteSetTheorems
-----------------------------------------------------------------------------
(* The reference output.                                                   *)

LEMMA OutputIsPlanned ==
    ASSUME NEW f \in Formats, NEW v \in Versions
    PROVE  PlanOf[f][v] \in Plans
  BY EngineAssumption

LEMMA OutputAt ==
    ASSUME NEW f \in Formats, NEW v \in Versions, NEW p \in Positions
    PROVE  LET L == PlanOf[f][v]
               Of == {i \in Tensors(L) : p \in Span(L, i)}
           IN  Output[f][v][p] =
                 IF p < HeaderLen[L] THEN HeaderCell(f, v, p)
                 ELSE IF Of = {} THEN Zero
                 ELSE LET i == CHOOSE i \in Of : TRUE
                      IN  DataCell(f, v, i, p - Offset[L][i])
  BY DEF Output

\* The header first ...
LEMMA OutputHeader ==
    ASSUME NEW f \in Formats, NEW v \in Versions,
           NEW p \in 0 .. HeaderLen[PlanOf[f][v]] - 1
    PROVE  p \in Positions /\ Output[f][v][p] = HeaderCell(f, v, p)
<1> DEFINE L == PlanOf[f][v]
<1>1. L \in Plans
  BY OutputIsPlanned
<1>2. HeaderLen[L] \in Nat /\ HeaderLen[L] <= Capacity /\ Capacity \in Nat
  BY <1>1, PlanInCapacity
<1>3. p \in Positions /\ p < HeaderLen[L]
  BY <1>2 DEF Positions
<1>4. QED
  BY <1>3, OutputAt

\* ... each tensor at its offset ...
LEMMA OutputData ==
    ASSUME NEW f \in Formats, NEW v \in Versions,
           NEW i \in Tensors(PlanOf[f][v]),
           NEW k \in 0 .. Nbytes[PlanOf[f][v]][i] - 1
    PROVE  LET p == Offset[PlanOf[f][v]][i] + k
           IN  p \in Positions /\ Output[f][v][p] = DataCell(f, v, i, k)
<1> DEFINE L == PlanOf[f][v]
           p == Offset[L][i] + k
           Of == {j \in Tensors(L) : p \in Span(L, j)}
<1>1. L \in Plans
  BY OutputIsPlanned
<1>2. /\ Offset[L][i] \in Nat /\ Nbytes[L][i] \in Nat /\ HeaderLen[L] \in Nat
      /\ HeaderLen[L] <= Offset[L][i] /\ End(L, i) <= Capacity /\ Capacity \in Nat
  <2>1. i \in 1 .. Count(L) + 1
    BY <1>1, LayoutTypes DEF Tensors
  <2>2. HeaderLen[L] <= HeaderEnd(L) /\ HeaderEnd(L) <= Offset[L][i]
    BY <1>1, <2>1, HeaderFirst
  <2>3. End(L, i) <= Size(L) /\ Size(L) <= Capacity
    BY <1>1, PlanInCapacity
  <2>4. /\ Offset[L][i] \in Nat /\ Nbytes[L][i] \in Nat /\ HeaderLen[L] \in Nat
        /\ HeaderEnd(L) \in Nat /\ End(L, i) \in Nat /\ Size(L) \in Nat
        /\ Capacity \in Nat
    BY <1>1, <2>1, LayoutTypes, PlanInCapacity
  <2>5. QED
    BY <2>2, <2>3, <2>4
<1>3. p \in Positions /\ ~(p < HeaderLen[L]) /\ p \in Span(L, i)
        /\ p - Offset[L][i] = k
  BY <1>2 DEF Positions, Span, End
<1>4. Of = {i}
  <2>1. i \in Of
    BY <1>3
  <2>2. ASSUME NEW j \in Of PROVE j = i
    BY <1>1, <1>3, SpansDisjoint
  <2>3. QED
    BY <2>1, <2>2
<1>5. (CHOOSE j \in Of : TRUE) = i
  BY <1>4
<1> HIDE DEF p
<1>6. Output[f][v][p] = DataCell(f, v, i, p - Offset[L][i])
  BY <1>3, <1>4, <1>5, OutputAt
<1>7. QED
  BY <1>3, <1>6 DEF p

\* ... and zeros between them.
LEMMA OutputGap ==
    ASSUME NEW f \in Formats, NEW v \in Versions, NEW p \in Positions,
           HeaderLen[PlanOf[f][v]] <= p,
           \A i \in Tensors(PlanOf[f][v]) : p \notin Span(PlanOf[f][v], i)
    PROVE  Output[f][v][p] = Zero
<1> DEFINE L == PlanOf[f][v]
           Of == {i \in Tensors(L) : p \in Span(L, i)}
<1>1. Of = {}
  OBVIOUS
<1>2. HeaderLen[L] \in Nat /\ p \in Int
  BY OutputIsPlanned, PlanInCapacity, EngineAssumption DEF Positions
<1>3. ~(p < HeaderLen[L])
  BY <1>2
<1>4. QED
  BY <1>1, <1>3, OutputAt

\* The padding `begin_tensor` writes before tensor i.
LEMMA OutputPadding ==
    ASSUME NEW f \in Formats, NEW v \in Versions,
           NEW i \in Tensors(PlanOf[f][v]), NEW p \in Nat,
           p < Offset[PlanOf[f][v]][i],
           IF i = 1 THEN HeaderLen[PlanOf[f][v]] <= p
                    ELSE End(PlanOf[f][v], i - 1) <= p
    PROVE  p \in Positions /\ Output[f][v][p] = Zero
<1> DEFINE L == PlanOf[f][v]
<1>1. L \in Plans
  BY OutputIsPlanned
<1>2. Count(L) \in Nat \ {0} /\ i \in Nat /\ i >= 1 /\ i <= Count(L)
        /\ i \in 1 .. Count(L) + 1
  BY <1>1, LayoutTypes DEF Tensors
<1>3. /\ Offset[L][i] \in Nat /\ Offset[L][i] <= Capacity /\ Capacity \in Nat
  BY <1>1, <1>2, OffsetsInCapacity, EngineAssumption
<1>4. p \in Positions
  BY <1>3 DEF Positions
<1>5. HeaderLen[L] <= p
  <2>1. CASE i = 1
    BY <2>1
  <2>2. CASE i # 1
    <3>1. i - 1 \in Tensors(L) /\ i - 1 \in 1 .. Count(L) + 1
      BY <1>2, <2>2 DEF Tensors
    <3>2. /\ HeaderLen[L] <= HeaderEnd(L) /\ HeaderEnd(L) <= Offset[L][i - 1]
          /\ Offset[L][i - 1] < End(L, i - 1) /\ End(L, i - 1) <= p
          /\ HeaderLen[L] \in Nat /\ HeaderEnd(L) \in Nat
          /\ Offset[L][i - 1] \in Nat /\ End(L, i - 1) \in Nat
      BY <1>1, <2>2, <3>1, HeaderFirst, LayoutTypes
    <3>3. QED
      BY <3>2
  <2>3. QED
    BY <2>1, <2>2
<1>6. ASSUME NEW j \in Tensors(L)
      PROVE  p \notin Span(L, j)
  <2>1. j \in Nat /\ j >= 1 /\ j <= Count(L) /\ Offset[L][j] \in Nat
          /\ End(L, j) \in Nat
    BY <1>1, <1>2, LayoutTypes DEF Tensors
  <2>2. CASE j >= i
    <3>1. Offset[L][i] <= Offset[L][j]
      <4>1. CASE j = i
        BY <4>1, <1>3
      <4>2. CASE j # i
        <5>1. i \in Tensors(L) /\ j \in i + 1 .. Count(L) + 1
          BY <1>2, <2>1, <2>2, <4>2
        <5>2. End(L, i) <= Offset[L][j] /\ Offset[L][i] < End(L, i)
                /\ End(L, i) \in Nat
          BY <1>1, <5>1, TensorsInOrder, LayoutTypes
        <5>3. QED
          BY <5>2, <1>3, <2>1
      <4>3. QED
        BY <4>1, <4>2
    <3>2. QED
      BY <3>1, <1>3, <2>1 DEF Span
  <2>3. CASE j < i
    <3>1. i # 1 /\ i - 1 \in Tensors(L)
      BY <1>2, <2>1, <2>3 DEF Tensors
    <3>2. End(L, j) <= End(L, i - 1) /\ End(L, i - 1) \in Nat
      <4>1. CASE j = i - 1
        BY <4>1, <2>1
      <4>2. CASE j # i - 1
        <5>1. i - 1 \in j + 1 .. Count(L) + 1
          BY <1>2, <2>1, <2>3, <4>2
        <5>2. End(L, j) <= Offset[L][i - 1] /\ Offset[L][i - 1] < End(L, i - 1)
                /\ Offset[L][i - 1] \in Nat /\ End(L, i - 1) \in Nat
          <6>1. End(L, j) <= Offset[L][i - 1]
            BY <1>1, <5>1, TensorsInOrder
          <6>2. /\ Offset[L][i - 1] < End(L, i - 1) /\ End(L, i - 1) \in Nat
                /\ i - 1 \in 1 .. Count(L) + 1
            BY <1>1, <1>2, <3>1, LayoutTypes DEF Tensors
          <6>3. QED
            BY <1>1, <6>1, <6>2, LayoutTypes
        <5>3. QED
          BY <5>2, <2>1
      <4>3. QED
        BY <4>1, <4>2
    <3>3. End(L, j) <= p
      BY <3>1, <3>2, <2>1
    <3>4. QED
      BY <3>3, <2>1 DEF Span
  <2>4. QED
    BY <2>2, <2>3, <2>1, <1>2
<1>7. QED
  BY <1>4, <1>5, <1>6, OutputGap
-----------------------------------------------------------------------------
(* The write buffer.                                                       *)

\* What is buffered ends within the output.
LEMMA BufferInSize ==
    ASSUME PlaceInv, MemInv, pc \in Writing \cup {"header"}, pend # <<>>
    PROVE  tell <= Size(PlanOf[fmt][input])
<1> DEFINE L == PlanOf[fmt][input]
<1>1. L \in Plans
  BY TypeFacts DEF PlaceInv
<1>2. CASE pc = "header"
  <2>1. tell = HeaderLen[L]
    BY <1>1, <1>2, PlanInCapacity DEF PlaceInv, InPlace, Writing, tell
  <2>2. QED
    BY <1>1, <2>1, PlanInCapacity
<1>3. CASE pc \in {"initial", "check", "stream"}
  <2>1. mem.plan = L /\ tensor \in Tensors(L)
    BY <1>3 DEF PlaceInv, InPlace, MemInv, Writing
  <2>2. tell <= End(L, tensor)
    <3>1. /\ Offset[L][tensor] \in Nat /\ Nbytes[L][tensor] \in Nat
      BY <1>1, <2>1, LayoutTypes DEF Tensors
    <3>2. CASE pc = "stream"
      <4>1. /\ tell = Offset[L][tensor] + row /\ row <= Nbytes[L][tensor]
            /\ row \in Nat
        BY <3>2, <2>1 DEF PlaceInv, TypeOK, InPlace
      <4>2. QED
        BY <3>1, <4>1 DEF End
    <3>3. CASE pc \in {"initial", "check"}
      <4>1. tell = Offset[L][tensor]
        BY <3>3, <2>1 DEF PlaceInv, InPlace
      <4>2. QED
        BY <3>1, <4>1 DEF End
    <3>4. QED
      BY <1>3, <3>2, <3>3
  <2>3. End(L, tensor) <= Size(L) /\ End(L, tensor) \in Nat /\ Size(L) \in Nat
          /\ tell \in Nat
    BY <1>1, <2>1, PlanInCapacity, TypeFacts DEF PlaceInv
  <2>4. QED
    BY <2>2, <2>3
<1>4. QED
  BY <1>2, <1>3 DEF PlaceInv, InPlace, Writing

\* A file of zeros only is nobody's file.
LEMMA EmptyFileOK == FileOK(EmptyFile)
<1>1. \A p \in Positions : EmptyFile.at[p] = Zero
  BY DEF EmptyFile
<1>2. ASSUME NEW f \in Formats, NEW v \in Versions
      PROVE  EmptyFile.at[0] # HeaderCell(f, v, 0)
  <2>1. 0 \in 0 .. HeaderLen[PlanOf[f][v]] - 1
    BY OutputIsPlanned, PlanInCapacity
  <2>2. 0 \in Positions
    BY <2>1, OutputHeader
  <2>3. QED
    BY <1>1, <2>2, CellsDistinct
<1>3. QED
  BY <1>1, <1>2 DEF FileOK

\* Any prefix of the buffer may reach the file at any time.
LEMMA FlushedContent ==
    ASSUME PlaceInv, FileOK(file), MemInv, RunInv,
           pc \in Writing \cup {"header"}, NEW k \in 0 .. Len(pend)
    PROVE  /\ FileOK(Flushed(k))
           /\ \A p \in 0 .. fpos + k - 1 :
                 p \in Positions /\ Flushed(k).at[p] = Output[fmt][input][p]
           /\ file.len <= Flushed(k).len
           /\ k # 0 => fpos + k <= Flushed(k).len
<1> DEFINE L == PlanOf[fmt][input]
           F == Flushed(k)
<1>1. /\ fmt \in Formats /\ input \in Versions /\ L \in Plans
      /\ fpos \in Nat /\ Len(pend) \in Nat /\ Capacity \in Nat
      /\ k \in Nat /\ k <= Len(pend) /\ fpos + Len(pend) <= Capacity
      /\ file.len \in Nat
  <2>1. /\ fmt \in Formats /\ input \in Versions /\ L \in Plans
        /\ fpos \in Nat /\ Len(pend) \in Nat /\ fpos + Len(pend) <= Capacity
        /\ file.len \in 0 .. Capacity /\ Capacity \in Nat
    BY TypeFacts, EngineAssumption DEF PlaceInv, TypeOK, tell, Files
  <2>2. QED
    BY <2>1
<1>2. /\ F.len = IF k # 0 /\ fpos + k > file.len THEN fpos + k ELSE file.len
      /\ \A p \in Positions :
            F.at[p] = IF p \in fpos .. fpos + k - 1
                      THEN pend[p - fpos + 1] ELSE file.at[p]
  BY FlushedType DEF PlaceInv
<1> HIDE DEF F
<1>3. pc = "header" => fpos = 0 /\ file = EmptyFile
  BY DEF PlaceInv, InPlace, RunInv, Writing
<1>4. ASSUME NEW p \in 0 .. fpos + k - 1
      PROVE  p \in Positions /\ F.at[p] = Output[fmt][input][p]
  <2>1. p \in Positions /\ p \in Nat
    BY <1>1 DEF Positions
  <2>2. CASE p >= fpos
    <3>1. p \in fpos .. fpos + k - 1 /\ p - fpos + 1 \in 1 .. Len(pend)
            /\ fpos + (p - fpos + 1) - 1 = p
      BY <1>1, <2>1, <2>2
    <3>2. pend[p - fpos + 1] = Output[fmt][input][p]
      BY <3>1 DEF RunInv
    <3>3. QED
      BY <1>2, <2>1, <3>1, <3>2
  <2>3. CASE p < fpos
    <3>1. p \in 0 .. fpos - 1 /\ p \notin fpos .. fpos + k - 1 /\ fpos # 0
      BY <1>1, <2>1, <2>3
    <3>2. file.at[p] = Output[fmt][input][p]
      BY <1>3, <3>1 DEF RunInv
    <3>3. QED
      BY <1>2, <2>1, <3>1, <3>2
  <2>4. QED
    BY <2>1, <2>2, <2>3, <1>1
<1>5. file.len <= F.len /\ (k # 0 => fpos + k <= F.len)
  BY <1>1, <1>2
<1>6. 0 \in Positions /\ Output[fmt][input][0] = HeaderCell(fmt, input, 0)
  <2>1. 0 \in 0 .. HeaderLen[L] - 1
    BY <1>1, PlanInCapacity
  <2>2. QED
    BY <1>1, <2>1, OutputHeader
<1>7. /\ file.len <= Size(L)
      /\ \A p \in Positions : Output[fmt][input][p] = Zero => file.at[p] = Zero
  <2>1. CASE pc = "header"
    BY <1>1, <1>3, <2>1, PlanInCapacity DEF EmptyFile
  <2>2. CASE pc \in Writing
    <3>1. 0 \in 0 .. fpos - 1
      <4>1. fpos > 0
        BY <2>2 DEF RunInv
      <4>2. QED
        BY <1>1, <4>1
    <3>2. file.at[0] = HeaderCell(fmt, input, 0)
      BY <1>6, <2>2, <3>1 DEF RunInv
    <3>3. QED
      BY <1>1, <3>2 DEF FileOK
  <2>3. QED
    BY <2>1, <2>2
<1>8. FileOK(F)
  <2>1. ASSUME NEW p \in Positions, p >= F.len
        PROVE  F.at[p] = Zero
    <3>1. p \in Nat /\ p \notin fpos .. fpos + k - 1 /\ p >= file.len
      BY <1>1, <1>5, <1>2, <2>1 DEF Positions
    <3>2. file.at[p] = Zero
      BY <3>1 DEF FileOK
    <3>3. QED
      BY <1>2, <3>1, <3>2
  <2>2. ASSUME NEW f \in Formats, NEW v \in Versions,
               F.at[0] = HeaderCell(f, v, 0)
        PROVE  /\ F.len <= Size(PlanOf[f][v])
               /\ \A p \in Positions : Output[f][v][p] = Zero => F.at[p] = Zero
    <3>1. CASE k = 0
      <4>1. F.len = file.len
        BY <1>2, <3>1
      <4>2. ASSUME NEW p \in Positions PROVE F.at[p] = file.at[p]
        <5>1. p \notin fpos .. fpos + k - 1
          BY <1>1, <3>1 DEF Positions
        <5>2. QED
          BY <1>2, <5>1
      <4>3. QED
        BY <1>6, <2>2, <4>1, <4>2 DEF FileOK
    <3>2. CASE k # 0
      <4>1. 0 \in 0 .. fpos + k - 1 /\ pend # <<>>
        BY <1>1, <3>2
      <4>2. f = fmt /\ v = input
        BY <1>4, <1>6, <2>2, <4>1, CellsDistinct
      <4>3. F.len <= Size(L)
        <5>1. fpos + Len(pend) <= Size(L)
          BY <4>1, BufferInSize DEF tell
        <5>2. Size(L) \in Nat
          BY <1>1, PlanInCapacity
        <5>3. QED
          BY <1>1, <1>2, <1>7, <5>1, <5>2
      <4>4. ASSUME NEW p \in Positions, Output[fmt][input][p] = Zero
            PROVE  F.at[p] = Zero
        <5>1. CASE p \in 0 .. fpos + k - 1
          BY <1>4, <4>4, <5>1
        <5>2. CASE p \notin 0 .. fpos + k - 1
          <6>1. p \notin fpos .. fpos + k - 1
            BY <1>1, <5>2 DEF Positions
          <6>2. QED
            BY <1>2, <1>7, <4>4, <6>1
        <5>3. QED
          BY <5>1, <5>2
      <4>5. QED
        BY <4>2, <4>3, <4>4
    <3>3. QED
      BY <3>1, <3>2
  <2>3. QED
    BY <2>1, <2>2 DEF FileOK
<1>9. QED
  BY <1>4, <1>5, <1>8 DEF F

\* A flush makes the file what it has to be up to the writer's position.
LEMMA FlushContent ==
    ASSUME PlaceInv, FileOK(file), MemInv, RunInv,
           pc \in Writing \cup {"header"}
    PROVE  /\ FileOK(FlushAll)
           /\ \A p \in 0 .. tell - 1 :
                 p \in Positions /\ FlushAll.at[p] = Output[fmt][input][p]
           /\ file.len <= FlushAll.len
           /\ Len(pend) # 0 => tell <= FlushAll.len
<1>1. Len(pend) \in 0 .. Len(pend)
  BY DEF PlaceInv, TypeOK
<1>2. /\ FileOK(Flushed(Len(pend)))
      /\ \A p \in 0 .. fpos + Len(pend) - 1 :
            /\ p \in Positions
            /\ Flushed(Len(pend)).at[p] = Output[fmt][input][p]
      /\ file.len <= Flushed(Len(pend)).len
      /\ Len(pend) # 0 => fpos + Len(pend) <= Flushed(Len(pend)).len
  BY <1>1, FlushedContent
<1>3. FlushAll = Flushed(Len(pend)) /\ tell = fpos + Len(pend)
  BY DEF FlushAll, tell
<1>4. FileOK(FlushAll) /\ file.len <= FlushAll.len
  BY <1>2, <1>3
<1>5. Len(pend) # 0 => tell <= FlushAll.len
  BY <1>2, <1>3
<1>6. ASSUME NEW p \in 0 .. tell - 1
      PROVE  p \in Positions /\ FlushAll.at[p] = Output[fmt][input][p]
  <2>1. p \in 0 .. fpos + Len(pend) - 1
    <3>1. tell \in Nat /\ fpos \in Nat /\ Len(pend) \in Nat
      BY TypeFacts DEF PlaceInv, TypeOK
    <3>2. QED
      BY <1>3, <3>1
  <2>2. QED
    BY <1>2, <1>3, <2>1
<1>7. QED
  BY <1>4, <1>5, <1>6
-----------------------------------------------------------------------------
(* Runs that end, and what happens between them.                           *)

LEMMA ExitContent ==
    ASSUME Exit, FileOK(file'),
           manifest' # NoManifest => Truthful(manifest'),
           durable' # NoManifest => Truthful(durable'),
           code' = "ok" => IsOutput(file', fmt', input')
    PROVE  ContentInv'
<1>1. MemInv' /\ RunInv'
  BY DEF Exit, MemInv, RunInv, Writing
<1>2. SuccessMeansIdentical'
  BY DEF SuccessMeansIdentical
<1>3. QED
  BY <1>1, <1>2 DEF ContentInv

LEMMA ContentInit == Init => ContentInv
<1> SUFFICES ASSUME Init PROVE ContentInv
  OBVIOUS
<1>1. FileOK(file)
  BY EmptyFileOK DEF Init
<1>2. MemInv /\ RunInv /\ SuccessMeansIdentical
  BY DEF Init, MemInv, RunInv, Writing, SuccessMeansIdentical
<1>3. QED
  BY <1>1, <1>2 DEF Init, ContentInv

LEMMA ContentStart ==
    ASSUME PlaceInv, ContentInv, NEW resume \in BOOLEAN, NEW f \in Formats,
           Start(resume, f)
    PROVE  ContentInv'
<1>1. /\ pc' \in {"verify", "begin"} /\ input' = source' /\ code' = "running"
      /\ UNCHANGED <<file, manifest, durable>>
  BY DEF Start, storage
<1>2. MemInv' /\ RunInv' /\ SuccessMeansIdentical'
  BY <1>1 DEF MemInv, RunInv, Writing, SuccessMeansIdentical
<1>3. QED
  BY <1>1, <1>2 DEF ContentInv

LEMMA ContentCrash ==
    ASSUME PlaceInv, ContentInv, NEW k \in 0 .. Len(pend), Crash(k)
    PROVE  ContentInv'
<1>1. FileOK(Flushed(k))
  <2>1. CASE pc \in Writing \cup {"header"}
    BY <2>1, FlushedContent DEF ContentInv
  <2>2. CASE pc \notin Writing \cup {"header"}
    <3>1. pend = <<>>
      BY <2>2 DEF PlaceInv, InPlace, TypeOK, ControlPoints, Writing
    <3>2. k = 0
      BY <3>1
    <3>3. QED
      BY <3>2 DEF Flushed, ContentInv
  <2>3. QED
    BY <2>1, <2>2
<1>2. QED
  BY <1>1, ExitContent DEF Crash, ContentInv

\* Lost pages read as zeros: they can take the header away, never forge one.
LEMMA ContentPowerLoss ==
    ASSUME PlaceInv, ContentInv, NEW len \in 0 .. file.len,
           NEW lost \in SUBSET (0 .. len - 1), NEW m \in {manifest, durable},
           PowerLoss(len, lost, m)
    PROVE  ContentInv'
<1>1. /\ file'.len = len
      /\ \A p \in Positions :
            file'.at[p] = IF p < len /\ p \notin lost THEN file.at[p] ELSE Zero
  BY DEF PowerLoss
<1>2. file.len \in Nat /\ len \in Nat /\ len <= file.len
  BY EngineAssumption DEF PlaceInv, TypeOK, Files
<1>3. FileOK(file')
  <2>1. \A p \in Positions : p >= file'.len => file'.at[p] = Zero
    BY <1>1, <1>2 DEF Positions
  <2>2. ASSUME NEW f \in Formats, NEW v \in Versions,
               file'.at[0] = HeaderCell(f, v, 0)
        PROVE  /\ file'.len <= Size(PlanOf[f][v])
               /\ \A p \in Positions :
                     Output[f][v][p] = Zero => file'.at[p] = Zero
    <3>1. 0 \in Positions
      <4>1. 0 \in 0 .. HeaderLen[PlanOf[f][v]] - 1
        BY OutputIsPlanned, PlanInCapacity
      <4>2. QED
        BY <4>1, OutputHeader
    <3>2. file.at[0] = HeaderCell(f, v, 0)
      BY <1>1, <2>2, <3>1, CellsDistinct
    <3>3. /\ file.len <= Size(PlanOf[f][v])
          /\ \A p \in Positions : Output[f][v][p] = Zero => file.at[p] = Zero
      BY <3>2 DEF ContentInv, FileOK
    <3>4. Size(PlanOf[f][v]) \in Nat
      BY OutputIsPlanned, PlanInCapacity
    <3>5. QED
      BY <1>1, <1>2, <3>3, <3>4
  <2>3. QED
    BY <2>1, <2>2 DEF FileOK
<1>4. QED
  BY <1>3, ExitContent DEF PowerLoss, ContentInv

\* A bad byte is never a byte of a header, and padding does not go bad.
LEMMA ContentCorrupt ==
    ASSUME PlaceInv, ContentInv, NEW p \in Positions, Corrupt(p)
    PROVE  ContentInv'
<1>1. /\ file'.len = file.len /\ file.at[p] # Zero
      /\ \A q \in Positions : file'.at[q] = IF q = p THEN Bad ELSE file.at[q]
      /\ pc = "idle" /\ pc' = "idle" /\ code' = "none"
      /\ UNCHANGED <<manifest, durable>>
  BY DEF Corrupt, process, PlaceInv, TypeOK, Files
<1>2. FileOK(file')
  <2>1. ASSUME NEW q \in Positions, q >= file'.len
        PROVE  file'.at[q] = Zero
    BY <1>1, <2>1 DEF ContentInv, FileOK
  <2>2. ASSUME NEW f \in Formats, NEW v \in Versions,
               file'.at[0] = HeaderCell(f, v, 0)
        PROVE  /\ file'.len <= Size(PlanOf[f][v])
               /\ \A q \in Positions :
                     Output[f][v][q] = Zero => file'.at[q] = Zero
    <3>1. 0 \in Positions
      <4>1. 0 \in 0 .. HeaderLen[PlanOf[f][v]] - 1
        BY OutputIsPlanned, PlanInCapacity
      <4>2. QED
        BY <4>1, OutputHeader
    <3>2. file.at[0] = HeaderCell(f, v, 0)
      BY <1>1, <2>2, <3>1, CellsDistinct
    <3>3. QED
      BY <1>1, <3>2 DEF ContentInv, FileOK
  <2>3. QED
    BY <2>1, <2>2 DEF FileOK
<1>3. MemInv' /\ RunInv' /\ SuccessMeansIdentical'
  BY <1>1 DEF MemInv, RunInv, Writing, SuccessMeansIdentical
<1>4. QED
  BY <1>1, <1>2, <1>3 DEF ContentInv

LEMMA ContentFault ==
    ASSUME StatIdentifies, PlaceInv, ContentInv, Fault
    PROVE  ContentInv'
<1>1. CASE Writeback
  <2>1. /\ durable' = manifest
        /\ UNCHANGED <<pc, fmt, input, resuming, mem, tensor, row, fpos, pend,
                       file, manifest, source, code>>
    BY <1>1 DEF Writeback, process
  <2>2. MemInv' /\ RunInv' /\ SuccessMeansIdentical'
    BY <2>1 DEF ContentInv, MemInv, HeaderPending, RunInv, SuccessMeansIdentical
  <2>3. QED
    BY <2>1, <2>2 DEF ContentInv
<1>2. ASSUME NEW v \in Versions \ {source}, EditSource(v)
      PROVE  ContentInv'
  <2>1. /\ UNCHANGED <<pc, fmt, input, resuming, mem, tensor, row, fpos, pend,
                       file, manifest, durable>>
        /\ \/ pc = "idle" /\ code' = "none"
           \/ pc \in Writing /\ code' = code
    BY <1>2 DEF EditSource, StatIdentifies, process
  <2>2. MemInv'
    BY <2>1 DEF ContentInv, MemInv, HeaderPending
  <2>3. RunInv' /\ SuccessMeansIdentical'
    BY <2>1 DEF ContentInv, RunInv, SuccessMeansIdentical, Writing
  <2>4. QED
    BY <2>1, <2>2, <2>3 DEF ContentInv
<1>3. QED
  BY <1>1, <1>2, ContentCrash, ContentPowerLoss, ContentCorrupt DEF Fault
-----------------------------------------------------------------------------
(* The steps of a run.                                                     *)

\* The file of a running job starts with the job's own header.
LEMMA OwnHeader ==
    ASSUME PlaceInv
    PROVE  0 \in Positions /\ Output[fmt][input][0] = HeaderCell(fmt, input, 0)
<1>1. 0 \in 0 .. HeaderLen[PlanOf[fmt][input]] - 1
  BY TypeFacts, PlanInCapacity DEF PlaceInv
<1>2. QED
  BY <1>1, OutputHeader DEF PlaceInv, TypeOK

\* What a run saves is the truth about the only source its stat can name.
LEMMA MemTruthful ==
    ASSUME StatIdentifies, PlaceInv, MemInv, pc \in Writing, ~HeaderPending
    PROVE  Truthful(mem)
<1>1. /\ mem.stat = Stat[input] /\ mem.fmt = fmt
      /\ mem.plan = PlanOf[fmt][input]
      /\ mem.header = HeaderHash(fmt, input)
      /\ \A i \in Committed(mem) : mem.sha[i] = TensorHash(fmt, input, i)
      /\ input \in Versions
  BY DEF MemInv, PlaceInv, TypeOK
<1>2. \A v \in Versions : Stat[v] = mem.stat => v = input
  BY <1>1 DEF StatIdentifies
<1>3. QED
  BY <1>1, <1>2 DEF Truthful

\* What passed the checks of _prepare_resume is what this run would write.
LEMMA ResumePoint ==
    ASSUME PlaceInv, ContentInv, pc = "verify", manifest # NoManifest,
           NEW i \in 1 .. Count(manifest.plan) + 1, Accept(i)
    PROVE  /\ manifest.stat = Stat[input] /\ manifest.fmt = fmt
           /\ manifest.plan = PlanOf[fmt][input]
           /\ manifest.header = HeaderHash(fmt, input)
           /\ \A j \in Committed(manifest) :
                 manifest.sha[j] = TensorHash(fmt, input, j)
           /\ \A p \in 0 .. Offset[manifest.plan][i] - 1 :
                 file.at[p] = Output[fmt][input][p]
           /\ i > 1 => file.len >= End(manifest.plan, i - 1)
<1> DEFINE L == PlanOf[fmt][input]
<1>1. input = source /\ fmt \in Formats /\ input \in Versions /\ L \in Plans
  BY TypeFacts DEF ContentInv, RunInv, PlaceInv, TypeOK, Writing
<1>2. manifest.stat = Stat[input] /\ manifest.fmt = fmt
  BY <1>1 DEF Accept, Identity
<1>3. /\ manifest.plan = L
      /\ manifest.header = HeaderHash(fmt, input)
      /\ \A j \in Committed(manifest) : manifest.sha[j] = TensorHash(fmt, input, j)
  BY <1>1, <1>2 DEF ContentInv, Truthful
<1>4. Count(L) \in Nat \ {0} /\ i \in Nat /\ i >= 1 /\ i <= Count(L) + 1
        /\ HeaderEnd(L) \in Nat /\ HeaderLen[L] \in Nat \ {0}
        /\ HeaderLen[L] <= HeaderEnd(L)
        /\ Offset[L][i] \in Nat /\ Offset[L][i] <= Capacity /\ Capacity \in Nat
  <2>1. i \in 1 .. Count(L) + 1
    BY <1>3
  <2>2. /\ Count(L) \in Nat \ {0} /\ HeaderEnd(L) \in Nat
        /\ HeaderLen[L] \in Nat \ {0} /\ HeaderLen[L] <= HeaderEnd(L)
        /\ Offset[L][i] \in Nat /\ Offset[L][i] <= Capacity /\ Capacity \in Nat
    BY <1>1, <2>1, LayoutTypes, HeaderFirst, OffsetsInCapacity, EngineAssumption
  <2>3. QED
    BY <2>1, <2>2
<1>5. ASSUME NEW p \in 0 .. HeaderEnd(L) - 1
      PROVE  file.at[p] = Output[fmt][input][p]
  <2>1. Region(file.at, 0, HeaderEnd(L)) = Region(Output[fmt][input], 0, HeaderEnd(L))
    BY <1>3 DEF Accept, HeaderMatches, HeaderHash
  <2>2. p \in 0 .. 0 + HeaderEnd(L) - 1
    BY <1>4
  <2>3. /\ Region(file.at, 0, HeaderEnd(L))[p] = file.at[p]
        /\ Region(Output[fmt][input], 0, HeaderEnd(L))[p] = Output[fmt][input][p]
    BY <2>2 DEF Region
  <2>4. QED
    BY <2>1, <2>3
<1>6. ASSUME NEW j \in 1 .. i - 1
      PROVE  /\ j \in Tensors(L) /\ j \in Committed(manifest)
             /\ End(L, j) <= file.len
             /\ \A p \in Span(L, j) : file.at[p] = Output[fmt][input][p]
  <2>1. j \in Tensors(L)
    BY <1>4 DEF Tensors
  <2>2. Verified(manifest, j)
    BY DEF Accept, ScanStopsAt
  <2>3. /\ j \in Committed(manifest)
        /\ End(L, j) <= file.len
        /\ Region(file.at, Offset[L][j], Nbytes[L][j])
             = Region(Output[fmt][input], Offset[L][j], Nbytes[L][j])
    BY <1>3, <2>2
       DEF Verified, TensorMatches, TensorReadable, Readable, TensorHash, End
  <2>4. ASSUME NEW p \in Span(L, j)
        PROVE  file.at[p] = Output[fmt][input][p]
    <3>1. /\ Region(file.at, Offset[L][j], Nbytes[L][j])[p] = file.at[p]
          /\ Region(Output[fmt][input], Offset[L][j], Nbytes[L][j])[p]
               = Output[fmt][input][p]
      <4>1. p \in Offset[L][j] .. Offset[L][j] + Nbytes[L][j] - 1
        <5>1. Offset[L][j] \in Nat /\ Nbytes[L][j] \in Nat
          BY <1>1, <1>4, <2>1, LayoutTypes DEF Tensors
        <5>2. QED
          BY <5>1 DEF Span, End
      <4>2. QED
        BY <4>1 DEF Region
    <3>2. QED
      BY <2>3, <3>1
  <2>5. QED
    BY <2>1, <2>3, <2>4
<1>7. ASSUME NEW p \in 0 .. Offset[L][i] - 1
      PROVE  file.at[p] = Output[fmt][input][p]
  <2>1. p \in Positions /\ p \in Nat /\ p < Offset[L][i]
    BY <1>4 DEF Positions
  <2>2. CASE p < HeaderEnd(L)
    BY <1>4, <1>5, <2>1, <2>2
  <2>3. ASSUME NEW j \in Tensors(L), p \in Span(L, j)
        PROVE  file.at[p] = Output[fmt][input][p]
    <3>1. j \in Nat /\ j >= 1 /\ j <= Count(L) /\ Offset[L][j] \in Nat
            /\ End(L, j) \in Nat /\ Offset[L][j] <= p
      BY <1>1, <1>4, <2>3, LayoutTypes DEF Tensors, Span
    <3>2. j < i
      <4>1. SUFFICES ASSUME j >= i PROVE FALSE
        BY <1>4, <3>1
      <4>2. CASE j = i
        BY <4>2, <2>1, <3>1, <1>4
      <4>3. CASE j # i
        <5>1. i \in Tensors(L) /\ j \in i + 1 .. Count(L) + 1
          BY <1>4, <3>1, <4>1, <4>3 DEF Tensors
        <5>2. End(L, i) <= Offset[L][j] /\ Offset[L][i] < End(L, i)
                /\ End(L, i) \in Nat
          BY <1>1, <5>1, TensorsInOrder, LayoutTypes
        <5>3. QED
          BY <5>2, <2>1, <3>1, <1>4
      <4>4. QED
        BY <4>2, <4>3
    <3>3. j \in 1 .. i - 1
      BY <3>1, <3>2, <1>4
    <3>4. QED
      BY <1>6, <2>3, <3>3
  <2>4. CASE ~(p < HeaderEnd(L)) /\ \A j \in Tensors(L) : p \notin Span(L, j)
    <3>1. HeaderLen[L] <= p
      BY <1>4, <2>1, <2>4
    <3>2. Output[fmt][input][p] = Zero
      BY <1>1, <2>1, <2>4, <3>1, OutputGap
    <3>3. 0 \in 0 .. HeaderEnd(L) - 1
      BY <1>4
    <3>4. file.at[0] = HeaderCell(fmt, input, 0)
      BY <1>5, <3>3, OwnHeader
    <3>5. file.at[p] = Zero
      BY <1>1, <2>1, <3>2, <3>4 DEF ContentInv, FileOK
    <3>6. QED
      BY <3>2, <3>5
  <2>5. QED
    BY <2>2, <2>3, <2>4
<1>8. i > 1 => file.len >= End(L, i - 1)
  <2>1. SUFFICES ASSUME i > 1 PROVE file.len >= End(L, i - 1)
    OBVIOUS
  <2>2. i - 1 \in 1 .. i - 1
    BY <1>4, <2>1
  <2>3. End(L, i - 1) <= file.len /\ i - 1 \in Tensors(L)
    BY <1>6, <2>2
  <2>4. End(L, i - 1) \in Nat /\ file.len \in Nat
    BY <1>1, <2>3, LayoutTypes, EngineAssumption DEF PlaceInv, TypeOK, Files
  <2>5. QED
    BY <2>3, <2>4
<1>9. QED
  BY <1>2, <1>3, <1>7, <1>8

LEMMA ContentPrepareResume ==
    ASSUME PlaceInv, ContentInv, PrepareResume
    PROVE  ContentInv'
<1>1. CASE AlreadyComplete \/ Refuse \/ Unreadable
  <2>1. Exit /\ UNCHANGED storage
          /\ code' \in {"already", "refused", "unreadable"}
    BY <1>1 DEF AlreadyComplete, Refuse, Unreadable
  <2>2. QED
    BY <2>1, ExitContent DEF storage, ContentInv
<1>2. ASSUME NEW i \in 1 .. Count(manifest.plan) + 1, Accept(i)
      PROVE  ContentInv'
  <2> DEFINE L == PlanOf[fmt][input]
  <2>1. /\ pc = "verify" /\ manifest # NoManifest /\ resuming /\ pend = <<>>
        /\ input = source /\ code = "running"
    BY DEF PrepareResume, PlaceInv, TypeOK, InPlace, ContentInv, RunInv, Writing
  <2>2. /\ pc' = "tensor" /\ tensor' = i /\ fpos' = Offset[manifest.plan][i]
        /\ mem' = Without(manifest, i)
        /\ UNCHANGED <<fmt, input, resuming, pend, file, manifest, durable,
                       source, code>>
    BY <1>2 DEF Accept, storage
  <2>3. /\ manifest.stat = Stat[input] /\ manifest.fmt = fmt
        /\ manifest.plan = L /\ manifest.header = HeaderHash(fmt, input)
        /\ \A j \in Committed(manifest) :
              manifest.sha[j] = TensorHash(fmt, input, j)
        /\ \A p \in 0 .. Offset[manifest.plan][i] - 1 :
              file.at[p] = Output[fmt][input][p]
        /\ i > 1 => file.len >= End(manifest.plan, i - 1)
    BY <1>2, <2>1, ResumePoint
  <2>4. /\ mem'.stat = manifest.stat /\ mem'.fmt = manifest.fmt
        /\ mem'.plan = manifest.plan /\ mem'.header = manifest.header
        /\ Committed(mem') \subseteq Committed(manifest)
        /\ \A j \in Committed(mem') : mem'.sha[j] = manifest.sha[j]
    <3>1. IsManifest(manifest)
      BY <2>1 DEF PlaceInv, TypeOK
    <3>2. QED
      BY <2>2, <3>1 DEF IsManifest, Without, Committed
  <2>5. MemInv'
    BY <2>2, <2>3, <2>4 DEF MemInv
  <2>6. RunInv'
    <3>1. Offset[L][i] > 0 /\ Offset[L][i] \in Nat
      <4>1. L \in Plans /\ i \in 1 .. Count(L) + 1
        BY <2>3, TypeFacts DEF PlaceInv
      <4>2. /\ HeaderLen[L] \in Nat \ {0} /\ HeaderEnd(L) \in Nat
            /\ HeaderLen[L] <= HeaderEnd(L) /\ HeaderEnd(L) <= Offset[L][i]
            /\ Offset[L][i] \in Nat
        BY <4>1, LayoutTypes, HeaderFirst
      <4>3. QED
        BY <4>2
    <3>2. \A k \in 1 .. Len(pend') : FALSE
      BY <2>1, <2>2
    <3>3. QED
      BY <2>1, <2>2, <2>3, <2>4, <3>1, <3>2 DEF RunInv, Writing
  <2>7. SuccessMeansIdentical'
    BY <2>1, <2>2 DEF SuccessMeansIdentical
  <2>8. QED
    BY <2>2, <2>5, <2>6, <2>7 DEF ContentInv
<1>3. QED
  BY <1>1, <1>2 DEF PrepareResume

LEMMA ContentBeginData ==
    ASSUME PlaceInv, ContentInv, BeginData
    PROVE  ContentInv'
<1> DEFINE n == HeaderLen[PlanOf[fmt][input]]
           cells == [k \in 1 .. n |-> HeaderCell(fmt, input, k - 1)]
<1>1. /\ pc' = "header" /\ file' = EmptyFile
      /\ UNCHANGED <<fmt, input, mem, fpos, manifest, durable, source, code>>
      /\ input = source /\ code = "running" /\ fpos = 0
      /\ pend = <<>> /\ pend' = <<>> \o cells /\ n \in Nat
  BY TypeFacts, PlanInCapacity
     DEF BeginData, Write, PlaceInv, InPlace, ContentInv, RunInv, Writing
<1>2. pend' = cells /\ Len(pend') = n
  <2> DEFINE T == {HeaderCell(fmt, input, k - 1) : k \in 1 .. n}
  <2>1. cells \in Seq(T)
    <3>1. \A k \in 1 .. n : HeaderCell(fmt, input, k - 1) \in T
      BY Zenon
    <3> HIDE DEF n, T
    <3>2. QED
      BY <1>1, <3>1
  <2>2. Len(cells) = n
    <3> HIDE DEF n
    <3> QED BY <1>1
  <2> HIDE DEF cells
  <2>3. QED
    BY <1>1, <2>1, <2>2, ConcatEmptySeq
<1>3. ASSUME NEW k \in 1 .. Len(pend')
      PROVE  pend'[k] = Output[fmt'][input'][fpos' + k - 1]
  <2>1. k \in 1 .. n /\ k - 1 \in 0 .. n - 1 /\ fpos' + k - 1 = k - 1
    BY <1>1, <1>2
  <2>2. Output[fmt][input][k - 1] = HeaderCell(fmt, input, k - 1)
    BY <2>1, OutputHeader DEF PlaceInv, TypeOK
  <2>3. pend'[k] = HeaderCell(fmt, input, k - 1)
    BY <1>2, <2>1
  <2>4. QED
    BY <1>1, <2>1, <2>2, <2>3
<1>4. MemInv' /\ RunInv' /\ SuccessMeansIdentical'
  BY <1>1, <1>3 DEF MemInv, RunInv, Writing, SuccessMeansIdentical
<1>5. QED
  BY <1>1, <1>4, EmptyFileOK DEF ContentInv

\* A step that flushes leaves a file that is right up to the position.
LEMMA FlushedRun ==
    ASSUME PlaceInv, ContentInv, Flush, pc \in Writing \cup {"header"}
    PROVE  /\ FileOK(file')
           /\ \A p \in 0 .. fpos' - 1 :
                 p \in Positions /\ file'.at[p] = Output[fmt][input][p]
           /\ file.len <= file'.len
           /\ Len(pend) # 0 => fpos' <= file'.len
           /\ fpos' = tell /\ pend' = <<>>
           /\ code = "running"
           /\ \A k \in 1 .. Len(pend') : FALSE
<1>1. /\ FileOK(FlushAll)
      /\ \A p \in 0 .. tell - 1 :
            p \in Positions /\ FlushAll.at[p] = Output[fmt][input][p]
      /\ file.len <= FlushAll.len
      /\ Len(pend) # 0 => tell <= FlushAll.len
  BY FlushContent DEF ContentInv
<1>2. file' = FlushAll /\ fpos' = tell /\ pend' = <<>>
  BY DEF Flush
<1>3. \A k \in 1 .. Len(pend') : FALSE
  BY <1>2
<1>4. code = "running"
  BY DEF ContentInv, RunInv, Writing
<1>5. QED
  BY <1>1, <1>2, <1>3, <1>4

LEMMA ContentWriteHeader ==
    ASSUME PlaceInv, ContentInv, WriteHeader
    PROVE  ContentInv'
<1>1. /\ pc = "header" /\ pc' = "tensor" /\ ~resuming /\ tensor = 1
      /\ mem' = NewManifest /\ Flush
      /\ UNCHANGED <<fmt, input, resuming, tensor, manifest, durable, source, code>>
      /\ input = source
  BY DEF WriteHeader, PlaceInv, InPlace, ContentInv, RunInv, Writing
<1>2. /\ FileOK(file')
      /\ \A p \in 0 .. fpos' - 1 :
            p \in Positions /\ file'.at[p] = Output[fmt][input][p]
      /\ fpos' = tell /\ code = "running"
      /\ \A k \in 1 .. Len(pend') : FALSE
  BY <1>1, FlushedRun
<1>3. fpos' > 0
  <2>1. HeaderLen[PlanOf[fmt][input]] \in Nat \ {0}
    BY TypeFacts, PlanInCapacity DEF PlaceInv
  <2>2. fpos = 0 /\ Len(pend) = HeaderLen[PlanOf[fmt][input]]
    BY <1>1 DEF PlaceInv, InPlace, Writing
  <2>3. QED
    BY <1>2, <2>1, <2>2 DEF tell
<1>4. MemInv'
  <2>1. /\ mem'.stat = Stat[source] /\ mem'.fmt = fmt
        /\ mem'.plan = PlanOf[fmt][input] /\ Committed(mem') = {}
    BY <1>1 DEF NewManifest, Committed
  <2>2. HeaderPending'
    BY <1>1 DEF HeaderPending
  <2>3. QED
    BY <1>1, <1>2, <2>1, <2>2 DEF MemInv
<1>5. RunInv' /\ SuccessMeansIdentical'
  BY <1>1, <1>2, <1>3 DEF RunInv, Writing, SuccessMeansIdentical
<1>6. QED
  BY <1>1, <1>2, <1>4, <1>5 DEF ContentInv

LEMMA ContentBeginTensor ==
    ASSUME PlaceInv, ContentInv, BeginTensor
    PROVE  ContentInv'
<1> DEFINE L == PlanOf[fmt][input]
           n == Pad(tell)
           cells == [k \in 1 .. n |-> Zero]
<1>1. /\ pc = "tensor" /\ tensor \in Tensors(L) /\ pend = <<>> /\ mem.plan = L
      /\ L \in Plans /\ tell \in Nat /\ fpos \in Nat /\ fpos > 0
      /\ Reached <= tell /\ tell + n = Offset[L][tensor]
      /\ code = "running"
      /\ fmt \in Formats /\ input \in Versions
  BY TypeFacts DEF BeginTensor, PlaceInv, TypeOK, InPlace, ContentInv, MemInv,
                   RunInv, Writing
<1>2. n \in Nat /\ tell = fpos
  <2>1. Len(pend) = 0
    BY <1>1
  <2>2. tell = fpos
    BY <1>1, <2>1 DEF tell
  <2>3. QED
    BY <1>1, <2>2, PadReachesAlign, AlignAssumption
<1>3. /\ pc' = IF ~resuming /\ tensor = 1 THEN "initial" ELSE "check"
      /\ pend' = <<>> \o cells
      /\ UNCHANGED <<fmt, input, resuming, mem, tensor, row, fpos, storage, code>>
  BY <1>1 DEF BeginTensor, Write
<1>4. pend' = cells /\ Len(cells) = n
  <2>1. cells \in Seq(Cells) /\ Len(cells) = n
    <3> HIDE DEF n
    <3> QED BY <1>2, CellTypes
  <2> HIDE DEF cells, n
  <2>2. QED
    BY <1>3, <2>1, ConcatEmptySeq
<1>5. ASSUME NEW k \in 1 .. Len(pend')
      PROVE  pend'[k] = Output[fmt'][input'][fpos' + k - 1]
  <2> DEFINE p == fpos + k - 1
  <2>1. k \in 1 .. n
    BY <1>4
  <2>2. pend'[k] = Zero
    BY <1>4, <2>1
  <2> HIDE DEF n, cells
  <2>3. p \in Nat /\ fpos <= p /\ p < Offset[L][tensor]
    BY <1>1, <1>2, <2>1
  <2> HIDE DEF p
  <2>4. IF tensor = 1 THEN HeaderLen[L] <= p ELSE End(L, tensor - 1) <= p
    <3>1. Reached <= fpos /\ Reached \in Nat
      <4>1. CASE tensor = 1
        BY <1>1, <1>2, <4>1, LayoutTypes DEF Reached
      <4>2. CASE tensor # 1
        <5>1. tensor - 1 \in Tensors(L)
          BY <1>1, <4>2, LayoutTypes DEF Tensors
        <5>2. QED
          BY <1>1, <1>2, <4>2, <5>1, LayoutTypes DEF Reached
      <4>3. QED
        BY <4>1, <4>2
    <3>2. Reached <= p
      BY <1>1, <2>3, <3>1
    <3>3. QED
      BY <1>1, <3>2 DEF Reached
  <2>5. Output[fmt][input][p] = Zero
    BY <1>1, <2>3, <2>4, OutputPadding
  <2>6. QED
    BY <1>3, <2>2, <2>5 DEF p
<1>6. MemInv'
  <2>1. HeaderPending => HeaderPending'
    BY <1>3 DEF HeaderPending
  <2>2. QED
    BY <1>1, <1>3, <2>1 DEF ContentInv, MemInv, Writing
<1>7. RunInv'
  BY <1>1, <1>3, <1>5 DEF ContentInv, RunInv, Writing, storage
<1>8. SuccessMeansIdentical'
  BY <1>1, <1>3 DEF SuccessMeansIdentical
<1>9. QED
  BY <1>3, <1>6, <1>7, <1>8 DEF ContentInv, storage

LEMMA ContentHashHeader ==
    ASSUME PlaceInv, ContentInv, HashHeader
    PROVE  ContentInv'
<1> DEFINE L == PlanOf[fmt][input]
<1>1. /\ pc = "initial" /\ pc' = "save initial" /\ tensor = 1 /\ Flush
      /\ tell = Offset[L][1] /\ mem.plan = L /\ L \in Plans /\ IsManifest(mem)
      /\ mem.stat = Stat[input] /\ mem.fmt = fmt
      /\ \A i \in Committed(mem) : mem.sha[i] = TensorHash(fmt, input, i)
      /\ mem' = [mem EXCEPT !.header = Region(FlushAll.at, 0, HeaderEnd(L))]
      /\ UNCHANGED <<fmt, input, resuming, tensor, manifest, durable, source, code>>
  BY TypeFacts DEF HashHeader, PlaceInv, InPlace, ContentInv, MemInv, Writing
<1>2. /\ FileOK(file')
      /\ \A p \in 0 .. fpos' - 1 :
            p \in Positions /\ file'.at[p] = Output[fmt][input][p]
      /\ fpos' = tell /\ code = "running"
      /\ \A k \in 1 .. Len(pend') : FALSE
  BY <1>1, FlushedRun DEF Writing
<1>3. HeaderEnd(L) \in Nat \ {0} /\ fpos' = HeaderEnd(L) /\ file' = FlushAll
  <2>1. /\ HeaderLen[L] \in Nat \ {0} /\ HeaderEnd(L) \in Nat
        /\ HeaderLen[L] <= HeaderEnd(L) /\ Offset[L][1] = HeaderEnd(L)
    BY <1>1, LayoutTypes, PadReachesAlign, OffsetAssumption DEF HeaderEnd
  <2>2. HeaderEnd(L) # 0
    BY <2>1
  <2>3. QED
    BY <1>1, <1>2, <2>1, <2>2 DEF Flush
<1>4. Region(FlushAll.at, 0, HeaderEnd(L)) = HeaderHash(fmt, input)
  <2>1. \A p \in 0 .. 0 + HeaderEnd(L) - 1 :
           FlushAll.at[p] = Output[fmt][input][p]
    BY <1>2, <1>3
  <2>2. QED
    BY <2>1 DEF Region, HeaderHash
<1>5. MemInv'
  <2>1. /\ mem'.stat = mem.stat /\ mem'.fmt = mem.fmt /\ mem'.plan = mem.plan
        /\ mem'.sha = mem.sha /\ mem'.header = HeaderHash(fmt, input)
    BY <1>1, <1>4 DEF IsManifest
  <2>2. QED
    BY <1>1, <2>1 DEF MemInv, Committed
<1>6. fpos' > 0
  BY <1>3
<1>7. RunInv' /\ SuccessMeansIdentical'
  BY <1>1, <1>2, <1>6 DEF RunInv, Writing, SuccessMeansIdentical
<1>8. QED
  BY <1>1, <1>2, <1>5, <1>7 DEF ContentInv
LEMMA ContentSaveInitial ==
    ASSUME StatIdentifies, PlaceInv, ContentInv, SaveInitial
    PROVE  ContentInv'
<1>1. /\ pc = "save initial" /\ pc' = "check" /\ manifest' = mem
      /\ UNCHANGED <<fmt, input, resuming, mem, tensor, fpos, pend, file, durable,
                     source, code>>
  BY DEF SaveInitial
<1>2. Truthful(mem)
  BY <1>1, MemTruthful DEF ContentInv, HeaderPending, Writing
<1>3. MemInv' /\ RunInv' /\ SuccessMeansIdentical'
  BY <1>1 DEF ContentInv, MemInv, HeaderPending, RunInv, Writing,
              SuccessMeansIdentical
<1>4. QED
  BY <1>1, <1>2, <1>3 DEF ContentInv

LEMMA ContentCheckOffset ==
    ASSUME PlaceInv, ContentInv, CheckOffset
    PROVE  ContentInv'
<1>1. /\ pc = "check" /\ pc' = "stream"
      /\ UNCHANGED <<fmt, input, resuming, mem, tensor, fpos, pend, file,
                     manifest, durable, source, code>>
  BY DEF CheckOffset, PlaceInv, InPlace, storage
<1>2. MemInv' /\ RunInv' /\ SuccessMeansIdentical'
  BY <1>1 DEF ContentInv, MemInv, HeaderPending, RunInv, Writing,
              SuccessMeansIdentical
<1>3. QED
  BY <1>1, <1>2 DEF ContentInv

LEMMA ContentStreamChunk ==
    ASSUME PlaceInv, ContentInv, NEW n \in 1 .. Capacity, StreamChunk(n)
    PROVE  ContentInv'
<1> DEFINE L == PlanOf[fmt][input]
           o == Offset[L][tensor]
           b == Nbytes[L][tensor]
           l == Len(pend)
           cells == [k \in 1 .. n |-> DataCell(fmt, input, tensor, row + k - 1)]
<1>1. /\ pc = "stream" /\ pc' = "stream" /\ pend' = pend \o cells
      /\ UNCHANGED <<fmt, input, resuming, mem, tensor, fpos, file,
                     manifest, durable, source, code>>
  BY DEF StreamChunk, Write, storage
<1>2. /\ tensor \in Tensors(L) /\ L \in Plans /\ mem.plan = L
      /\ fmt \in Formats /\ input \in Versions
      /\ row \in Nat /\ row + n <= Nbytes[L][tensor]
      /\ tell = Offset[L][tensor] + row
      /\ fpos \in Nat /\ pend \in Seq(Cells) /\ tell = fpos + Len(pend)
  BY <1>1, TypeFacts
     DEF StreamChunk, PlaceInv, TypeOK, InPlace, ContentInv, MemInv, Writing, tell
<1>3. /\ o \in Nat /\ b \in Nat /\ l \in Nat /\ n \in Nat /\ Capacity \in Nat
      /\ row \in Nat /\ row + n <= b /\ o + b <= Capacity /\ tensor \in Nat
      /\ fpos \in Nat /\ fpos + l = o + row
  <2>1. n \in Nat /\ Capacity \in Nat
    BY EngineAssumption
  <2>2. fpos + l = o + row /\ row \in Nat /\ row + n <= b /\ fpos \in Nat
    BY <1>2
  <2>3. o \in Nat /\ b \in Nat /\ tensor \in Nat
    BY <1>2, LayoutTypes DEF Tensors
  <2>4. l \in Nat
    BY <1>2
  <2>5. End(L, tensor) <= Size(L) /\ Size(L) <= Capacity /\ Size(L) \in Nat
    BY <1>2, PlanInCapacity
  <2>6. End(L, tensor) = o + b
    BY DEF End
  <2> HIDE DEF o, b, l
  <2>7. o + b <= Capacity
    BY <2>1, <2>3, <2>5, <2>6
  <2>8. QED
    BY <2>1, <2>2, <2>3, <2>4, <2>7
<1>4. ASSUME NEW j \in 1 .. n
      PROVE  /\ cells[j] = Output[fmt][input][o + (row + j - 1)]
             /\ DataCell(fmt, input, tensor, row + j - 1) \in Cells
  <2>1. row + j - 1 \in 0 .. b - 1 /\ row + j - 1 \in Positions
    <3> HIDE DEF o, b, l
    <3> QED BY <1>3 DEF Positions
  <2>2. Output[fmt][input][o + (row + j - 1)]
          = DataCell(fmt, input, tensor, row + j - 1)
    BY <1>2, <2>1, OutputData
  <2>3. DataCell(fmt, input, tensor, row + j - 1) \in Cells
    BY <1>2, <1>3, <2>1, CellTypes
  <2>4. QED
    BY <2>2, <2>3
<1>5. cells \in Seq(Cells) /\ Len(cells) = n
  <2>1. \A k \in 1 .. n : DataCell(fmt, input, tensor, row + k - 1) \in Cells
    BY <1>4
  <2>2. n \in Nat
    BY <1>3
  <2>3. QED
    BY <2>1, <2>2
<1> HIDE DEF cells
<1>6. /\ Len(pend') = l + n
      /\ \A k \in 1 .. l + n :
            pend'[k] = IF k <= l THEN pend[k] ELSE cells[k - l]
  <2>1. pend \in Seq(Cells) /\ pend' = pend \o cells
    BY <1>1, <1>2
  <2>2. /\ Len(pend \o cells) = Len(pend) + Len(cells)
        /\ \A k \in 1 .. Len(pend) + Len(cells) :
              (pend \o cells)[k] = IF k <= Len(pend) THEN pend[k]
                                   ELSE cells[k - Len(pend)]
    BY <1>5, <2>1, ConcatProperties
  <2>3. QED
    BY <1>5, <2>1, <2>2
<1> HIDE DEF o, b, l
<1>7. ASSUME NEW k \in 1 .. Len(pend')
      PROVE  pend'[k] = Output[fmt'][input'][fpos' + k - 1]
  <2>1. k \in 1 .. l + n /\ k \in Nat
    BY <1>3, <1>6
  <2>2. CASE k <= l
    <3>1. k \in 1 .. l
      BY <1>3, <2>1, <2>2
    <3>2. pend[k] = Output[fmt][input][fpos + k - 1]
      BY <1>1, <3>1 DEF ContentInv, RunInv, Writing, l
    <3>3. QED
      BY <1>1, <1>6, <2>1, <2>2, <3>2
  <2>3. CASE ~(k <= l)
    <3>1. k - l \in 1 .. n /\ o + (row + (k - l) - 1) = fpos + k - 1
      BY <1>3, <2>1, <2>3
    <3>2. cells[k - l] = Output[fmt][input][fpos + k - 1]
      BY <1>4, <3>1
    <3>3. QED
      BY <1>1, <1>6, <2>1, <2>3, <3>2
  <2>4. QED
    BY <2>2, <2>3
<1>8. MemInv'
  BY <1>1 DEF ContentInv, MemInv, HeaderPending, Writing
<1>9. RunInv' /\ SuccessMeansIdentical'
  BY <1>1, <1>7 DEF ContentInv, RunInv, Writing, SuccessMeansIdentical
<1>10. QED
  BY <1>1, <1>8, <1>9 DEF ContentInv

LEMMA ContentHashTensor ==
    ASSUME PlaceInv, ContentInv, HashTensor
    PROVE  ContentInv'
<1> DEFINE L == PlanOf[fmt][input]
           hash == Region(FlushAll.at, Offset[L][tensor], Nbytes[L][tensor])
<1>1. /\ pc = "stream" /\ pc' = "save commit" /\ Flush
      /\ tensor \in Tensors(L) /\ mem.plan = L /\ L \in Plans /\ IsManifest(mem)
      /\ mem.stat = Stat[input] /\ mem.fmt = fmt
      /\ mem.header = HeaderHash(fmt, input)
      /\ \A i \in Committed(mem) : mem.sha[i] = TensorHash(fmt, input, i)
      /\ row = Nbytes[L][tensor] /\ tell = Offset[L][tensor] + row
      /\ fpos <= Offset[L][tensor] /\ fpos \in Nat
      /\ mem' = WithHash(mem, tensor, hash)
      /\ UNCHANGED <<fmt, input, resuming, tensor, manifest, durable, source, code>>
  BY TypeFacts DEF HashTensor, PlaceInv, TypeOK, InPlace, ContentInv, MemInv,
                   HeaderPending, Writing
<1> HIDE DEF hash
<1>2. /\ FileOK(file')
      /\ \A p \in 0 .. fpos' - 1 :
            p \in Positions /\ file'.at[p] = Output[fmt][input][p]
      /\ Len(pend) # 0 => fpos' <= file'.len
      /\ fpos' = tell /\ code = "running"
      /\ \A k \in 1 .. Len(pend') : FALSE
  BY <1>1, FlushedRun DEF Writing
<1>3. /\ Offset[L][tensor] \in Nat /\ Nbytes[L][tensor] \in Nat \ {0}
      /\ fpos' = Offset[L][tensor] + Nbytes[L][tensor]
      /\ End(L, tensor) = fpos' /\ fpos' > 0 /\ file' = FlushAll
  <2>1. Offset[L][tensor] \in Nat /\ Nbytes[L][tensor] \in Nat \ {0}
    <3>1. L \in Plans /\ tensor \in Tensors(L)
      BY <1>1
    <3> HIDE DEF L
    <3>2. tensor \in 1 .. Count(L) + 1
      BY <3>1, LayoutTypes DEF Tensors
    <3>3. QED
      BY <3>1, <3>2, LayoutTypes
  <2>2. fpos' = Offset[L][tensor] + Nbytes[L][tensor]
    BY <1>1, <1>2
  <2>3. file' = FlushAll
    BY <1>1 DEF Flush
  <2>4. End(L, tensor) = Offset[L][tensor] + Nbytes[L][tensor]
    BY DEF End
  <2> HIDE DEF L
  <2>5. QED
    BY <2>1, <2>2, <2>3, <2>4
<1>4. hash = TensorHash(fmt, input, tensor)
  <2>1. \A p \in Offset[L][tensor] .. Offset[L][tensor] + Nbytes[L][tensor] - 1 :
           FlushAll.at[p] = Output[fmt][input][p]
    BY <1>2, <1>3
  <2>2. QED
    BY <2>1 DEF hash, Region, TensorHash
<1>5. MemInv'
  <2>1. tensor \in Tensors(mem.plan) /\ IsManifest(mem)
          /\ mem' = WithHash(mem, tensor, hash)
    BY <1>1
  <2>2. LET n == WithHash(mem, tensor, hash)
        IN  /\ IsManifest(n)
            /\ n.plan = mem.plan /\ n.stat = mem.stat /\ n.fmt = mem.fmt
            /\ n.header = mem.header /\ n.status = mem.status
            /\ Committed(n) = Committed(mem) \cup {tensor}
            /\ n.sha[tensor] = hash
            /\ \A j \in Committed(mem) \ {tensor} : n.sha[j] = mem.sha[j]
    BY <2>1, CommitType
  <2>3. QED
    BY <1>1, <1>4, <2>1, <2>2 DEF MemInv
<1>6. file'.len >= End(L, tensor)
  <2>1. Len(pend) # 0
    <3>1. /\ fpos <= Offset[L][tensor] /\ fpos' = fpos + Len(pend) /\ fpos \in Nat
      BY <1>1, <1>2 DEF tell
    <3> HIDE DEF L
    <3>2. QED
      BY <1>3, <3>1
  <2>2. file'.len \in Nat /\ fpos' \in Nat
    <3>1. FlushAll.len \in 0 .. Capacity /\ Capacity \in Nat
      BY FlushAllType, EngineAssumption DEF PlaceInv, Files
    <3>2. file'.len \in Nat
      BY <1>3, <3>1
    <3>3. fpos' \in Nat
      BY <1>2, TypeFacts DEF PlaceInv
    <3>4. QED
      BY <3>2, <3>3
  <2>3. QED
    BY <1>2, <1>3, <2>1, <2>2
<1>7. mem'.plan = L
  BY <1>1, <1>5 DEF MemInv, Writing
<1>8. RunInv' /\ SuccessMeansIdentical'
  BY <1>1, <1>2, <1>3, <1>6, <1>7 DEF RunInv, Writing, SuccessMeansIdentical
<1>9. QED
  BY <1>1, <1>2, <1>5, <1>8 DEF ContentInv

LEMMA ContentSaveCommit ==
    ASSUME StatIdentifies, PlaceInv, ContentInv, SaveCommit
    PROVE  ContentInv'
<1>1. /\ pc = "save commit" /\ pc' = "tensor" /\ manifest' = mem
      /\ tensor' = tensor + 1 /\ tensor \in Tensors(mem.plan)
      /\ UNCHANGED <<fmt, input, resuming, mem, fpos, pend, file, durable,
                     source, code>>
  BY DEF SaveCommit, PlaceInv, InPlace, Writing
<1>2. Truthful(mem)
  BY <1>1, MemTruthful DEF ContentInv, HeaderPending, Writing
<1>3. tensor' # 1 /\ tensor' - 1 = tensor
  <2>1. mem.plan \in Plans /\ tensor \in 1 .. Count(mem.plan)
    BY <1>1, TypeFacts DEF PlaceInv, Tensors, Writing
  <2>2. tensor \in Nat /\ tensor # 0
    BY <2>1, LayoutTypes
  <2>3. tensor' = tensor + 1
    BY <1>1
  <2>4. QED
    BY <2>2, <2>3
<1>4. MemInv'
  BY <1>1 DEF ContentInv, MemInv, HeaderPending, Writing
<1>5. RunInv' /\ SuccessMeansIdentical'
  BY <1>1, <1>3 DEF ContentInv, RunInv, Writing, SuccessMeansIdentical
<1>6. QED
  BY <1>1, <1>2, <1>4, <1>5 DEF ContentInv

LEMMA ContentSaveComplete ==
    ASSUME StatIdentifies, PlaceInv, ContentInv, SaveComplete
    PROVE  ContentInv'
<1>1. /\ pc = "tensor" /\ pc' = "close" /\ tensor \notin Tensors(mem.plan)
      /\ mem' = [mem EXCEPT !.status = "complete"] /\ manifest' = mem'
      /\ UNCHANGED <<fmt, input, resuming, tensor, fpos, pend, file, durable,
                     source, code>>
      /\ IsManifest(mem) /\ mem.plan \in Plans
  BY TypeFacts DEF SaveComplete, PlaceInv, Writing
<1>2. tensor # 1
  BY <1>1, LayoutTypes DEF Tensors
<1>3. Truthful(mem)
  BY <1>1, <1>2, MemTruthful DEF ContentInv, HeaderPending, Writing
<1>4. /\ mem'.stat = mem.stat /\ mem'.fmt = mem.fmt /\ mem'.plan = mem.plan
      /\ mem'.header = mem.header /\ mem'.sha = mem.sha
  BY <1>1 DEF IsManifest
<1>5. Truthful(mem')
  BY <1>3, <1>4 DEF Truthful, Committed
<1>6. MemInv'
  BY <1>1, <1>2, <1>4 DEF ContentInv, MemInv, HeaderPending, Committed, Writing
<1>7. RunInv' /\ SuccessMeansIdentical'
  BY <1>1, <1>4 DEF ContentInv, RunInv, Writing, SuccessMeansIdentical
<1>8. QED
  BY <1>1, <1>5, <1>6, <1>7 DEF ContentInv

\* The last byte is in its place, and there is nothing behind it.
LEMMA WholeAtClose ==
    ASSUME PlaceInv, ContentInv, pc = "close"
    PROVE  IsOutput(file, fmt, input) /\ pend = <<>> /\ mem.plan = PlanOf[fmt][input]
<1> DEFINE L == PlanOf[fmt][input]
<1>1. /\ pend = <<>> /\ mem.plan = L /\ L \in Plans
      /\ tensor \notin Tensors(L) /\ tensor \in 1 .. Count(L) + 1
      /\ fmt \in Formats /\ input \in Versions /\ fpos \in Nat /\ file.len \in Nat
      /\ Reached <= tell
  <2>1. /\ pend = <<>> /\ mem.plan = L /\ L \in Plans
        /\ tensor \notin Tensors(mem.plan) /\ tensor \in 1 .. Count(mem.plan) + 1
        /\ fmt \in Formats /\ input \in Versions /\ fpos \in Nat
        /\ Reached <= tell
    BY TypeFacts DEF PlaceInv, TypeOK, InPlace, ContentInv, MemInv, Writing
  <2>2. file.len \in Nat
    BY EngineAssumption DEF PlaceInv, TypeOK, Files
  <2>3. QED
    BY <2>1, <2>2
<1>2. tell = fpos
  BY <1>1 DEF tell
<1>3. tensor > 1 /\ tensor - 1 = Count(L) /\ Count(L) \in Tensors(L)
        /\ Size(L) \in Nat
  <2>1. Count(L) \in Nat \ {0} /\ Size(L) \in Nat
    BY <1>1, LayoutTypes, PlanInCapacity
  <2>2. QED
    BY <1>1, <2>1 DEF Tensors
<1>4. file.len >= Size(L) /\ Size(L) <= fpos
  <2>1. file.len >= End(mem.plan, tensor - 1)
    BY <1>1, <1>3 DEF ContentInv, RunInv
  <2>2. Reached = End(mem.plan, tensor - 1)
    BY <1>3 DEF Reached
  <2>3. QED
    BY <1>1, <1>2, <1>3, <2>1, <2>2 DEF Size
<1>5. \A p \in 0 .. fpos - 1 : file.at[p] = Output[fmt][input][p]
  BY <1>1 DEF ContentInv, RunInv, Writing
<1>6. file.len <= Size(L)
  <2>1. 0 \in 0 .. fpos - 1
    <3>1. fpos > 0
      BY <1>1 DEF ContentInv, RunInv, Writing
    <3>2. QED
      BY <1>1, <3>1
  <2>2. file.at[0] = HeaderCell(fmt, input, 0)
    BY <1>5, <2>1, OwnHeader
  <2>3. QED
    BY <1>1, <2>2 DEF ContentInv, FileOK
<1>7. file.len = Size(L) /\ \A p \in 0 .. file.len - 1 : p \in 0 .. fpos - 1
  BY <1>1, <1>3, <1>4, <1>6
<1>8. QED
  BY <1>1, <1>5, <1>7 DEF IsOutput

LEMMA ContentClose ==
    ASSUME PlaceInv, ContentInv, Close
    PROVE  ContentInv'
<1>1. IsOutput(file, fmt, input) /\ pend = <<>>
  BY WholeAtClose DEF Close
<1>2. file' = file /\ Exit /\ UNCHANGED <<fmt, input, manifest, durable, source>>
  <2>1. Len(pend) = 0
    BY <1>1
  <2>2. QED
    BY <2>1 DEF Close, FlushAll, Flushed, Exit
<1>3. IsOutput(file', fmt', input')
  BY <1>1, <1>2 DEF IsOutput
<1>4. QED
  BY <1>2, <1>3, ExitContent DEF ContentInv

LEMMA ContentNext ==
    ASSUME StatIdentifies, IInv, [Next]_vars
    PROVE  ContentInv'
<1>1. PlaceInv /\ ContentInv
  BY DEF IInv
<1>2. CASE UNCHANGED vars
  BY <1>1, <1>2 DEF vars, process, storage, ContentInv, MemInv, HeaderPending,
                    RunInv, SuccessMeansIdentical
<1>3. CASE Step
  BY <1>1, <1>3, ContentPrepareResume, ContentBeginData, ContentWriteHeader,
     ContentBeginTensor, ContentHashHeader, ContentSaveInitial,
     ContentCheckOffset, ContentStreamChunk, ContentHashTensor,
     ContentSaveCommit, ContentSaveComplete, ContentClose DEF Step
<1>4. QED
  BY <1>1, <1>2, <1>3, ContentStart, ContentFault DEF Next
-----------------------------------------------------------------------------
(* The theorems.                                                           *)

\* Whatever the plan and the faults, when stat identifies the source: the
\* writer is where the plan says, and all it has put behind it, in the file, in
\* its buffer and in either manifest, is what an uninterrupted run writes.
THEOREM InvariantHolds == StatIdentifies /\ Spec => []IInv
<1>1. Init => IInv
  BY PlaceInit, ContentInit DEF IInv
<1>2. StatIdentifies /\ IInv /\ [Next]_vars => IInv'
  <2>1. SUFFICES ASSUME StatIdentifies, IInv, [Next]_vars PROVE IInv'
    OBVIOUS
  <2>2. PlaceInv'
    BY <2>1, PlaceNext DEF IInv
  <2>3. ContentInv'
    BY <2>1, ContentNext
  <2>4. QED
    BY <2>2, <2>3 DEF IInv
<1>3. StatIdentifies => []StatIdentifies
  OBVIOUS
<1>4. QED
  BY <1>1, <1>2, <1>3, PTL DEF Spec

\* When the source is identified by its stat, every run that reports success
\* has made the file an uninterrupted run would have made, for every plan,
\* format and version and after any history of crashes, power losses, bad
\* bytes, edits of the source between runs and reruns.
THEOREM SuccessIsIdentical == StatIdentifies /\ Spec => []SuccessMeansIdentical
<1>1. IInv => SuccessMeansIdentical
  BY DEF IInv, ContentInv
<1>2. QED
  BY <1>1, InvariantHolds, PTL

\* Under the same conditions no manifest that is ever found on the disk
\* vouches for bytes an uninterrupted run would not write.
THEOREM ManifestIsTruthful == StatIdentifies /\ Spec => []ManifestTruthful
<1>1. IInv => ManifestTruthful
  BY DEF IInv, ContentInv, ManifestTruthful
<1>2. QED
  BY <1>1, InvariantHolds, PTL
-----------------------------------------------------------------------------
(* What is recorded stays recorded.                                        *)

LEMMA RecordedInit == Init => Recorded
  BY DEF Init, Recorded, Writing

\* A run that ends leaves nothing in memory to compare with.
LEMMA RecordedExit == ASSUME Exit PROVE Recorded'
  BY DEF Exit, Recorded, Writing

\* A resumed run has in memory the saved manifest without its resume point.
LEMMA RecordedResume ==
    ASSUME PlaceInv, Recorded, PrepareResume
    PROVE  Recorded'
<1>1. ASSUME NEW i \in 1 .. Count(manifest.plan) + 1, Accept(i)
      PROVE  Recorded'
  <2>1. /\ pc' = "tensor" /\ resuming' = resuming /\ tensor' = i /\ manifest' = manifest
        /\ mem' = Without(manifest, i)
    BY <1>1 DEF Accept, storage
  <2>2. resuming /\ manifest # NoManifest /\ IsManifest(manifest)
    BY TypeFacts DEF PrepareResume, PlaceInv, InPlace, TypeOK
  <2>3. /\ mem'.stat = manifest.stat /\ mem'.fmt = manifest.fmt /\ mem'.plan = manifest.plan
        /\ mem'.sha = [j \in DOMAIN manifest.sha \ {i} |-> manifest.sha[j]]
    BY <2>1, <2>2 DEF Without, IsManifest
  <2>4. Committed(mem') = Committed(manifest) \ {i}
    BY <2>3 DEF Committed
  <2>5. Committed(manifest') \subseteq Committed(mem') \cup {tensor'}
    BY <2>1, <2>4
  <2>6. QED
    BY <2>1, <2>2, <2>3, <2>5 DEF Recorded
<1>2. QED
  BY <1>1, RecordedExit DEF PrepareResume, AlreadyComplete, Refuse, Unreadable

\* The tensor just written joins the ones the saved manifest has.
LEMMA RecordedHashTensor ==
    ASSUME PlaceInv, Recorded, HashTensor
    PROVE  Recorded'
<1> DEFINE hash == Region(FlushAll.at, Offset[mem.plan][tensor], Nbytes[mem.plan][tensor])
<1>1. /\ pc = "stream" /\ pc' = "save commit" /\ mem' = WithHash(mem, tensor, hash)
      /\ tensor' = tensor /\ manifest' = manifest
      /\ tensor \in Tensors(mem.plan) /\ IsManifest(mem)
  BY TypeFacts DEF HashTensor, PlaceInv, InPlace, Writing
<1> HIDE DEF hash
<1>2. /\ mem'.stat = mem.stat /\ mem'.fmt = mem.fmt /\ mem'.plan = mem.plan
      /\ Committed(mem') = Committed(mem) \cup {tensor}
  <2>1. LET n == WithHash(mem, tensor, hash)
        IN  /\ IsManifest(n)
            /\ n.plan = mem.plan /\ n.stat = mem.stat /\ n.fmt = mem.fmt
            /\ n.header = mem.header /\ n.status = mem.status
            /\ Committed(n) = Committed(mem) \cup {tensor}
            /\ n.sha[tensor] = hash
            /\ \A j \in Committed(mem) \ {tensor} : n.sha[j] = mem.sha[j]
    <3>1. tensor \in Tensors(mem.plan) /\ IsManifest(mem)
      BY <1>1
    <3>2. QED
      BY <3>1, CommitType
  <2>2. QED
    BY <1>1, <2>1
<1>3. QED
  BY <1>1, <1>2 DEF Recorded, Writing

\* A save makes the two manifests the same.
LEMMA RecordedSaveCommit ==
    ASSUME PlaceInv, Recorded, SaveCommit
    PROVE  Recorded'
<1>1. /\ pc = "save commit" /\ pc' = "tensor" /\ manifest' = mem /\ mem' = mem
      /\ tensor' = tensor + 1 /\ tensor \in Tensors(mem.plan) /\ mem.plan \in Plans
  BY TypeFacts DEF SaveCommit, PlaceInv, InPlace, Writing
<1>2. tensor' # 1
  <2>1. Count(mem.plan) \in Nat /\ tensor \in 1 .. Count(mem.plan)
    <3>1. mem.plan \in Plans /\ tensor \in 1 .. Count(mem.plan)
      BY <1>1 DEF Tensors
    <3>2. QED
      BY <3>1, LayoutTypes
  <2>2. tensor \in Nat \ {0}
    BY <2>1
  <2>3. tensor' = tensor + 1
    BY <1>1
  <2>4. QED
    BY <2>2, <2>3
<1>3. QED
  BY <1>1, <1>2 DEF Recorded

\* Nothing is recorded after the last save.
LEMMA RecordedSaveComplete ==
    ASSUME PlaceInv, Recorded, SaveComplete
    PROVE  Recorded'
<1>1. /\ pc' = "close" /\ mem' = [mem EXCEPT !.status = "complete"] /\ manifest' = mem'
  BY DEF SaveComplete
<1>2. QED
  BY <1>1 DEF Recorded

\* Every other step leaves both manifests alone.
LEMMA RecordedNext ==
    ASSUME KeepsManifests, PlaceInv, Recorded, [Next]_vars
    PROVE  Recorded'
<1>1. CASE UNCHANGED vars
  BY <1>1 DEF vars, process, storage, Recorded
<1>2. ASSUME NEW resume \in BOOLEAN, NEW f \in Formats, Start(resume, f)
      PROVE  Recorded'
  BY <1>2 DEF Start, storage, Recorded, KeepsManifests, Writing
<1>3. CASE Step
  <2>1. CASE BeginData
    BY <2>1 DEF BeginData, Recorded, Writing
  <2>2. CASE WriteHeader
    BY <2>2 DEF WriteHeader, Recorded, Writing
  <2>3. CASE BeginTensor
    BY <2>3 DEF BeginTensor, storage, Recorded, Writing
  <2>4. CASE HashHeader
    BY <2>4 DEF HashHeader, Recorded, Writing
  <2>5. CASE SaveInitial
    BY <2>5 DEF SaveInitial, Recorded, Writing
  <2>6. CASE CheckOffset
    <3>1. CASE tell = Offset[mem.plan][tensor]
      BY <2>6, <3>1 DEF CheckOffset, storage, Recorded, Writing
    <3>2. CASE tell # Offset[mem.plan][tensor]
      BY <2>6, <3>2, RecordedExit DEF CheckOffset
    <3>3. QED
      BY <3>1, <3>2
  <2>7. ASSUME NEW n \in 1 .. Capacity, StreamChunk(n)
        PROVE  Recorded'
    BY <2>7 DEF StreamChunk, storage, Recorded, Writing
  <2>8. CASE Close
    BY <2>8, RecordedExit DEF Close
  <2>9. QED
    BY <1>3, <2>1, <2>2, <2>3, <2>4, <2>5, <2>6, <2>7, <2>8, RecordedResume,
       RecordedHashTensor, RecordedSaveCommit, RecordedSaveComplete DEF Step
<1>4. CASE Fault
  <2>1. ASSUME NEW k \in 0 .. Len(pend), Crash(k) PROVE Recorded'
    BY <2>1, RecordedExit DEF Crash
  <2>2. CASE Writeback
    BY <2>2 DEF Writeback, process, Recorded
  <2>3. ASSUME NEW p \in Positions, Corrupt(p) PROVE Recorded'
    BY <2>3 DEF Corrupt, process, Recorded
  <2>4. ASSUME NEW v \in Versions \ {source}, EditSource(v) PROVE Recorded'
    BY <2>4 DEF EditSource, process, Recorded
  <2>5. QED
    BY <1>4, <2>1, <2>2, <2>3, <2>4 DEF Fault, KeepsManifests
<1>5. QED
  BY <1>1, <1>2, <1>3, <1>4 DEF Next

\* Only saves change the manifest, and a save is of the manifest in memory.
LEMMA SavesForgetNothing ==
    ASSUME KeepsManifests, PlaceInv, Recorded, [Next]_vars
    PROVE  ~Forgets
<1>1. CASE SaveInitial
  BY <1>1 DEF SaveInitial, Recorded, Forgets
<1>2. CASE SaveCommit
  <2>1. pc = "save commit" /\ manifest' = mem /\ IsManifest(mem)
    BY <1>2, TypeFacts DEF SaveCommit, PlaceInv, Writing
  <2>2. mem # NoManifest
    BY <2>1 DEF KeepsManifests
  <2>3. manifest # NoManifest => Committed(manifest) \subseteq Committed(mem)
    BY <2>1 DEF Recorded
  <2>4. manifest # NoManifest => Committed(manifest) \subseteq Committed(manifest)'
    BY <2>1, <2>3 DEF Committed
  <2>5. QED
    BY <2>1, <2>2, <2>4 DEF Forgets
<1>3. CASE SaveComplete
  <2>1. /\ pc = "tensor" /\ tensor \notin Tensors(mem.plan) /\ manifest' = mem'
        /\ mem' = [mem EXCEPT !.status = "complete"] /\ IsManifest(mem)
        /\ manifest # NoManifest => IsManifest(manifest)
    BY <1>3, TypeFacts DEF SaveComplete, PlaceInv, Writing
  <2>2. Committed(mem') = Committed(mem)
    BY <2>1 DEF IsManifest, Committed
  <2>3. ASSUME manifest # NoManifest
        PROVE  Committed(manifest) \subseteq Committed(mem)
    BY <2>1, <2>3 DEF Recorded, Writing, IsManifest
  <2>4. manifest' # NoManifest
    <3>1. IsManifest(mem')
      BY <2>1 DEF IsManifest, Committed
    <3>2. QED
      BY <2>1, <3>1 DEF KeepsManifests
  <2>5. manifest # NoManifest => Committed(manifest) \subseteq Committed(manifest)'
    BY <2>1, <2>2, <2>3 DEF Committed
  <2>6. QED
    BY <2>4, <2>5 DEF Forgets
<1>4. CASE UNCHANGED manifest
  <2>1. manifest' = manifest
    BY <1>4
  <2>2. Committed(manifest)' = Committed(manifest)
    BY <2>1 DEF Committed
  <2>3. QED
    BY <2>1, <2>2 DEF Forgets
<1>5. SaveInitial \/ SaveCommit \/ SaveComplete \/ UNCHANGED manifest
  BY DEF Next, Step, Fault, KeepsManifests, vars, storage, Start, PrepareResume,
         AlreadyComplete, Refuse, Unreadable, Accept, BeginData, WriteHeader, BeginTensor,
         HashHeader, CheckOffset, StreamChunk, HashTensor, Close, Crash, Writeback,
         Corrupt, EditSource
<1>6. QED
  BY <1>1, <1>2, <1>3, <1>4, <1>5

\* A saved manifest never forgets a tensor it has a hash for: progress once
\* banked stays banked, for every plan, format and version, and whatever is
\* killed, goes bad or is edited (Manifest.save, engine.py:302; the hash of a bad
\* tensor is dropped in memory only, engine.py:118).
THEOREM NeverForgets == KeepsManifests /\ Spec => NeverUncommit
<1>1. Init => PlaceInv /\ Recorded
  BY PlaceInit, RecordedInit
<1>2. KeepsManifests /\ PlaceInv /\ Recorded /\ [Next]_vars => PlaceInv' /\ Recorded'
  BY PlaceNext, RecordedNext
<1>3. KeepsManifests /\ PlaceInv /\ Recorded /\ [Next]_vars => [~Forgets]_vars
  BY SavesForgetNothing
<1>4. KeepsManifests => []KeepsManifests
  OBVIOUS
<1>5. QED
  BY <1>1, <1>2, <1>3, <1>4, PTL DEF Spec, NeverUncommit
-----------------------------------------------------------------------------
(* What is committed is in the file and stays there.                       *)

\* The process takes a step or dies, and a manifest has been made.
Runs == Step \/ \E k \in 0 .. Len(pend) : Crash(k)
HasManifest == manifest # NoManifest \/ pc \in Writing

\* The regions of a plan are regions of the file.
LEMMA RegionsInCapacity ==
    ASSUME NEW L \in Plans
    PROVE  /\ HeaderEnd(L) \in Nat /\ 0 .. HeaderEnd(L) - 1 \subseteq Positions
           /\ \A i \in Tensors(L) :
                 /\ Offset[L][i] \in Nat /\ Nbytes[L][i] \in Nat \ {0}
                 /\ Offset[L][i] .. Offset[L][i] + Nbytes[L][i] - 1 \subseteq Positions
<1>1. Capacity \in Nat /\ Size(L) \in Nat /\ Size(L) <= Capacity
  BY PlanInCapacity
<1>2. HeaderEnd(L) \in Nat /\ HeaderEnd(L) <= Capacity
  <2>1. 1 \in 1 .. Count(L) + 1 /\ Offset[L][1] = HeaderEnd(L)
    BY LayoutTypes, OffsetAssumption
  <2>2. QED
    BY <2>1, OffsetsInCapacity
<1>3. ASSUME NEW i \in Tensors(L)
      PROVE  /\ Offset[L][i] \in Nat /\ Nbytes[L][i] \in Nat \ {0}
             /\ Offset[L][i] + Nbytes[L][i] <= Capacity
  <2>1. i \in 1 .. Count(L) + 1
    BY LayoutTypes DEF Tensors
  <2>2. Offset[L][i] \in Nat /\ Nbytes[L][i] \in Nat \ {0}
    BY <2>1, LayoutTypes
  <2>3. End(L, i) \in Nat /\ End(L, i) <= Size(L)
    BY PlanInCapacity
  <2>4. End(L, i) = Offset[L][i] + Nbytes[L][i]
    BY DEF End
  <2>5. QED
    BY <1>1, <2>2, <2>3, <2>4
<1>4. 0 .. HeaderEnd(L) - 1 \subseteq Positions
  BY <1>1, <1>2 DEF Positions
<1>5. ASSUME NEW i \in Tensors(L)
      PROVE  Offset[L][i] .. Offset[L][i] + Nbytes[L][i] - 1 \subseteq Positions
  BY <1>1, <1>3 DEF Positions
<1>6. QED
  BY <1>2, <1>3, <1>4, <1>5

\* Whatever part of the buffer reaches the file, it brings what an
\* uninterrupted run writes there.
LEMMA FlushedOverwrites ==
    ASSUME IInv, pc \in Writing, NEW k \in 0 .. Len(pend)
    PROVE  /\ file.len <= Flushed(k).len
           /\ \A p \in Positions :
                 Flushed(k).at[p] \in {file.at[p], Output[fmt][input][p]}
<1>1. PlaceInv /\ FileOK(file) /\ MemInv /\ RunInv
  BY DEF IInv, ContentInv
<1>2. file.len <= Flushed(k).len
  BY <1>1, FlushedContent
<1>3. ASSUME NEW p \in Positions
      PROVE  Flushed(k).at[p] \in {file.at[p], Output[fmt][input][p]}
  <2>1. Flushed(k).at[p] = IF p \in fpos .. fpos + k - 1
                           THEN pend[p - fpos + 1] ELSE file.at[p]
    BY <1>1, FlushedType DEF PlaceInv
  <2>2. CASE p \in fpos .. fpos + k - 1
    <3>1. fpos \in Nat /\ Len(pend) \in Nat /\ k \in Nat /\ k <= Len(pend) /\ p \in Nat
      <4>1. fpos \in Nat /\ Len(pend) \in Nat /\ Capacity \in Nat
        BY <1>1, TypeFacts, EngineAssumption DEF PlaceInv, TypeOK
      <4>2. QED
        BY <4>1 DEF Positions
    <3>2. p \in 0 .. fpos + k - 1
      BY <2>2, <3>1
    <3>3. Flushed(k).at[p] = Output[fmt][input][p]
      BY <1>1, <3>2, FlushedContent
    <3>4. QED
      BY <3>3
  <2>3. QED
    BY <2>1, <2>2
<1>4. QED
  BY <1>2, <1>3

\* A run writes over the file only when it has a manifest in memory, once
\* there is one on the disk.
LEMMA RunOverwrites ==
    ASSUME IInv, Recorded, HasManifest, Runs
    PROVE  \/ file' = file
           \/ pc \in Writing /\ \E k \in 0 .. Len(pend) : file' = Flushed(k)
<1>1. PlaceInv
  BY DEF IInv
<1>2. Len(pend) \in 0 .. Len(pend) /\ FlushAll = Flushed(Len(pend))
  BY <1>1 DEF PlaceInv, TypeOK, FlushAll
<1>3. ASSUME NEW k \in 0 .. Len(pend), Crash(k)
      PROVE  file' = file \/ (pc \in Writing /\ file' = Flushed(k))
  <2>1. pc # "idle" /\ file' = Flushed(k)
    BY <1>3 DEF Crash
  <2>2. CASE pc \in Writing
    BY <2>1, <2>2
  <2>3. CASE pc \notin Writing
    <3>1. pc # "header"
      BY <2>3 DEF Recorded, HasManifest
    <3>2. pend = <<>>
      BY <1>1, <2>3, <3>1 DEF PlaceInv, InPlace, TypeOK, ControlPoints, Writing
    <3>3. k = 0
      BY <3>2
    <3>4. QED
      BY <2>1, <3>3 DEF Flushed
  <2>4. QED
    BY <2>2, <2>3
<1>4. CASE Step
  <2>1. CASE PrepareResume \/ BeginTensor \/ (\E n \in 1 .. Capacity : StreamChunk(n))
    BY <2>1 DEF PrepareResume, AlreadyComplete, Refuse, Unreadable, Accept, BeginTensor,
                StreamChunk, storage
  <2>2. CASE BeginData \/ WriteHeader
    BY <2>2 DEF BeginData, WriteHeader, Recorded, HasManifest, Writing
  <2>3. CASE SaveInitial \/ SaveCommit \/ SaveComplete
    BY <2>3 DEF SaveInitial, SaveCommit, SaveComplete
  <2>4. CASE HashHeader \/ HashTensor \/ Close
    <3>1. pc \in Writing /\ file' = FlushAll
      BY <2>4 DEF HashHeader, HashTensor, Close, Flush, Writing
    <3>2. QED
      BY <1>2, <3>1
  <2>5. CASE CheckOffset
    <3>1. pc = "check" /\ tell = Offset[mem.plan][tensor]
      BY <1>1, <2>5 DEF CheckOffset, PlaceInv, InPlace
    <3>2. QED
      BY <2>5, <3>1 DEF CheckOffset, storage
  <2>6. QED
    BY <1>4, <2>1, <2>2, <2>3, <2>4, <2>5 DEF Step
<1>5. QED
  BY <1>3, <1>4 DEF Runs

\* So nothing is lost, and what changes becomes what the output has there.
LEMMA RunKeeps ==
    ASSUME IInv, Recorded, HasManifest, Runs
    PROVE  /\ file.len <= file'.len
           /\ \A p \in Positions :
                 \/ file'.at[p] = file.at[p]
                 \/ pc \in Writing /\ file'.at[p] = Output[fmt][input][p]
<1>1. CASE file' = file
  <2>1. file.len \in Nat
    BY EngineAssumption DEF IInv, PlaceInv, TypeOK, Files
  <2>2. QED
    BY <1>1, <2>1
<1>2. ASSUME pc \in Writing, NEW k \in 0 .. Len(pend), file' = Flushed(k)
      PROVE  /\ file.len <= file'.len
             /\ \A p \in Positions :
                 \/ file'.at[p] = file.at[p]
                 \/ pc \in Writing /\ file'.at[p] = Output[fmt][input][p]
  <2>1. /\ file.len <= Flushed(k).len
        /\ \A p \in Positions :
              Flushed(k).at[p] \in {file.at[p], Output[fmt][input][p]}
    BY <1>2, FlushedOverwrites
  <2>2. QED
    BY <1>2, <2>1
<1>3. QED
  BY <1>1, <1>2, RunOverwrites

\* The saved manifest is about the output of the run that is writing.
LEMMA SameOutput ==
    ASSUME IInv, Recorded, pc \in Writing, manifest # NoManifest
    PROVE  /\ manifest.plan = PlanOf[fmt][input]
           /\ manifest.header = HeaderHash(fmt, input)
           /\ \A i \in Committed(manifest) : manifest.sha[i] = TensorHash(fmt, input, i)
<1>1. manifest.stat = Stat[input] /\ manifest.fmt = fmt /\ input \in Versions
  BY DEF IInv, ContentInv, MemInv, Recorded, PlaceInv, TypeOK
<1>2. Truthful(manifest)
  BY DEF IInv, ContentInv
<1>3. QED
  BY <1>1, <1>2 DEF Truthful

\* A region that holds a hash the output agrees with goes on holding it.
LEMMA RegionStays ==
    ASSUME IInv, Recorded, HasManifest, Runs,
           NEW off \in Nat, NEW n \in Nat, off .. off + n - 1 \subseteq Positions,
           NEW hash, pc \in Writing => hash = Region(Output[fmt][input], off, n)
    PROVE  /\ Held(file, hash, off, n) => Held(file', hash, off, n)
           /\ Region(file.at, off, n) = hash => Region(file'.at, off, n) = hash
<1>1. /\ file.len <= file'.len
      /\ \A p \in Positions : \/ file'.at[p] = file.at[p]
                              \/ pc \in Writing /\ file'.at[p] = Output[fmt][input][p]
  BY RunKeeps
<1>2. file.len \in Nat /\ file'.len \in Nat
  <2>1. PlaceInv /\ PlaceInv'
    BY PlaceNext DEF IInv, Next, Fault, Runs
  <2>2. file \in Files /\ file' \in Files /\ Capacity \in Nat
    BY <2>1, EngineAssumption DEF PlaceInv, TypeOK
  <2>3. QED
    BY <2>2 DEF Files
<1>3. ASSUME NEW p \in off .. off + n - 1
      PROVE  file'.at[p] \in {file.at[p], hash[p]}
  <2>1. pc \in Writing => hash[p] = Output[fmt][input][p]
    BY <1>3 DEF Region
  <2>2. p \in Positions
    BY <1>3
  <2>3. QED
    BY <1>1, <2>1, <2>2
<1>4. Held(file, hash, off, n) => Held(file', hash, off, n)
  <2>1. Readable(file, off, n) => Readable(file', off, n)
    <3>1. file.len <= file'.len
      BY <1>1
    <3>2. QED
      BY <1>2, <3>1 DEF Readable
  <2>2. QED
    BY <1>3, <2>1 DEF Held
<1>5. ASSUME Region(file.at, off, n) = hash
      PROVE  Region(file'.at, off, n) = hash
  <2>1. hash = [p \in off .. off + n - 1 |-> file.at[p]]
    BY <1>5 DEF Region
  <2>2. \A p \in off .. off + n - 1 : file'.at[p] = file.at[p]
    BY <1>3, <2>1
  <2>3. QED
    BY <2>1, <2>2 DEF Region
<1>6. QED
  BY <1>4, <1>5

\* Intact bytes that a manifest vouches for are left as they are.
LEMMA StepLeavesCommitted ==
    ASSUME IInv, Recorded, Step, manifest # NoManifest
    PROVE  /\ HeaderMatches(manifest) =>
                 Region(file'.at, 0, HeaderEnd(manifest.plan)) = manifest.header
           /\ \A i \in Committed(manifest) :
                 TensorMatches(manifest, i) =>
                    Region(file'.at, Offset[manifest.plan][i],
                           Nbytes[manifest.plan][i]) = manifest.sha[i]
<1> DEFINE L == manifest.plan
<1>1. L \in Plans /\ Committed(manifest) \subseteq Tensors(L)
  BY TypeFacts DEF IInv, PlaceInv, IsManifest
<1>2. pc \in Writing =>
        /\ manifest.header = Region(Output[fmt][input], 0, HeaderEnd(L))
        /\ \A i \in Committed(manifest) :
              manifest.sha[i] = Region(Output[fmt][input], Offset[L][i], Nbytes[L][i])
  BY SameOutput DEF HeaderHash, TensorHash
<1> HIDE DEF L
<1>0. HasManifest /\ Runs
  BY DEF HasManifest, Runs
<1>3. Region(file.at, 0, HeaderEnd(L)) = manifest.header
        => Region(file'.at, 0, HeaderEnd(L)) = manifest.header
  <2>1. HeaderEnd(L) \in Nat /\ 0 \in Nat /\ 0 .. 0 + HeaderEnd(L) - 1 \subseteq Positions
    BY <1>1, RegionsInCapacity
  <2>2. pc \in Writing => manifest.header = Region(Output[fmt][input], 0, HeaderEnd(L))
    BY <1>2
  <2>3. /\ Held(file, manifest.header, 0, HeaderEnd(L))
             => Held(file', manifest.header, 0, HeaderEnd(L))
        /\ Region(file.at, 0, HeaderEnd(L)) = manifest.header
             => Region(file'.at, 0, HeaderEnd(L)) = manifest.header
    BY <1>0, <2>1, <2>2, RegionStays
  <2>4. QED
    BY <2>3
<1>4. ASSUME NEW i \in Committed(manifest)
      PROVE  Region(file.at, Offset[L][i], Nbytes[L][i]) = manifest.sha[i]
               => Region(file'.at, Offset[L][i], Nbytes[L][i]) = manifest.sha[i]
  <2>1. /\ Offset[L][i] \in Nat /\ Nbytes[L][i] \in Nat
        /\ Offset[L][i] .. Offset[L][i] + Nbytes[L][i] - 1 \subseteq Positions
    BY <1>1, RegionsInCapacity
  <2>2. pc \in Writing =>
           manifest.sha[i] = Region(Output[fmt][input], Offset[L][i], Nbytes[L][i])
    BY <1>2
  <2>3. /\ Held(file, manifest.sha[i], Offset[L][i], Nbytes[L][i])
             => Held(file', manifest.sha[i], Offset[L][i], Nbytes[L][i])
        /\ Region(file.at, Offset[L][i], Nbytes[L][i]) = manifest.sha[i]
             => Region(file'.at, Offset[L][i], Nbytes[L][i]) = manifest.sha[i]
    BY <1>0, <2>1, <2>2, RegionStays
  <2>4. QED
    BY <2>3
<1>5. QED
  BY <1>3, <1>4 DEF L, HeaderMatches, TensorMatches

\* So does everything a manifest of the running job vouches for.
LEMMA HeldStays ==
    ASSUME IInv, Recorded, HasManifest, Runs,
           NEW m, m.plan \in Plans, Committed(m) \subseteq Tensors(m.plan),
           pc \in Writing =>
             \A i \in Committed(m) :
                m.sha[i] = Region(Output[fmt][input], Offset[m.plan][i], Nbytes[m.plan][i])
    PROVE  /\ TensorsHeld(file, m) => TensorsHeld(file', m)
           /\ (pc \in Writing => m.header = Region(Output[fmt][input], 0, HeaderEnd(m.plan)))
                => (HeaderHeld(file, m) => HeaderHeld(file', m))
<1>1. ASSUME pc \in Writing => m.header = Region(Output[fmt][input], 0, HeaderEnd(m.plan)),
             HeaderHeld(file, m)
      PROVE  HeaderHeld(file', m)
  <2>1. HeaderEnd(m.plan) \in Nat /\ 0 \in Nat
          /\ 0 .. 0 + HeaderEnd(m.plan) - 1 \subseteq Positions
    BY RegionsInCapacity
  <2>2. pc \in Writing => m.header = Region(Output[fmt][input], 0, HeaderEnd(m.plan))
    BY <1>1
  <2>3. /\ Held(file, m.header, 0, HeaderEnd(m.plan))
             => Held(file', m.header, 0, HeaderEnd(m.plan))
        /\ Region(file.at, 0, HeaderEnd(m.plan)) = m.header
             => Region(file'.at, 0, HeaderEnd(m.plan)) = m.header
    BY <2>1, <2>2, RegionStays
  <2>4. QED
    BY <1>1, <2>3 DEF HeaderHeld
<1>2. ASSUME TensorsHeld(file, m), NEW i \in Committed(m)
      PROVE  Held(file', m.sha[i], Offset[m.plan][i], Nbytes[m.plan][i])
  <2> DEFINE off == Offset[m.plan][i]
             n == Nbytes[m.plan][i]
  <2>1. off \in Nat /\ n \in Nat /\ off .. off + n - 1 \subseteq Positions
    BY RegionsInCapacity
  <2>2. pc \in Writing => m.sha[i] = Region(Output[fmt][input], off, n)
    OBVIOUS
  <2>3. Held(file, m.sha[i], off, n)
    BY <1>2 DEF TensorsHeld
  <2> HIDE DEF off, n
  <2>4. /\ Held(file, m.sha[i], off, n) => Held(file', m.sha[i], off, n)
        /\ Region(file.at, off, n) = m.sha[i] => Region(file'.at, off, n) = m.sha[i]
    BY <2>1, <2>2, RegionStays
  <2>5. QED
    BY <2>3, <2>4 DEF off, n
<1>3. QED
  BY <1>1, <1>2 DEF TensorsHeld

\* A running process, or one that dies, leaves both manifests backed.
LEMMA RunKeepsHeld ==
    ASSUME IInv, Recorded, BackedInv, Runs
    PROVE  /\ manifest # NoManifest =>
                 HeaderHeld(file', manifest) /\ TensorsHeld(file', manifest)
           /\ pc \in Writing => TensorsHeld(file', mem)
           /\ pc \in Writing /\ ~HeaderPending => HeaderHeld(file', mem)
<1>1. ASSUME manifest # NoManifest
      PROVE  HeaderHeld(file', manifest) /\ TensorsHeld(file', manifest)
  <2>1. manifest.plan \in Plans /\ Committed(manifest) \subseteq Tensors(manifest.plan)
    BY <1>1, TypeFacts DEF IInv, PlaceInv, IsManifest
  <2>2. pc \in Writing =>
          /\ manifest.header = Region(Output[fmt][input], 0, HeaderEnd(manifest.plan))
          /\ \A i \in Committed(manifest) :
                manifest.sha[i] = Region(Output[fmt][input], Offset[manifest.plan][i],
                                         Nbytes[manifest.plan][i])
    BY <1>1, SameOutput DEF HeaderHash, TensorHash
  <2>3. HeaderHeld(file, manifest) /\ TensorsHeld(file, manifest)
    BY <1>1 DEF BackedInv
  <2>0. HasManifest
    BY <1>1 DEF HasManifest
  <2>4. /\ TensorsHeld(file, manifest) => TensorsHeld(file', manifest)
        /\ (pc \in Writing =>
               manifest.header = Region(Output[fmt][input], 0, HeaderEnd(manifest.plan)))
             => (HeaderHeld(file, manifest) => HeaderHeld(file', manifest))
    BY <2>0, <2>1, <2>2, HeldStays
  <2>5. QED
    BY <2>2, <2>3, <2>4
<1>2. ASSUME pc \in Writing
      PROVE  /\ TensorsHeld(file', mem)
             /\ ~HeaderPending => HeaderHeld(file', mem)
  <2>1. mem.plan \in Plans /\ Committed(mem) \subseteq Tensors(mem.plan)
    BY <1>2, TypeFacts DEF IInv, PlaceInv, IsManifest
  <2>2. /\ ~HeaderPending =>
              mem.header = Region(Output[fmt][input], 0, HeaderEnd(mem.plan))
        /\ \A i \in Committed(mem) :
              mem.sha[i] = Region(Output[fmt][input], Offset[mem.plan][i], Nbytes[mem.plan][i])
    BY <1>2 DEF IInv, ContentInv, MemInv, HeaderHash, TensorHash
  <2>3. TensorsHeld(file, mem) /\ (~HeaderPending => HeaderHeld(file, mem))
    BY <1>2 DEF BackedInv
  <2>0. HasManifest
    BY <1>2 DEF HasManifest
  <2>4. /\ TensorsHeld(file, mem) => TensorsHeld(file', mem)
        /\ (pc \in Writing => mem.header = Region(Output[fmt][input], 0, HeaderEnd(mem.plan)))
             => (HeaderHeld(file, mem) => HeaderHeld(file', mem))
    BY <2>0, <2>1, <2>2, HeldStays
  <2>5. QED
    BY <2>2, <2>3, <2>4
<1>3. QED
  BY <1>1, <1>2

\* When no process runs, only the saved manifest counts.
LEMMA BackedExit ==
    ASSUME Exit, manifest' # NoManifest =>
                   HeaderHeld(file', manifest') /\ TensorsHeld(file', manifest')
    PROVE  BackedInv'
<1>1. pc' = "idle"
  BY DEF Exit
<1>2. ~HeaderPending' /\ pc' \notin Writing \cup {"initial"}
  BY <1>1 DEF HeaderPending, Writing
<1>3. QED
  BY <1>2 DEF BackedInv

LEMMA BackedInit == Init => BackedInv
  BY DEF Init, BackedInv, HeaderPending, Writing

\* A resumed run takes over what the saved manifest vouches for.
LEMMA BackedPrepareResume ==
    ASSUME IInv, Recorded, BackedInv, PrepareResume
    PROVE  BackedInv'
<1>1. CASE AlreadyComplete \/ Refuse \/ Unreadable
  <2>1. Exit /\ file' = file /\ manifest' = manifest
    BY <1>1 DEF AlreadyComplete, Refuse, Unreadable, storage
  <2>2. manifest # NoManifest =>
           HeaderHeld(file, manifest) /\ TensorsHeld(file, manifest)
    BY DEF BackedInv
  <2>3. QED
    BY <2>1, <2>2, BackedExit
<1>2. ASSUME NEW i \in 1 .. Count(manifest.plan) + 1, Accept(i)
      PROVE  BackedInv'
  <2>1. /\ pc' = "tensor" /\ resuming' /\ manifest' = manifest /\ file' = file
        /\ mem' = Without(manifest, i)
    BY <1>2 DEF Accept, storage, PrepareResume, IInv, PlaceInv, InPlace
  <2>2. manifest # NoManifest /\ IsManifest(manifest)
    BY TypeFacts DEF PrepareResume, IInv, PlaceInv, TypeOK
  <2>3. HeaderHeld(file, manifest) /\ TensorsHeld(file, manifest)
    BY <2>2 DEF BackedInv
  <2>4. /\ mem'.plan = manifest.plan /\ mem'.header = manifest.header
        /\ Committed(mem') \subseteq Committed(manifest)
        /\ \A j \in Committed(mem') : mem'.sha[j] = manifest.sha[j]
    BY <2>1, <2>2 DEF IsManifest, Without, Committed
  <2>5. HeaderHeld(file', mem') /\ TensorsHeld(file', mem')
    BY <2>1, <2>3, <2>4 DEF HeaderHeld, TensorsHeld
  <2>6. HeaderHeld(file', manifest') /\ TensorsHeld(file', manifest')
    BY <2>1, <2>3
  <2>7. ~HeaderPending'
    BY <2>1 DEF HeaderPending
  <2>8. QED
    BY <2>1, <2>5, <2>6, <2>7 DEF BackedInv
<1>3. QED
  BY <1>1, <1>2 DEF PrepareResume

\* A fresh run has no manifest to back yet; its header is in the file ...
LEMMA BackedWriteHeader ==
    ASSUME IInv, Recorded, WriteHeader
    PROVE  BackedInv'
<1>1. /\ pc = "header" /\ pc' = "tensor" /\ fpos' = tell /\ file' = FlushAll
      /\ manifest' = manifest /\ mem' = NewManifest
  BY DEF WriteHeader, Flush
<1>2. manifest' = NoManifest
  BY <1>1 DEF Recorded
<1>3. /\ Len(pend) # 0 => tell <= FlushAll.len
      /\ file.len <= FlushAll.len
  BY <1>1, FlushContent DEF IInv, ContentInv
<1>4. fpos' <= file'.len
  <2>1. Len(pend) = HeaderLen[PlanOf[fmt][input]] /\ Len(pend) # 0
    BY <1>1, TypeFacts, PlanInCapacity DEF IInv, PlaceInv, InPlace
  <2>2. QED
    BY <1>1, <1>3, <2>1
<1>5. TensorsHeld(file', mem')
  BY <1>1 DEF NewManifest, TensorsHeld, Committed
<1>6. HeaderPending'
  <2>1. tensor' = 1 /\ ~resuming'
    BY <1>1 DEF WriteHeader, IInv, PlaceInv, InPlace, Writing
  <2>2. QED
    BY <1>1, <2>1 DEF HeaderPending
<1>7. QED
  BY <1>2, <1>4, <1>5, <1>6 DEF BackedInv

\* ... and so is all of it when it is hashed.
LEMMA BackedHashHeader ==
    ASSUME IInv, Recorded, BackedInv, HashHeader
    PROVE  BackedInv'
<1> DEFINE L == mem.plan
<1>1. /\ pc = "initial" /\ pc' = "save initial" /\ fpos' = tell /\ file' = FlushAll
      /\ manifest' = manifest
      /\ mem' = [mem EXCEPT !.header = Region(FlushAll.at, 0, HeaderEnd(L))]
      /\ IsManifest(mem) /\ L \in Plans /\ tell = Offset[L][1]
  BY TypeFacts DEF HashHeader, Flush, IInv, PlaceInv, InPlace, Writing
<1>2. manifest' = NoManifest
  BY <1>1 DEF Recorded
<1>3. /\ mem'.plan = L /\ mem'.sha = mem.sha
      /\ mem'.header = Region(FlushAll.at, 0, HeaderEnd(L))
  BY <1>1 DEF IsManifest
<1>4. TensorsHeld(file', mem')
  <2>1. TensorsHeld(file', mem)
    BY <1>1, RunKeepsHeld DEF Runs, Step, Writing
  <2>2. QED
    BY <1>3, <2>1 DEF TensorsHeld, Committed
<1>5. HeaderEnd(L) <= file'.len
  <2>1. /\ Len(pend) # 0 => tell <= FlushAll.len
        /\ file.len <= FlushAll.len
    BY <1>1, FlushContent DEF IInv, ContentInv, Writing
  <2>2. HeaderEnd(L) = tell
    BY <1>1, OffsetAssumption
  <2>3. fpos <= file.len
    BY <1>1 DEF BackedInv
  <2>4. /\ fpos \in Nat /\ Len(pend) \in Nat /\ file.len \in Nat /\ FlushAll.len \in Nat
    <3>1. fpos \in Nat /\ Len(pend) \in Nat /\ file \in Files /\ FlushAll \in Files
            /\ Capacity \in Nat
      BY TypeFacts, FlushAllType, EngineAssumption DEF IInv, PlaceInv, TypeOK
    <3>2. QED
      BY <3>1 DEF Files
  <2>5. tell <= FlushAll.len
    <3>1. Len(pend) = 0 => tell = fpos
      BY <2>4 DEF tell
    <3>2. QED
      BY <2>1, <2>3, <2>4, <3>1
  <2>6. QED
    BY <1>1, <2>2, <2>5
<1>6. HeaderHeld(file', mem')
  <2>1. Readable(file', 0, HeaderEnd(L))
    <3>1. HeaderEnd(L) \in Nat
      BY <1>1, RegionsInCapacity
    <3>2. QED
      BY <1>5, <3>1 DEF Readable
  <2>2. \A p \in 0 .. 0 + HeaderEnd(L) - 1 :
           file'.at[p] = Region(FlushAll.at, 0, HeaderEnd(L))[p]
    BY <1>1 DEF Region
  <2>3. QED
    BY <1>3, <2>1, <2>2 DEF HeaderHeld, Held
<1>7. ~HeaderPending'
  BY <1>1 DEF HeaderPending
<1>8. QED
  BY <1>1, <1>2, <1>4, <1>6, <1>7 DEF BackedInv

\* A tensor is in the file when it is hashed.
LEMMA BackedHashTensor ==
    ASSUME IInv, Recorded, BackedInv, HashTensor
    PROVE  BackedInv'
<1> DEFINE L == mem.plan
           hash == Region(FlushAll.at, Offset[L][tensor], Nbytes[L][tensor])
<1>1. /\ pc = "stream" /\ pc' = "save commit" /\ file' = FlushAll
      /\ manifest' = manifest /\ tensor' = tensor
      /\ mem' = WithHash(mem, tensor, hash)
      /\ IsManifest(mem) /\ L \in Plans /\ tensor \in Tensors(L)
  BY TypeFacts DEF HashTensor, Flush, IInv, PlaceInv, InPlace, Writing
<1>2. /\ manifest # NoManifest =>
            HeaderHeld(file', manifest) /\ TensorsHeld(file', manifest)
      /\ TensorsHeld(file', mem) /\ HeaderHeld(file', mem)
  BY <1>1, RunKeepsHeld DEF Runs, Step, Writing, HeaderPending
<1>3. End(L, tensor) <= file'.len
  <2>1. RunInv' /\ file'.len \in Nat
    <3>1. ContentInv'
      BY ContentHashTensor DEF IInv
    <3>2. FlushAll.len \in 0 .. Capacity /\ Capacity \in Nat
      BY FlushAllType, EngineAssumption DEF IInv, PlaceInv, Files
    <3>3. file' = FlushAll
      BY <1>1
    <3>4. QED
      BY <3>1, <3>2, <3>3 DEF ContentInv
  <2>2. mem'.plan = L
    BY <1>1 DEF WithHash, IsManifest
  <2>3. End(L, tensor) \in Nat
    BY <1>1, PlanInCapacity
  <2>4. file'.len >= End(L, tensor)
    BY <1>1, <2>1, <2>2 DEF RunInv
  <2>5. QED
    BY <2>1, <2>3, <2>4
<1>4. Held(file', hash, Offset[L][tensor], Nbytes[L][tensor])
  BY <1>1, <1>3 DEF Held, Readable, End, Region
<1> HIDE DEF hash
<1>5. LET n == WithHash(mem, tensor, hash)
      IN  /\ IsManifest(n)
          /\ n.plan = mem.plan /\ n.stat = mem.stat /\ n.fmt = mem.fmt
          /\ n.header = mem.header /\ n.status = mem.status
          /\ Committed(n) = Committed(mem) \cup {tensor}
          /\ n.sha[tensor] = hash
          /\ \A j \in Committed(mem) \ {tensor} : n.sha[j] = mem.sha[j]
  <2>1. tensor \in Tensors(mem.plan) /\ IsManifest(mem)
    BY <1>1
  <2>2. QED
    BY <2>1, CommitType
<1>6. /\ mem'.plan = L /\ mem'.header = mem.header
      /\ Committed(mem') = Committed(mem) \cup {tensor}
      /\ mem'.sha[tensor] = hash
      /\ \A j \in Committed(mem) \ {tensor} : mem'.sha[j] = mem.sha[j]
  BY <1>1, <1>5
<1>7. TensorsHeld(file', mem')
  <2>1. SUFFICES ASSUME NEW j \in Committed(mem')
                 PROVE  Held(file', mem'.sha[j], Offset[L][j], Nbytes[L][j])
    BY <1>6 DEF TensorsHeld
  <2>2. CASE j = tensor
    BY <1>4, <1>6, <2>2
  <2>3. CASE j # tensor
    BY <1>2, <1>6, <2>3 DEF TensorsHeld
  <2>4. QED
    BY <2>2, <2>3
<1>8. HeaderHeld(file', mem')
  BY <1>2, <1>6 DEF HeaderHeld
<1>9. QED
  BY <1>1, <1>2, <1>7, <1>8 DEF BackedInv, HeaderPending

\* A save makes the manifest in memory the saved one.
LEMMA BackedSave ==
    ASSUME IInv, Recorded, BackedInv, SaveInitial \/ SaveCommit \/ SaveComplete
    PROVE  BackedInv'
<1>1. /\ pc \in Writing /\ ~HeaderPending /\ manifest' = mem' /\ file' = file
      /\ IsManifest(mem)
  <2>1. pc \in {"save initial", "save commit", "tensor"} /\ manifest' = mem' /\ file' = file
    BY DEF SaveInitial, SaveCommit, SaveComplete
  <2>2. pc \in Writing /\ IsManifest(mem) /\ mem.plan \in Plans
    BY <2>1, TypeFacts DEF Writing, IInv, PlaceInv
  <2>3. ~HeaderPending
    <3>1. 1 \in Tensors(mem.plan)
      BY <2>2, LayoutTypes DEF Tensors
    <3>2. QED
      BY <3>1 DEF SaveInitial, SaveCommit, SaveComplete, HeaderPending
  <2>4. QED
    BY <2>1, <2>2, <2>3
<1>2. HeaderHeld(file, mem) /\ TensorsHeld(file, mem)
  BY <1>1 DEF BackedInv
<1>3. mem'.plan = mem.plan /\ mem'.header = mem.header /\ mem'.sha = mem.sha
  BY <1>1 DEF SaveInitial, SaveCommit, SaveComplete, IsManifest
<1>4. HeaderHeld(file', mem') /\ TensorsHeld(file', mem')
  BY <1>1, <1>2, <1>3 DEF HeaderHeld, TensorsHeld, Committed
<1>5. ~HeaderPending'
  <2>1. CASE SaveInitial \/ SaveComplete
    BY <2>1 DEF SaveInitial, SaveComplete, HeaderPending
  <2>2. CASE SaveCommit
    <3>1. mem.plan \in Plans /\ tensor \in 1 .. Count(mem.plan) /\ tensor' = tensor + 1
      BY <2>2, TypeFacts DEF SaveCommit, IInv, PlaceInv, InPlace, Tensors, Writing
    <3>2. tensor \in Nat \ {0}
      BY <3>1, LayoutTypes
    <3>3. tensor' # 1
      <4>1. tensor' = tensor + 1
        BY <3>1
      <4>2. QED
        BY <3>2, <4>1
    <3>4. QED
      BY <3>3 DEF HeaderPending
  <2>3. QED
    BY <2>1, <2>2
<1>6. pc' # "initial"
  BY DEF SaveInitial, SaveCommit, SaveComplete
<1>7. QED
  BY <1>1, <1>4, <1>5, <1>6 DEF BackedInv

\* Bad bytes are allowed for, and nothing else touches the file.
LEMMA BackedNext ==
    ASSUME KeepsManifests, IInv, Recorded, BackedInv, [Next]_vars
    PROVE  BackedInv'
<1>1. ASSUME UNCHANGED <<file, manifest>>, pc' \notin Writing
      PROVE  BackedInv'
  BY <1>1 DEF BackedInv, HeaderPending, Writing
<1>2. CASE UNCHANGED vars
  BY <1>2 DEF vars, process, storage, BackedInv, HeaderPending
<1>3. ASSUME NEW resume \in BOOLEAN, NEW f \in Formats, Start(resume, f)
      PROVE  BackedInv'
  BY <1>1, <1>3 DEF Start, storage, Writing
<1>4. CASE Step
  <2>1. CASE BeginData
    <3>1. manifest' = NoManifest /\ pc' = "header"
      BY <2>1 DEF BeginData, Recorded
    <3>2. QED
      BY <3>1 DEF BackedInv, HeaderPending, Writing
  <2>2. CASE BeginTensor
    BY <2>2 DEF BeginTensor, storage, BackedInv, HeaderPending, Writing
  <2>3. CASE CheckOffset
    <3>1. pc = "check" /\ tell = Offset[mem.plan][tensor]
      BY <2>3 DEF CheckOffset, IInv, PlaceInv, InPlace
    <3>2. QED
      BY <2>3, <3>1 DEF CheckOffset, storage, BackedInv, HeaderPending, Writing
  <2>4. ASSUME NEW n \in 1 .. Capacity, StreamChunk(n)
        PROVE  BackedInv'
    BY <2>4 DEF StreamChunk, storage, BackedInv, HeaderPending, Writing
  <2>5. CASE Close
    <3>1. Exit /\ manifest' = manifest
      BY <2>5 DEF Close
    <3>2. manifest # NoManifest =>
             HeaderHeld(file', manifest) /\ TensorsHeld(file', manifest)
      BY <2>5, RunKeepsHeld DEF Runs, Step
    <3>3. QED
      BY <3>1, <3>2, BackedExit
  <2>6. QED
    BY <1>4, <2>1, <2>2, <2>3, <2>4, <2>5, BackedPrepareResume, BackedWriteHeader,
       BackedHashHeader, BackedHashTensor, BackedSave DEF Step
<1>5. ASSUME NEW k \in 0 .. Len(pend), Crash(k)
      PROVE  BackedInv'
  <2>1. Exit /\ manifest' = manifest
    BY <1>5 DEF Crash
  <2>2. manifest # NoManifest =>
           HeaderHeld(file', manifest) /\ TensorsHeld(file', manifest)
    BY <1>5, RunKeepsHeld DEF Runs
  <2>3. QED
    BY <2>1, <2>2, BackedExit
<1>6. ASSUME NEW q \in Positions, Corrupt(q)
      PROVE  BackedInv'
  <2>1. /\ pc' = "idle" /\ manifest' = manifest
        /\ file' = [file EXCEPT !.at[q] = Bad] /\ file \in Files
    BY <1>6 DEF Corrupt, process, IInv, PlaceInv, TypeOK
  <2>2. /\ file'.len = file.len
        /\ \A p \in Positions : file'.at[p] \in {file.at[p], Bad}
    BY <2>1 DEF Files
  <2>3. ASSUME manifest # NoManifest
        PROVE  HeaderHeld(file', manifest) /\ TensorsHeld(file', manifest)
    <3>1. HeaderHeld(file, manifest) /\ TensorsHeld(file, manifest)
      BY <2>3 DEF BackedInv
    <3>2. manifest.plan \in Plans /\ Committed(manifest) \subseteq Tensors(manifest.plan)
      BY <2>3, TypeFacts DEF IInv, PlaceInv, IsManifest
    <3>3. /\ 0 .. 0 + HeaderEnd(manifest.plan) - 1 \subseteq Positions
          /\ \A i \in Committed(manifest) :
                Offset[manifest.plan][i] .. Offset[manifest.plan][i]
                  + Nbytes[manifest.plan][i] - 1 \subseteq Positions
      BY <3>2, RegionsInCapacity
    <3>4. ASSUME NEW off, NEW n, NEW hash, off .. off + n - 1 \subseteq Positions,
                 Held(file, hash, off, n)
          PROVE  Held(file', hash, off, n)
      BY <2>2, <3>4 DEF Held, Readable
    <3>5. QED
      BY <3>1, <3>3, <3>4 DEF HeaderHeld, TensorsHeld
  <2>4. QED
    BY <2>1, <2>3 DEF BackedInv, HeaderPending, Writing
<1>7. ASSUME NEW v \in Versions \ {source}, EditSource(v)
      PROVE  BackedInv'
  BY <1>7 DEF EditSource, process, BackedInv, HeaderPending
<1>8. CASE Writeback
  BY <1>8 DEF Writeback, KeepsManifests
<1>9. QED
  BY <1>2, <1>3, <1>4, <1>5, <1>6, <1>7, <1>8 DEF Next, Fault, KeepsManifests

-----------------------------------------------------------------------------
(* A job that is recorded as complete is.                                  *)

LEMMA DoneInit == Init => DoneInv
  BY DEF Init, DoneInv, Complete, Writing

\* The record and the output it describes stay as they are.
LEMMA DoneStays ==
    ASSUME DoneInv, file' = file, manifest' = manifest,
           Complete => pc' \in {"idle", "verify"},
           Complete /\ pc = "close" => WholeOutput,
           pc' \in Writing \ {"close"} => mem'.status # "complete",
           code' = "already" => Complete
    PROVE  DoneInv'
<1>1. Complete' <=> Complete
  BY DEF Complete
<1>2. WholeOutput' <=> WholeOutput
  BY DEF WholeOutput, Held, Readable
<1>3. QED
  BY <1>1, <1>2 DEF DoneInv

\* At the end of a run the file is the output of the job its manifest records.
LEMMA WholeAtEnd ==
    ASSUME IInv, Recorded, pc = "close", Complete
    PROVE  WholeOutput
<1>1. /\ IsOutput(file, fmt, input) /\ mem.plan = PlanOf[fmt][input]
      /\ mem.stat = Stat[input] /\ mem.fmt = fmt /\ input \in Versions
  BY WholeAtClose DEF IInv, PlaceInv, TypeOK, ContentInv, MemInv, Writing
<1>2. /\ manifest.stat = Stat[input] /\ manifest.fmt = fmt
      /\ manifest.plan = PlanOf[fmt][input]
  BY <1>1 DEF Recorded, Complete, Writing
<1>3. file.len = Size(manifest.plan)
        /\ \A p \in 0 .. file.len - 1 : file.at[p] = Output[manifest.fmt][input][p]
  BY <1>1, <1>2 DEF IsOutput
<1>4. file.len \in Nat
  BY EngineAssumption DEF IInv, PlaceInv, TypeOK, Files
<1>5. Held(file, Output[manifest.fmt][input], 0, file.len)
  BY <1>3, <1>4 DEF Held, Readable
<1>6. QED
  BY <1>1, <1>2, <1>3, <1>5 DEF WholeOutput

\* A complete job is not resumed.
LEMMA DonePrepareResume ==
    ASSUME IInv, Recorded, DoneInv, PrepareResume
    PROVE  DoneInv'
<1>1. pc = "verify" /\ manifest # NoManifest /\ code = "running"
  BY DEF PrepareResume, IInv, PlaceInv, TypeOK, ContentInv, RunInv
<1>2. CASE AlreadyComplete \/ Refuse \/ Unreadable
  <2>1. /\ pc' = "idle" /\ file' = file /\ manifest' = manifest
        /\ code' = "already" => manifest.status = "complete"
    BY <1>2 DEF AlreadyComplete, Refuse, Unreadable, Exit, storage
  <2>2. code' = "already" => Complete
    BY <1>1, <2>1 DEF Complete
  <2>3. QED
    BY <1>1, <2>1, <2>2, DoneStays DEF Writing
<1>3. ASSUME NEW i \in 1 .. Count(manifest.plan) + 1, Accept(i)
      PROVE  DoneInv'
  <2>1. /\ file' = file /\ manifest' = manifest /\ code' = code
        /\ ~Complete /\ mem' = Without(manifest, i)
    BY <1>3 DEF Accept, storage, Complete
  <2>2. IsManifest(manifest)
    BY <1>1, TypeFacts DEF IInv, PlaceInv
  <2>3. mem'.status # "complete"
    BY <1>1, <2>1, <2>2 DEF Without, IsManifest, Complete
  <2>4. QED
    BY <1>1, <2>1, <2>3, DoneStays
<1>4. QED
  BY <1>2, <1>3 DEF PrepareResume

\* The steps between have no complete manifest to keep and save none.
LEMMA DoneWriting ==
    ASSUME IInv, Recorded, DoneInv, Step, ~PrepareResume, ~SaveComplete, ~Close
    PROVE  DoneInv'
<1>1. pc \notin {"idle", "verify", "close"}
  BY DEF Step, BeginData, WriteHeader, BeginTensor, HashHeader, SaveInitial, CheckOffset,
         StreamChunk, HashTensor, SaveCommit
<1>2. ~Complete /\ code = "running" /\ (pc \in Writing => IsManifest(mem))
  BY <1>1, TypeFacts DEF DoneInv, IInv, PlaceInv, ContentInv, RunInv
<1>3. CASE BeginData
  BY <1>2, <1>3 DEF BeginData, DoneInv, Complete, Writing
<1>4. CASE WriteHeader
  <2>1. mem' = NewManifest /\ manifest' = manifest /\ code' = code /\ pc' = "tensor"
    BY <1>4 DEF WriteHeader
  <2>2. mem'.status # "complete"
    BY <2>1 DEF NewManifest
  <2>3. QED
    BY <1>2, <2>1, <2>2 DEF DoneInv, Complete
<1>5. CASE BeginTensor \/ \E n \in 1 .. Capacity : StreamChunk(n)
  BY <1>1, <1>2, <1>5 DEF BeginTensor, StreamChunk, storage, DoneInv, Complete, Writing
<1>6. CASE HashHeader
  <2>1. /\ pc = "initial" /\ manifest' = manifest /\ code' = code /\ IsManifest(mem)
        /\ mem' = [mem EXCEPT !.header = Region(FlushAll.at, 0, HeaderEnd(mem.plan))]
    BY <1>2, <1>6 DEF HashHeader, Writing
  <2>2. mem'.status = mem.status
    BY <2>1 DEF IsManifest
  <2>3. QED
    BY <1>2, <2>1, <2>2 DEF DoneInv, Complete, Writing
<1>7. CASE SaveInitial
  BY <1>1, <1>2, <1>7 DEF SaveInitial, DoneInv, Complete, Writing
<1>8. CASE CheckOffset
  <2>1. pc = "check" /\ tell = Offset[mem.plan][tensor]
    BY <1>8 DEF CheckOffset, IInv, PlaceInv, InPlace
  <2>2. QED
    BY <1>2, <1>8, <2>1 DEF CheckOffset, storage, DoneInv, Complete, Writing
<1>9. CASE HashTensor
  <2> DEFINE hash == Region(FlushAll.at, Offset[mem.plan][tensor], Nbytes[mem.plan][tensor])
  <2>1. /\ pc = "stream" /\ manifest' = manifest /\ code' = code /\ IsManifest(mem)
        /\ mem' = WithHash(mem, tensor, hash)
    BY <1>2, <1>9 DEF HashTensor, Writing
  <2> HIDE DEF hash
  <2>2. mem'.status = mem.status
    BY <2>1 DEF IsManifest, WithHash
  <2>3. QED
    BY <1>2, <2>1, <2>2 DEF DoneInv, Complete, Writing
<1>10. CASE SaveCommit
  BY <1>1, <1>2, <1>10 DEF SaveCommit, DoneInv, Complete, Writing
<1>11. QED
  BY <1>3, <1>4, <1>5, <1>6, <1>7, <1>8, <1>9, <1>10 DEF Step

\* Completing a job leaves it whole, and nothing but bad bytes comes after.
LEMMA DoneNext ==
    ASSUME StatIdentifies, KeepsManifests, IInv, Recorded, DoneInv, [Next]_vars
    PROVE  DoneInv'
<1>1. CASE UNCHANGED vars
  BY <1>1 DEF vars, process, storage, DoneInv, Complete, WholeOutput, Held, Readable
<1>2. ASSUME NEW resume \in BOOLEAN, NEW f \in Formats, Start(resume, f)
      PROVE  DoneInv'
  <2>1. /\ pc = "idle" /\ file' = file /\ manifest' = manifest /\ code' = "running"
        /\ pc' \in {"verify", "begin"}
    BY <1>2 DEF Start, storage
  <2>2. Complete => pc' = "verify"
    BY <1>2 DEF Start, Complete, KeepsManifests
  <2>3. QED
    BY <2>1, <2>2, DoneStays DEF Writing
<1>3. CASE SaveComplete
  <2>1. /\ pc = "tensor" /\ pc' = "close" /\ manifest' = mem' /\ code' = code
        /\ mem' = [mem EXCEPT !.status = "complete"] /\ IsManifest(mem)
        /\ manifest' # NoManifest
    <3>1. /\ pc = "tensor" /\ pc' = "close" /\ manifest' = mem' /\ code' = code
          /\ mem' = [mem EXCEPT !.status = "complete"] /\ IsManifest(mem)
      BY <1>3, TypeFacts DEF SaveComplete, IInv, PlaceInv, Writing
    <3>2. IsManifest(mem')
      BY <3>1 DEF IsManifest, Committed
    <3>3. QED
      BY <3>1, <3>2 DEF KeepsManifests
  <2>2. code' = "running"
    BY <2>1 DEF IInv, ContentInv, RunInv
  <2>3. QED
    BY <2>1, <2>2 DEF DoneInv, Complete, Writing
<1>4. CASE Close
  <2>1. pc = "close" /\ pend = <<>> /\ (Complete => WholeOutput)
    BY <1>4, WholeAtEnd, WholeAtClose DEF Close, IInv
  <2>2. Len(pend) = 0
    BY <2>1
  <2>3. pc' = "idle" /\ file' = file /\ manifest' = manifest /\ code' = "ok"
    BY <1>4, <2>2 DEF Close, Exit, FlushAll, Flushed
  <2>4. QED
    BY <2>1, <2>3, DoneStays DEF Writing
<1>5. CASE Step /\ ~SaveComplete /\ ~Close
  BY <1>5, DonePrepareResume, DoneWriting
<1>6. ASSUME NEW k \in 0 .. Len(pend), Crash(k)
      PROVE  DoneInv'
  <2>1. pc # "idle" /\ pc' = "idle" /\ file' = Flushed(k) /\ manifest' = manifest
          /\ code' = "died"
    BY <1>6 DEF Crash, Exit
  <2>2. ASSUME Complete PROVE file' = file /\ (pc = "close" => WholeOutput)
    <3>1. pc \in {"verify", "close"}
      BY <2>1, <2>2 DEF DoneInv
    <3>2. pend = <<>>
      BY <3>1 DEF IInv, PlaceInv, InPlace
    <3>3. k = 0
      BY <3>2
    <3>4. QED
      BY <2>1, <2>2, <3>3, WholeAtEnd DEF Flushed
  <2>3. CASE Complete
    BY <2>1, <2>2, <2>3, DoneStays DEF Writing
  <2>4. CASE ~Complete
    BY <2>1, <2>4 DEF DoneInv, Complete, Writing
  <2>5. QED
    BY <2>3, <2>4
<1>7. ASSUME NEW q \in Positions, Corrupt(q)
      PROVE  DoneInv'
  <2>1. /\ pc = "idle" /\ pc' = "idle" /\ manifest' = manifest /\ code' = "none"
        /\ file' = [file EXCEPT !.at[q] = Bad] /\ file \in Files
    BY <1>7 DEF Corrupt, process, IInv, PlaceInv, TypeOK
  <2>2. /\ file'.len = file.len /\ file.len \in 0 .. Capacity /\ Capacity \in Nat
        /\ \A p \in Positions : file'.at[p] \in {file.at[p], Bad}
    BY <2>1, EngineAssumption DEF Files
  <2>3. ASSUME Complete PROVE WholeOutput'
    <3>1. PICK v \in Versions :
            /\ Stat[v] = manifest.stat
            /\ file.len = Size(manifest.plan)
            /\ Held(file, Output[manifest.fmt][v], 0, file.len)
      BY <2>1, <2>3 DEF DoneInv, WholeOutput
    <3>2. \A p \in 0 .. 0 + file.len - 1 : p \in Positions
      BY <2>2 DEF Positions
    <3>3. Held(file', Output[manifest.fmt][v], 0, file'.len)
      BY <2>2, <3>1, <3>2 DEF Held, Readable
    <3>4. QED
      BY <2>1, <2>2, <3>1, <3>3 DEF WholeOutput
  <2>4. QED
    BY <2>1, <2>3 DEF DoneInv, Complete, Writing
<1>8. ASSUME NEW v \in Versions \ {source}, EditSource(v)
      PROVE  DoneInv'
  <2>1. /\ UNCHANGED <<pc, mem, file, manifest>>
        /\ code' = "none" \/ code' = code
    BY <1>8 DEF EditSource, process
  <2>2. QED
    BY <2>1 DEF DoneInv, Complete, WholeOutput
<1>9. CASE Writeback
  BY <1>9 DEF Writeback, KeepsManifests
<1>10. QED
  BY <1>1, <1>2, <1>3, <1>4, <1>5, <1>6, <1>7, <1>8, <1>9 DEF Next, Fault, KeepsManifests

-----------------------------------------------------------------------------
(* The theorems about the record.                                          *)

\* As long as no power is lost and nobody starts afresh over a manifest: what is
\* recorded, saved or in memory, is in the file, and a job that is recorded as
\* complete has its whole output there; for every plan, format and version.
THEOREM RecordHolds == StatIdentifies /\ KeepsManifests /\ Spec => []RecordInv
<1>1. Init => RecordInv
  BY PlaceInit, ContentInit, RecordedInit, BackedInit, DoneInit DEF IInv, RecordInv
<1>2. StatIdentifies /\ KeepsManifests /\ RecordInv /\ [Next]_vars => RecordInv'
  <2>1. SUFFICES ASSUME StatIdentifies, KeepsManifests, RecordInv, [Next]_vars
                 PROVE  RecordInv'
    OBVIOUS
  <2>2. IInv /\ PlaceInv /\ Recorded /\ BackedInv /\ DoneInv
    BY <2>1 DEF RecordInv, IInv
  <2>3. PlaceInv' /\ ContentInv' /\ Recorded' /\ BackedInv' /\ DoneInv'
    BY <2>1, <2>2, PlaceNext, ContentNext, RecordedNext, BackedNext, DoneNext
  <2>4. QED
    BY <2>3 DEF RecordInv, IInv
<1>3. StatIdentifies => []StatIdentifies
  OBVIOUS
<1>4. KeepsManifests => []KeepsManifests
  OBVIOUS
<1>5. QED
  BY <1>1, <1>2, <1>3, <1>4, PTL DEF Spec

\* What the saved manifest vouches for is in the file, but for bytes that have
\* gone bad since: the flush before the hash (engine.py:299) is enough for kills.
THEOREM CommittedIsPresent ==
    StatIdentifies /\ KeepsManifests /\ Spec => []CommittedBytesPresent
<1>1. RecordInv => CommittedBytesPresent
  BY DEF RecordInv, BackedInv, HeaderHeld, TensorsHeld, Held, CommittedBytesPresent, Holds
<1>2. QED
  BY <1>1, RecordHolds, PTL

\* A run never changes intact bytes that the manifest vouches for, so a resume
\* that goes back to a bad tensor does not endanger the good ones behind it:
\* whatever is killed, goes bad or is edited between runs.
THEOREM CommittedStays == StatIdentifies /\ KeepsManifests /\ Spec => CommittedUntouched
<1>1. RecordInv =>
        [Step /\ manifest # NoManifest =>
           /\ HeaderMatches(manifest) =>
                 Region(file'.at, 0, HeaderEnd(manifest.plan)) = manifest.header
           /\ \A i \in Committed(manifest) :
                 TensorMatches(manifest, i) =>
                    Region(file'.at, Offset[manifest.plan][i],
                           Nbytes[manifest.plan][i]) = manifest.sha[i]]_vars
  BY StepLeavesCommitted DEF RecordInv
<1>2. QED
  BY <1>1, RecordHolds, PTL DEF Spec, CommittedUntouched

\* The loop of scripts/kill_resume_test.sh may stop at "already complete": the
\* output is then whole, but for bytes that have gone bad since.
THEOREM AlreadyCompleteIsTrue ==
    StatIdentifies /\ KeepsManifests /\ Spec => []CompleteIsTrue
<1>1. RecordInv => CompleteIsTrue
  <2>1. SUFFICES ASSUME RecordInv, code = "already" PROVE WholeOutput
    BY DEF CompleteIsTrue, WholeOutput, Held, Holds
  <2>2. Complete /\ pc # "close"
    BY <2>1 DEF RecordInv, DoneInv, IInv, ContentInv, RunInv
  <2>3. QED
    BY <2>1, <2>2 DEF RecordInv, DoneInv
<1>2. QED
  BY <1>1, RecordHolds, PTL

-----------------------------------------------------------------------------
(* The job as a whole: resumed again and again, it goes on where it was.   *)

\* What a job is about does not change with its runs.
LEMMA JobFacts ==
    ASSUME RecordInv, JobInv
    PROVE  LET L == PlanOf[fmt][source]
           IN  /\ fmt \in Formats /\ source \in Versions /\ L \in Plans
               /\ Count(L) \in Nat \ {0}
               /\ file \in Files /\ file.len \in Nat
               /\ pc # "idle" => input = source
               /\ pc \in Writing => /\ IsManifest(mem) /\ mem.plan = L
                                    /\ mem.stat = Stat[source] /\ mem.fmt = fmt
                                    /\ tensor \in 1 .. Count(L) + 1
               /\ manifest # NoManifest =>
                     /\ IsManifest(manifest) /\ manifest.plan = L
                     /\ \A i \in Committed(manifest) :
                           manifest.sha[i] = TensorHash(fmt, source, i)
<1> DEFINE L == PlanOf[fmt][source]
<1>1. PlaceInv /\ ContentInv /\ TypeOK
  BY DEF RecordInv, IInv, PlaceInv
<1>2. fmt \in Formats /\ source \in Versions /\ L \in Plans /\ file \in Files
  BY <1>1, OutputIsPlanned DEF TypeOK
<1>3. file.len \in Nat
  BY <1>2, EngineAssumption DEF Files
<1>4. Count(L) \in Nat \ {0}
  BY <1>2, LayoutTypes
<1>5. pc # "idle" => input = source
  BY DEF JobInv
<1>6. ASSUME pc \in Writing
      PROVE  /\ IsManifest(mem) /\ mem.plan = L
             /\ mem.stat = Stat[source] /\ mem.fmt = fmt
             /\ tensor \in 1 .. Count(L) + 1
  <2>1. mem.plan = PlanOf[fmt][input] /\ mem.stat = Stat[input] /\ mem.fmt = fmt
    BY <1>1, <1>6 DEF ContentInv, MemInv
  <2>2. input = source
    BY <1>5, <1>6 DEF Writing
  <2>3. IsManifest(mem) /\ tensor \in 1 .. Count(mem.plan) + 1
    BY <1>1, <1>6 DEF TypeOK, PlaceInv, InPlace
  <2>4. QED
    BY <2>1, <2>2, <2>3
<1>7. ASSUME manifest # NoManifest
      PROVE  /\ IsManifest(manifest) /\ manifest.plan = L
             /\ \A i \in Committed(manifest) :
                   manifest.sha[i] = TensorHash(fmt, source, i)
  <2>1. Truthful(manifest) /\ IsManifest(manifest)
    BY <1>1, <1>7 DEF ContentInv, TypeOK
  <2>2. manifest.stat = Stat[source] /\ manifest.fmt = fmt
    BY <1>7 DEF JobInv
  <2>3. QED
    BY <1>2, <2>1, <2>2 DEF Truthful
<1>8. QED
  BY <1>2, <1>3, <1>4, <1>5, <1>6, <1>7

\* A run is never past the tensor it writes, nor past the header before there
\* is a manifest.
LEMMA TellInRoom ==
    ASSUME RecordInv, JobInv
    PROVE  LET L == PlanOf[fmt][source]
           IN  /\ manifest = NoManifest => tell <= HeaderEnd(L)
               /\ pc \in Writing /\ tensor \in Tensors(L) => tell <= End(L, tensor)
<1> DEFINE L == PlanOf[fmt][source]
<1>1. /\ L \in Plans /\ (pc # "idle" => input = source) /\ (pc \in Writing => mem.plan = L)
      /\ PlaceInv /\ TypeOK /\ InPlace /\ tell \in Nat /\ fpos \in Nat /\ Len(pend) \in Nat
  BY JobFacts, TypeFacts DEF RecordInv, IInv, PlaceInv, TypeOK
<1>2. HeaderLen[L] <= HeaderEnd(L) /\ HeaderEnd(L) \in Nat /\ HeaderLen[L] \in Nat
        /\ 1 \in Tensors(L) /\ 1 \in 1 .. Count(L) + 1 /\ Offset[L][1] = HeaderEnd(L)
  <2>1. 1 \in Tensors(L) /\ 1 \in 1 .. Count(L) + 1
    BY <1>1, LayoutTypes DEF Tensors
  <2>2. QED
    BY <1>1, <2>1, LayoutTypes, HeaderFirst, OffsetAssumption
<1>3. tell + Pad(tell) \in Nat /\ tell <= tell + Pad(tell)
  BY <1>1, PadReachesAlign
<1> HIDE DEF L
<1>4. ASSUME pc \in Writing, tensor \in Tensors(L)
      PROVE  tell <= End(L, tensor)
  <2>1. /\ Offset[L][tensor] \in Nat /\ Nbytes[L][tensor] \in Nat
        /\ End(L, tensor) = Offset[L][tensor] + Nbytes[L][tensor]
    <3>1. tensor \in 1 .. Count(L) + 1
      BY <1>1, <1>4, LayoutTypes DEF Tensors
    <3>2. QED
      BY <1>1, <1>4, <3>1, LayoutTypes DEF End
  <2>2. CASE pc = "tensor"
    <3>1. tell + Pad(tell) = Offset[mem.plan][tensor] /\ mem.plan = L
      BY <1>1, <1>4, <2>2 DEF InPlace
    <3>2. QED
      BY <1>1, <1>3, <2>1, <3>1
  <2>3. CASE pc \in {"initial", "save initial", "check"}
    <3>1. tell = Offset[mem.plan][tensor] /\ mem.plan = L
      BY <1>1, <1>4, <2>3 DEF InPlace
    <3>2. QED
      BY <1>1, <2>1, <3>1
  <2>4. CASE pc = "stream"
    BY <1>1, <1>4, <2>1, <2>4 DEF InPlace, TypeOK
  <2>5. CASE pc = "save commit"
    <3>1. tell = End(mem.plan, tensor) /\ mem.plan = L
      BY <1>1, <1>4, <2>5 DEF InPlace
    <3>2. QED
      BY <1>1, <2>1, <3>1
  <2>6. pc # "close"
    BY <1>1, <1>4 DEF InPlace
  <2>7. QED
    BY <1>4, <2>2, <2>3, <2>4, <2>5, <2>6 DEF Writing
<1>5. ASSUME manifest = NoManifest
      PROVE  tell <= HeaderEnd(L)
  <2>1. CASE pc \in {"idle", "verify", "begin"}
    <3>1. fpos = 0 /\ pend = <<>>
      BY <1>1, <2>1 DEF InPlace, Writing
    <3>2. tell = 0
      BY <3>1 DEF tell
    <3>3. QED
      BY <1>2, <3>2
  <2>2. CASE pc = "header"
    <3>1. fpos = 0 /\ Len(pend) = HeaderLen[L]
      BY <1>1, <2>2 DEF InPlace, Writing, L
    <3>2. QED
      BY <1>2, <3>1 DEF tell
  <2>3. CASE pc = "tensor"
    <3>1. tensor = 1
      BY <1>5, <2>3 DEF JobInv
    <3>2. tell + Pad(tell) = Offset[L][1]
      BY <1>1, <2>3, <3>1 DEF InPlace, Writing
    <3>3. QED
      BY <1>1, <1>2, <1>3, <3>2
  <2>4. CASE pc \in {"initial", "save initial"}
    <3>1. tensor = 1 /\ tell = Offset[mem.plan][tensor] /\ mem.plan = L
      BY <1>1, <2>4 DEF InPlace, Writing
    <3>2. QED
      BY <1>2, <3>1
  <2>5. pc \in {"idle", "verify", "begin", "header", "tensor", "initial", "save initial"}
    BY <1>1, <1>5 DEF JobInv, TypeOK, ControlPoints
  <2>6. QED
    BY <2>1, <2>2, <2>3, <2>4, <2>5
<1>6. QED
  BY <1>4, <1>5 DEF L

\* No byte of the output is bad.
LEMMA OutputNotBad ==
    ASSUME NEW f \in Formats, NEW v \in Versions, NEW p \in Positions
    PROVE  Output[f][v][p] # Bad
<1> DEFINE L == PlanOf[f][v]
           i == CHOOSE i \in {j \in Tensors(L) : p \in Span(L, j)} : TRUE
<1>1. Output[f][v][p] \in {HeaderCell(f, v, p), Zero, DataCell(f, v, i, p - Offset[L][i])}
  BY OutputAt
<1> HIDE DEF i
<1>2. QED
  BY <1>1 DEF HeaderCell, DataCell, Zero, Bad

\* The file a step may leave behind, when it does not start a new one.
Reaches(F) == F = file \/ (pc # "idle" /\ \E k \in 0 .. Len(pend) : F = Flushed(k))

LEMMA StepReaches ==
    ASSUME PlaceInv, Runs, ~BeginData
    PROVE  Reaches(file')
<1>1. Len(pend) \in 0 .. Len(pend) /\ FlushAll = Flushed(Len(pend))
  BY DEF PlaceInv, TypeOK, FlushAll
<1>2. pc # "idle" /\ (file' = FlushAll \/ file' = file \/ \E k \in 0 .. Len(pend) : file' = Flushed(k))
  BY DEF Runs, Step, PrepareResume, AlreadyComplete, Refuse, Unreadable, Accept,
         WriteHeader, BeginTensor, HashHeader, SaveInitial, CheckOffset, StreamChunk,
         HashTensor, SaveCommit, SaveComplete, Close, Crash, Flush, storage
<1>3. QED
  BY <1>1, <1>2 DEF Reaches

\* No step makes a byte bad, and none writes farther than the tensor it is at.
LEMMA ReachesInRoom ==
    ASSUME RecordInv, JobInv, NEW F, Reaches(F)
    PROVE  LET L == PlanOf[fmt][source]
           IN  /\ \A p \in Positions : F.at[p] # Bad
               /\ manifest = NoManifest => F.len <= HeaderEnd(L)
               /\ manifest # NoManifest =>
                     \A b \in 0 .. Count(L) :
                        FirstTensors(b) /\ b < Count(L) => F.len <= End(L, b + 1)
<1> DEFINE L == PlanOf[fmt][source]
           Room(n) == /\ manifest = NoManifest => n <= HeaderEnd(L)
                      /\ manifest # NoManifest =>
                           \A b \in 0 .. Count(L) :
                              FirstTensors(b) /\ b < Count(L) => n <= End(L, b + 1)
<1>1. /\ PlaceInv /\ TypeOK /\ FileOK(file) /\ MemInv /\ RunInv
      /\ fmt \in Formats /\ input \in Versions /\ L \in Plans
      /\ Count(L) \in Nat /\ fpos \in Nat /\ Len(pend) \in Nat /\ tell \in Nat
  BY JobFacts, TypeFacts DEF RecordInv, IInv, ContentInv, PlaceInv, TypeOK
<1>2. Room(file.len) /\ \A p \in Positions : file.at[p] # Bad
  BY DEF JobInv, FirstTensors
<1>3. CASE F = file
  BY <1>2, <1>3
<1>4. ASSUME pc # "idle", NEW k \in 0 .. Len(pend), F = Flushed(k), k # 0
      PROVE  Room(F.len) /\ \A p \in Positions : F.at[p] # Bad
  <2>1. pc \in Writing \cup {"header"}
    <3>1. pend # <<>>
      BY <1>1, <1>4
    <3>2. QED
      BY <1>1, <3>1 DEF PlaceInv, InPlace, TypeOK, ControlPoints, Writing
  <2>2. ASSUME NEW p \in Positions
        PROVE  F.at[p] # Bad
    <3>1. F.at[p] = IF p \in fpos .. fpos + k - 1 THEN pend[p - fpos + 1] ELSE file.at[p]
      BY <1>1, <1>4, FlushedType
    <3>2. CASE p \in fpos .. fpos + k - 1
      <4>1. p \in 0 .. fpos + k - 1
        BY <1>1, <3>2
      <4>2. F.at[p] = Output[fmt][input][p]
        BY <1>1, <1>4, <2>1, <4>1, FlushedContent
      <4>3. QED
        BY <1>1, <4>2, OutputNotBad
    <3>3. QED
      BY <1>2, <3>1, <3>2
  <2>3. F.len = file.len \/ F.len = fpos + k
    BY <1>1, <1>4, FlushedType
  <2>4. fpos + k <= tell
    BY <1>1, <1>4 DEF tell
  <2>5. Room(fpos + k)
    <3>1. manifest = NoManifest => tell <= HeaderEnd(L) /\ HeaderEnd(L) \in Nat
      BY <1>1, TellInRoom, LayoutTypes
    <3>2. ASSUME manifest # NoManifest, NEW b \in 0 .. Count(L), FirstTensors(b), b < Count(L)
          PROVE  tell <= End(L, b + 1) /\ End(L, b + 1) \in Nat
      <4>1. pc # "header"
        BY <3>2 DEF RecordInv, Recorded
      <4>2. tensor = b + 1 /\ pc \in Writing
        BY <2>1, <3>2, <4>1 DEF FirstTensors
      <4>3. b + 1 \in Tensors(L)
        BY <1>1, <3>2 DEF Tensors
      <4>4. tell <= End(L, tensor)
        BY <4>2, <4>3, TellInRoom
      <4>5. End(L, b + 1) \in Nat
        BY <1>1, <4>3, LayoutTypes
      <4>6. QED
        BY <4>2, <4>4, <4>5
    <3> HIDE DEF L
    <3>3. fpos + k \in Nat
      BY <1>1, <1>4
    <3>4. QED
      BY <1>1, <2>4, <3>1, <3>2, <3>3
  <2>6. QED
    BY <1>2, <2>2, <2>3, <2>5
<1>5. Flushed(0) = file
  BY DEF Flushed
<1>6. QED
  BY <1>3, <1>4, <1>5 DEF Reaches

\* What is left to show of a step that saves nothing: where the run is then.
LEMMA JobStep ==
    ASSUME RecordInv, JobInv, fmt' = fmt, source' = source, manifest' = manifest,
           Reaches(file'), pc' = "idle" \/ input' = source',
           pc' \in {"check", "stream", "save commit", "close"} => manifest # NoManifest,
           pc' = "tensor" /\ (resuming' \/ tensor' # 1) => manifest # NoManifest,
           pc' \in Writing =>
              Committed(mem') = 1 .. IF pc' = "save commit" THEN tensor' ELSE tensor' - 1,
           pc' \in Writing /\ manifest # NoManifest =>
              \A b \in 0 .. Count(PlanOf[fmt][source]) : FirstTensors(b) => tensor' = b + 1
    PROVE  JobInv'
<1> DEFINE L == PlanOf[fmt][source]
<1>1. /\ \A p \in Positions : file'.at[p] # Bad
      /\ manifest = NoManifest => file'.len <= HeaderEnd(L)
      /\ manifest # NoManifest =>
            \A b \in 0 .. Count(L) :
               FirstTensors(b) /\ b < Count(L) => file'.len <= End(L, b + 1)
  BY ReachesInRoom
<1>2. ASSUME manifest # NoManifest
      PROVE  /\ manifest'.stat = Stat[source'] /\ manifest'.fmt = fmt'
             /\ \E b \in 0 .. Count(PlanOf[fmt'][source']) : FirstTensors(b)'
  <2>1. PICK b \in 0 .. Count(L) : FirstTensors(b)
    BY <1>2 DEF JobInv
  <2>2. Committed(manifest)' = 1 .. b
    BY <2>1 DEF FirstTensors, Committed
  <2>3. /\ b < Count(L) => file'.len <= End(L, b + 1)
        /\ manifest'.status = "complete" => b = Count(L)
        /\ pc' \in Writing => tensor' = b + 1
    BY <1>1, <1>2, <2>1 DEF FirstTensors
  <2>4. FirstTensors(b)'
    BY <2>2, <2>3 DEF FirstTensors
  <2>5. manifest.stat = Stat[source] /\ manifest.fmt = fmt
    BY <1>2 DEF JobInv
  <2>6. QED
    BY <2>1, <2>4, <2>5
<1>3. Committed(mem)' = Committed(mem')
  BY DEF Committed
<1>4. QED
  BY <1>1, <1>2, <1>3 DEF JobInv

\* A run that is not disturbed keeps the source it has opened.
LEMMA StepKeepsSource ==
    ASSUME JobInv, Step
    PROVE  input' = source'
<1>1. pc # "idle" /\ input' = input /\ source' = source
  BY DEF Step, PrepareResume, AlreadyComplete, Refuse, Unreadable, Accept, BeginData,
         WriteHeader, BeginTensor, HashHeader, SaveInitial, CheckOffset, StreamChunk,
         HashTensor, SaveCommit, SaveComplete, Close, Exit, storage
<1>2. QED
  BY <1>1 DEF JobInv

LEMMA JobInit ==
    ASSUME Init
    PROVE  JobInv
<1>1. /\ pc = "idle" /\ manifest = NoManifest /\ file = EmptyFile
      /\ PlanOf[fmt][source] \in Plans
  BY OutputIsPlanned DEF Init
<1>2. file.len = 0 /\ \A p \in Positions : file.at[p] = Zero
  BY <1>1 DEF EmptyFile
<1>3. HeaderEnd(PlanOf[fmt][source]) \in Nat
  BY <1>1, LayoutTypes
<1>4. 0 <= HeaderEnd(PlanOf[fmt][source])
  BY <1>3
<1>5. QED
  BY <1>1, <1>2, <1>4, CellsDistinct DEF JobInv, Writing

\* A run that ends leaves the file where it was, or a part of its buffer.
LEMMA JobExit ==
    ASSUME RecordInv, JobInv, Exit, source' = source, manifest' = manifest, Reaches(file')
    PROVE  JobInv'
<1>1. pc' = "idle" /\ fmt' = fmt
  BY DEF Exit
<1>2. pc' \notin Writing
  BY <1>1 DEF Writing
<1>3. QED
  BY <1>1, <1>2, JobStep

\* Without bad bytes, what is held is there.
LEMMA HeldIsThere ==
    ASSUME \A p \in Positions : file.at[p] # Bad,
           NEW hash, NEW off, NEW n, NEW cells, off .. off + n - 1 \subseteq Positions,
           hash = Region(cells, off, n), Held(file, hash, off, n)
    PROVE  Readable(file, off, n) /\ Region(file.at, off, n) = hash
<1>1. Readable(file, off, n) /\ \A p \in off .. off + n - 1 : file.at[p] \in {hash[p], Bad}
  BY DEF Held
<1>2. \A p \in off .. off + n - 1 : file.at[p] = hash[p] /\ hash[p] = cells[p]
  BY <1>1 DEF Region
<1>3. QED
  BY <1>1, <1>2 DEF Region

\* Every committed tensor verifies, so a run resumes at the first that is not
\* committed.
LEMMA JobPrepareResume ==
    ASSUME RecordInv, JobInv, PrepareResume
    PROVE  JobInv'
<1> DEFINE L == PlanOf[fmt][source]
<1>1. CASE AlreadyComplete \/ Refuse \/ Unreadable
  <2>1. Exit /\ source' = source /\ manifest' = manifest /\ file' = file
    BY <1>1 DEF AlreadyComplete, Refuse, Unreadable, storage
  <2>2. QED
    BY <2>1, JobExit DEF Reaches
<1>2. ASSUME NEW i \in 1 .. Count(manifest.plan) + 1, Accept(i)
      PROVE  JobInv'
  <2>1. /\ pc' = "tensor" /\ tensor' = i /\ mem' = Without(manifest, i)
        /\ fmt' = fmt /\ file' = file /\ manifest' = manifest /\ source' = source
        /\ ScanStopsAt(manifest, i)
    BY <1>2 DEF Accept, storage
  <2>2. manifest # NoManifest
    BY DEF PrepareResume, RecordInv, IInv, PlaceInv, TypeOK
  <2>3. /\ L \in Plans /\ Count(L) \in Nat /\ IsManifest(manifest) /\ manifest.plan = L
        /\ \A j \in Committed(manifest) : manifest.sha[j] = TensorHash(fmt, source, j)
    BY <2>2, JobFacts
  <2>4. PICK b \in 0 .. Count(L) : FirstTensors(b)
    BY <2>2 DEF JobInv
  <2>5. Committed(manifest) = 1 .. b /\ b \in Nat /\ i \in Nat /\ i >= 1 /\ i <= Count(L) + 1
    BY <2>3, <2>4 DEF FirstTensors
  <2>6. ASSUME NEW j \in Committed(manifest)
        PROVE  Verified(manifest, j)
    <3>1. j \in Tensors(L)
      BY <2>3 DEF IsManifest
    <3>2. Offset[L][j] .. Offset[L][j] + Nbytes[L][j] - 1 \subseteq Positions
      BY <2>3, <3>1, RegionsInCapacity
    <3>3. Held(file, manifest.sha[j], Offset[L][j], Nbytes[L][j])
      BY <2>2, <2>3 DEF RecordInv, BackedInv, TensorsHeld
    <3>4. manifest.sha[j] = Region(Output[fmt][source], Offset[L][j], Nbytes[L][j])
      BY <2>3 DEF TensorHash
    <3>5. /\ Readable(file, Offset[L][j], Nbytes[L][j])
          /\ Region(file.at, Offset[L][j], Nbytes[L][j]) = manifest.sha[j]
      <4>1. \A p \in Positions : file.at[p] # Bad
        BY DEF JobInv
      <4> HIDE DEF L
      <4>2. QED
        BY <3>2, <3>3, <3>4, <4>1, HeldIsThere
    <3>6. QED
      BY <2>3, <3>5 DEF Verified, TensorMatches, TensorReadable
  <2>7. i = b + 1
    <3>1. ~(i <= b)
      <4>1. SUFFICES ASSUME i <= b PROVE FALSE
        OBVIOUS
      <4>2. i \in Committed(manifest) /\ i \in Tensors(manifest.plan)
        BY <2>3, <2>5, <4>1 DEF Tensors
      <4>3. QED
        BY <2>1, <2>6, <4>2 DEF ScanStopsAt
    <3>2. ~(i > b + 1)
      <4>1. SUFFICES ASSUME i > b + 1 PROVE FALSE
        OBVIOUS
      <4>2. b + 1 \in 1 .. i - 1
        BY <2>5, <4>1
      <4>3. b + 1 \in Committed(manifest)
        BY <2>1, <4>2 DEF ScanStopsAt, Verified
      <4>4. QED
        BY <2>5, <4>3
    <3>3. QED
      BY <2>5, <3>1, <3>2
  <2>8. Committed(mem') = 1 .. tensor' - 1
    <3>1. Committed(mem') = Committed(manifest) \ {i}
      BY <2>1, <2>3 DEF Without, Committed, IsManifest
    <3>2. tensor' - 1 = b
      BY <2>1, <2>5, <2>7
    <3>3. QED
      BY <2>5, <2>7, <3>1, <3>2
  <2>9. ASSUME NEW c \in 0 .. Count(L), FirstTensors(c)
        PROVE  tensor' = c + 1
    <3>1. 1 .. c = 1 .. b /\ c \in Nat
      BY <2>3, <2>5, <2>9 DEF FirstTensors
    <3>2. c = b
      BY <2>5, <3>1
    <3>3. QED
      BY <2>1, <2>7, <3>2
  <2>10. input' = source'
    BY StepKeepsSource DEF Step
  <2>11. QED
    BY <2>1, <2>2, <2>8, <2>9, <2>10, JobStep DEF Reaches
<1>3. QED
  BY <1>1, <1>2 DEF PrepareResume

\* A fresh run truncates the output: no tensor has been saved, none is there.
LEMMA JobBeginData ==
    ASSUME RecordInv, JobInv, BeginData
    PROVE  JobInv'
<1>1. /\ manifest' = NoManifest /\ pc' = "header" /\ file' = EmptyFile
      /\ fmt' = fmt /\ source' = source /\ HeaderEnd(PlanOf[fmt][source]) \in Nat
  BY JobFacts, LayoutTypes DEF BeginData, RecordInv, Recorded
<1>2. file'.len = 0 /\ \A p \in Positions : file'.at[p] = Zero
  BY <1>1 DEF EmptyFile
<1>3. file'.len <= HeaderEnd(PlanOf[fmt][source])
  BY <1>1, <1>2
<1>4. input' = source'
  BY StepKeepsSource DEF Step
<1>5. QED
  BY <1>1, <1>2, <1>3, <1>4, CellsDistinct DEF JobInv, Writing

\* Steps within a tensor.
LEMMA JobWithin ==
    ASSUME RecordInv, JobInv, Step, Reaches(file'),
           BeginTensor \/ HashHeader \/ CheckOffset \/ HashTensor
             \/ \E n \in 1 .. Capacity : StreamChunk(n)
    PROVE  JobInv'
<1> DEFINE L == PlanOf[fmt][source]
<1>1. pc \in Writing /\ pc \notin {"save commit", "close", "save initial"}
  BY DEF BeginTensor, HashHeader, CheckOffset, HashTensor, StreamChunk, Writing
<1>2. /\ L \in Plans /\ Count(L) \in Nat /\ IsManifest(mem) /\ mem.plan = L
      /\ tensor \in 1 .. Count(L) + 1 /\ Committed(mem) = 1 .. tensor - 1
  BY <1>1, JobFacts DEF JobInv
<1>3. \A b \in 0 .. Count(L) : manifest # NoManifest /\ FirstTensors(b) => tensor = b + 1
  BY <1>1 DEF FirstTensors
<1>10. input' = source'
  BY StepKeepsSource
<1>4. CASE BeginTensor
  <2>1. /\ pc = "tensor" /\ pc' \in {"initial", "check"} /\ mem' = mem /\ tensor' = tensor
        /\ fmt' = fmt /\ source' = source /\ manifest' = manifest
        /\ pc' = "check" => resuming \/ tensor # 1
    BY <1>4 DEF BeginTensor, storage
  <2>2. pc' = "check" => manifest # NoManifest
    BY <2>1 DEF JobInv
  <2>3. QED
    BY <1>2, <1>3, <2>1, <2>2, <1>10, JobStep
<1>5. CASE HashHeader
  <2>1. /\ pc' = "save initial" /\ tensor' = tensor
        /\ mem' = [mem EXCEPT !.header = Region(FlushAll.at, 0, HeaderEnd(mem.plan))]
        /\ fmt' = fmt /\ source' = source /\ manifest' = manifest
    BY <1>5 DEF HashHeader
  <2>2. Committed(mem') = Committed(mem)
    BY <1>2, <2>1 DEF IsManifest, Committed
  <2>3. QED
    BY <1>2, <1>3, <2>1, <2>2, <1>10, JobStep
<1>6. CASE CheckOffset
  <2>1. pc = "check" /\ tell = Offset[mem.plan][tensor]
    BY <1>6 DEF CheckOffset, RecordInv, IInv, PlaceInv, InPlace
  <2>2. /\ pc' = "stream" /\ mem' = mem /\ tensor' = tensor
        /\ fmt' = fmt /\ source' = source /\ manifest' = manifest
    BY <1>6, <2>1 DEF CheckOffset, storage
  <2>3. manifest # NoManifest
    BY <2>1 DEF JobInv
  <2>4. QED
    BY <1>2, <1>3, <2>2, <2>3, <1>10, JobStep
<1>7. CASE \E n \in 1 .. Capacity : StreamChunk(n)
  <2>1. /\ pc = "stream" /\ pc' = "stream" /\ mem' = mem /\ tensor' = tensor
        /\ fmt' = fmt /\ source' = source /\ manifest' = manifest
    BY <1>7 DEF StreamChunk, storage
  <2>2. manifest # NoManifest
    BY <2>1 DEF JobInv
  <2>3. QED
    BY <1>2, <1>3, <2>1, <2>2, <1>10, JobStep
<1>8. CASE HashTensor
  <2> DEFINE hash == Region(FlushAll.at, Offset[mem.plan][tensor], Nbytes[mem.plan][tensor])
  <2>1. /\ pc = "stream" /\ pc' = "save commit" /\ tensor' = tensor
        /\ mem' = WithHash(mem, tensor, hash)
        /\ fmt' = fmt /\ source' = source /\ manifest' = manifest
    BY <1>8 DEF HashTensor
  <2>2. manifest # NoManifest
    BY <2>1 DEF JobInv
  <2> HIDE DEF hash
  <2>3. Committed(mem') = Committed(mem) \cup {tensor}
    BY <1>2, <2>1 DEF Committed, WithHash, IsManifest
  <2>4. Committed(mem') = 1 .. tensor
    BY <1>2, <2>3
  <2>5. QED
    BY <1>2, <1>3, <2>1, <2>2, <2>4, <1>10, JobStep
<1>9. QED
  BY <1>4, <1>5, <1>6, <1>7, <1>8

\* A save: the manifest on the disk becomes the one in memory.
LEMMA JobSave ==
    ASSUME RecordInv, JobInv, OneJob, SaveInitial \/ SaveCommit \/ SaveComplete
    PROVE  JobInv'
<1> DEFINE L == PlanOf[fmt][source]
<1>1. pc \in {"save initial", "save commit", "tensor"} /\ pc \in Writing
  BY DEF SaveInitial, SaveCommit, SaveComplete, Writing
<1>2. /\ L \in Plans /\ Count(L) \in Nat /\ IsManifest(mem) /\ mem.plan = L
      /\ mem.stat = Stat[source] /\ mem.fmt = fmt
      /\ tensor \in 1 .. Count(L) + 1
      /\ Committed(mem) = 1 .. IF pc = "save commit" THEN tensor ELSE tensor - 1
      /\ mem.status # "complete"
  BY <1>1, JobFacts DEF JobInv, RecordInv, DoneInv
<1>0. Count(L) \in Nat \ {0} /\ tensor \in 1 .. Count(L) + 1 /\ L \in Plans
  BY <1>1, JobFacts
<1>3. /\ manifest' = mem' /\ file' = file /\ fmt' = fmt /\ source' = source
      /\ mem' = mem \/ (SaveComplete /\ mem' = [mem EXCEPT !.status = "complete"])
  BY DEF SaveInitial, SaveCommit, SaveComplete
<1>4. /\ IsManifest(mem') /\ mem'.stat = Stat[source] /\ mem'.fmt = fmt
      /\ Committed(mem') = Committed(mem) /\ manifest' # NoManifest
  <2>1. /\ IsManifest(mem') /\ mem'.stat = mem.stat /\ mem'.fmt = mem.fmt
        /\ Committed(mem') = Committed(mem)
    BY <1>2, <1>3 DEF IsManifest, Committed
  <2>2. QED
    BY <1>2, <1>3, <2>1 DEF OneJob
<1>5. input' = source' /\ \A p \in Positions : file'.at[p] # Bad
  BY <1>3, StepKeepsSource DEF Step, JobInv
<1>6. ASSUME NEW b \in 0 .. Count(L), Committed(mem') = 1 .. b,
             b < Count(L) => file.len <= End(L, b + 1),
             mem'.status = "complete" => b = Count(L), tensor' = b + 1,
             pc' # "save commit"
      PROVE  JobInv'
  <2>1. FirstTensors(b)'
    <3>1. Committed(manifest)' = 1 .. b
      BY <1>3, <1>6 DEF Committed
    <3>2. QED
      BY <1>3, <1>6, <3>1 DEF FirstTensors
  <2>2. Committed(mem)' = 1 .. tensor' - 1
    <3>1. tensor' - 1 = b
      <4>1. b \in Nat
        BY <1>0
      <4>2. tensor' = b + 1
        BY <1>6
      <4>3. QED
        BY <4>1, <4>2
    <3>2. QED
      BY <1>6, <3>1 DEF Committed
  <2>3. QED
    BY <1>3, <1>4, <1>5, <1>6, <2>1, <2>2 DEF JobInv
<1>7. CASE SaveInitial
  <2>1. manifest = NoManifest /\ tensor = 1 /\ tensor' = 1 /\ mem' = mem /\ pc' = "check"
    BY <1>7 DEF SaveInitial, RecordInv, Recorded, IInv, PlaceInv, InPlace
  <2>2. 0 \in 0 .. Count(L) /\ 1 .. 0 = 1 .. tensor - 1 /\ tensor' = 0 + 1
    BY <1>0, <2>1
  <2>3. file.len <= End(L, 0 + 1)
    <3>1. file.len <= HeaderEnd(L) /\ file.len \in Nat
      BY <2>1, JobFacts DEF JobInv
    <3>2. 1 \in Tensors(L) /\ 1 \in 1 .. Count(L) + 1
      BY <1>0 DEF Tensors
    <3>3. /\ HeaderEnd(L) <= Offset[L][1] /\ Offset[L][1] < End(L, 1)
          /\ HeaderEnd(L) \in Nat /\ Offset[L][1] \in Nat /\ End(L, 1) \in Nat
      BY <1>2, <3>2, LayoutTypes, HeaderFirst
    <3>4. file.len <= End(L, 1)
      BY <3>1, <3>3
    <3>5. QED
      BY <3>4
  <2>4. Committed(mem') = 1 .. 0
    <3>1. pc # "save commit"
      BY <1>7 DEF SaveInitial
    <3>2. QED
      BY <1>2, <1>4, <2>2, <3>1
  <2>5. QED
    BY <1>2, <1>6, <2>1, <2>2, <2>3, <2>4
<1>8. CASE SaveCommit
  <2>1. pc = "save commit" /\ pc' = "tensor" /\ tensor' = tensor + 1 /\ mem' = mem
    BY <1>8 DEF SaveCommit
  <2>2. manifest # NoManifest /\ tensor \in Tensors(L)
    <3>1. InPlace /\ pc \in Writing \ {"tensor", "close"}
      BY <1>1, <2>1 DEF RecordInv, IInv, PlaceInv
    <3>2. tensor \in Tensors(mem.plan)
      BY <3>1 DEF InPlace
    <3>3. QED
      BY <1>2, <2>1, <3>2 DEF JobInv
  <2>3. PICK b \in 0 .. Count(L) : FirstTensors(b)
    BY <2>2 DEF JobInv
  <2>4. tensor = b + 1 /\ tensor \in 0 .. Count(L) /\ b < Count(L)
    <3>1. tensor = b + 1
      BY <1>1, <2>3 DEF FirstTensors
    <3> HIDE DEF L
    <3>2. QED
      BY <1>0, <2>2, <3>1 DEF Tensors
  <2>5. ASSUME tensor < Count(L)
        PROVE  file.len <= End(L, tensor + 1)
    <3>1. file.len <= End(L, tensor) /\ file.len \in Nat
      BY <2>3, <2>4, JobFacts DEF FirstTensors
    <3>2. tensor + 1 \in Tensors(L) /\ tensor + 1 \in 1 .. Count(L) + 1
            /\ tensor + 1 \in tensor + 1 .. Count(L) + 1
      BY <1>0, <2>2, <2>5 DEF Tensors
    <3>3. /\ End(L, tensor) <= Offset[L][tensor + 1]
          /\ Offset[L][tensor + 1] < End(L, tensor + 1)
          /\ End(L, tensor) \in Nat /\ Offset[L][tensor + 1] \in Nat
          /\ End(L, tensor + 1) \in Nat
      BY <1>2, <2>2, <3>2, TensorsInOrder, LayoutTypes
    <3> HIDE DEF L
    <3>4. QED
      BY <3>1, <3>3
  <2>6. QED
    BY <1>2, <1>4, <1>6, <2>1, <2>4, <2>5
<1>9. CASE SaveComplete
  <2>1. /\ pc = "tensor" /\ pc' = "close" /\ tensor' = tensor
        /\ tensor \notin Tensors(mem.plan)
    BY <1>9 DEF SaveComplete
  <2>2. tensor = Count(L) + 1 /\ Count(L) \in 0 .. Count(L) /\ tensor - 1 = Count(L)
    <3>1. tensor \notin Tensors(L)
      BY <1>2, <2>1
    <3> HIDE DEF L
    <3>2. QED
      BY <1>0, <3>1 DEF Tensors
  <2>3. Committed(mem') = 1 .. Count(L)
    <3>1. Committed(mem) = 1 .. tensor - 1
      BY <1>2, <2>1
    <3>2. QED
      BY <1>4, <2>2, <3>1
  <2> HIDE DEF L
  <2>4. QED
    BY <1>2, <1>6, <2>1, <2>2, <2>3
<1>10. QED
  BY <1>7, <1>8, <1>9

LEMMA JobNext ==
    ASSUME OneJob, RecordInv, JobInv, [Next]_vars
    PROVE  JobInv'
<1>1. PlaceInv /\ fmt \in Formats
  BY DEF RecordInv, IInv, PlaceInv, TypeOK
<1>2. CASE UNCHANGED vars
  BY <1>2 DEF vars, process, storage, JobInv, FirstTensors, Committed
<1>3. ASSUME NEW resume \in BOOLEAN, NEW f \in Formats, Start(resume, f)
      PROVE  JobInv'
  <2>1. fmt' = fmt
    BY <1>1, <1>3 DEF Start, OneJob
  <2>2. /\ source' = source /\ manifest' = manifest /\ file' = file
        /\ pc' \in {"verify", "begin"} /\ input' = source'
    BY <1>3 DEF Start, storage
  <2>3. QED
    BY <2>1, <2>2, JobStep DEF Reaches, Writing
<1>4. ASSUME NEW k \in 0 .. Len(pend), Crash(k)
      PROVE  JobInv'
  <2>1. Exit /\ source' = source /\ manifest' = manifest /\ pc # "idle" /\ file' = Flushed(k)
    BY <1>4 DEF Crash
  <2>2. QED
    BY <2>1, JobExit DEF Reaches
<1>5. CASE Step
  <2>1. ~BeginData => Reaches(file')
    BY <1>1, <1>5, StepReaches DEF Runs
  <2>2. CASE WriteHeader
    <3>1. /\ pc' = "tensor" /\ resuming' = resuming /\ tensor' = tensor /\ mem' = NewManifest
          /\ fmt' = fmt /\ source' = source /\ manifest' = manifest /\ ~BeginData
      BY <2>2 DEF WriteHeader, BeginData
    <3>2. ~resuming /\ tensor = 1 /\ manifest = NoManifest
      BY <1>1, <2>2 DEF WriteHeader, PlaceInv, InPlace, Writing, RecordInv, Recorded
    <3>3. Committed(mem') = 1 .. tensor' - 1
      BY <3>1, <3>2 DEF NewManifest, Committed
    <3>4. QED
      BY <1>5, <2>1, <3>1, <3>2, <3>3, StepKeepsSource, JobStep
  <2>3. CASE Close
    BY <2>1, <2>3, JobExit DEF Close, BeginData
  <2>4. ASSUME BeginTensor \/ HashHeader \/ CheckOffset \/ HashTensor
                 \/ \E n \in 1 .. Capacity : StreamChunk(n)
        PROVE  JobInv'
    <3>1. ~BeginData
      BY <2>4 DEF BeginData, BeginTensor, HashHeader, CheckOffset, HashTensor, StreamChunk
    <3>2. QED
      BY <1>5, <2>1, <2>4, <3>1, JobWithin
  <2>5. QED
    BY <1>5, <2>2, <2>3, <2>4, JobPrepareResume, JobBeginData, JobSave DEF Step
<1>6. CASE Fault
  <2>1. SwapPoints = {} /\ \A x \in {"powerloss", "corrupt", "edit"} : x \notin Faults
    BY DEF OneJob
  <2>2. ~Writeback /\ (\A p \in Positions : ~Corrupt(p))
          /\ (\A v \in Versions \ {source} : ~EditSource(v))
    BY <2>1 DEF Writeback, Corrupt, EditSource
  <2>3. QED
    BY <1>4, <1>6, <2>1, <2>2 DEF Fault
<1>7. QED
  BY <1>2, <1>3, <1>5, <1>6 DEF Next
-----------------------------------------------------------------------------
(* The abstract job: what is stored, and what is banked.                   *)

\* Tensor i is in file F as an uninterrupted run would have written it.
Whole(F, i) ==
    LET L == PlanOf[fmt][source]
    IN  /\ Readable(F, Offset[L][i], Nbytes[L][i])
        /\ Region(F.at, Offset[L][i], Nbytes[L][i]) = TensorHash(fmt, source, i)

\* b tensors are saved.
SavedAre(b) == IF manifest = NoManifest THEN b = 0 ELSE FirstTensors(b)

\* How many elements come before the first that is not in W.
LEMMA LeadingCount ==
    ASSUME NEW n \in Nat, NEW b \in 0 .. n, NEW W, 1 .. b \subseteq W,
           \A i \in b + 2 .. n : i \notin W
    PROVE  Cardinality({i \in 1 .. n : \A j \in 1 .. i : j \in W})
             = IF b < n /\ b + 1 \in W THEN b + 1 ELSE b
<1> DEFINE k == IF b < n /\ b + 1 \in W THEN b + 1 ELSE b
           Led == {i \in 1 .. n : \A j \in 1 .. i : j \in W}
<1>1. b \in Nat /\ b <= n /\ k \in Nat
  OBVIOUS
<1>2. 1 .. k \subseteq Led
  <2>1. ASSUME NEW i \in 1 .. k PROVE i \in 1 .. n /\ \A j \in 1 .. i : j \in W
    <3>1. i \in 1 .. n
      BY <1>1, <2>1
    <3>2. ASSUME NEW j \in 1 .. i PROVE j \in W
      <4>1. CASE j \in 1 .. b
        BY <4>1
      <4>2. CASE j \notin 1 .. b
        <5>1. b < n /\ b + 1 \in W /\ j = b + 1
          BY <1>1, <2>1, <3>2, <4>2
        <5>2. QED
          BY <5>1
      <4>3. QED
        BY <4>1, <4>2
    <3>3. QED
      BY <3>1, <3>2
  <2>2. QED
    BY <2>1
<1>3. Led \subseteq 1 .. k
  <2>1. ASSUME NEW i \in Led PROVE i \in 1 .. k
    <3>1. i \in 1 .. n /\ i \in 1 .. i /\ i \in W
      OBVIOUS
    <3>2. i \notin b + 2 .. n
      BY <3>1
    <3>3. i <= b + 1
      BY <1>1, <3>1, <3>2
    <3>4. QED
      BY <1>1, <3>1, <3>3
  <2>2. QED
    BY <2>1
<1>4. Led = 1 .. k
  BY <1>2, <1>3
<1> HIDE DEF k
<1>5. Cardinality(1 .. k) = k
  BY <1>1, FS_Interval
<1>6. QED
  BY <1>4, <1>5 DEF k

\* The saved tensors are in the file, and at most one more.
LEMMA StoredCount ==
    RecordInv /\ JobInv =>
      LET L == PlanOf[fmt][source]
      IN  \A b \in 0 .. Count(L) :
            SavedAre(b) =>
              /\ Stored = IF b < Count(L) /\ Whole(file, b + 1) THEN b + 1 ELSE b
              /\ manifest = NoManifest => Stored = 0
              /\ manifest # NoManifest => Cardinality(Committed(manifest)) = b
<1> DEFINE L == PlanOf[fmt][source]
<1> SUFFICES ASSUME RecordInv, JobInv, NEW b \in 0 .. Count(L), SavedAre(b)
             PROVE  /\ Stored = IF b < Count(L) /\ Whole(file, b + 1) THEN b + 1 ELSE b
                    /\ manifest = NoManifest => Stored = 0
                    /\ manifest # NoManifest => Cardinality(Committed(manifest)) = b
  OBVIOUS
<1>1. L \in Plans /\ Count(L) \in Nat \ {0} /\ file.len \in Nat /\ b \in Nat /\ b <= Count(L)
  BY JobFacts
<1> DEFINE W == {i \in Tensors(L) : Whole(file, i)}
<1>2. ASSUME NEW i \in 1 .. b
      PROVE  i \in W
  <2>1. manifest # NoManifest /\ FirstTensors(b) /\ i \in Tensors(L)
    BY <1>1, <1>2 DEF SavedAre, Tensors
  <2>2. i \in Committed(manifest)
    BY <1>2, <2>1 DEF FirstTensors
  <2>3. manifest.plan = L /\ manifest.sha[i] = TensorHash(fmt, source, i)
    BY <2>1, <2>2, JobFacts
  <2>4. Held(file, manifest.sha[i], Offset[L][i], Nbytes[L][i])
    BY <2>1, <2>2, <2>3 DEF RecordInv, BackedInv, TensorsHeld
  <2>5. Offset[L][i] .. Offset[L][i] + Nbytes[L][i] - 1 \subseteq Positions
    BY <1>1, <2>1, RegionsInCapacity
  <2>6. manifest.sha[i] = Region(Output[fmt][source], Offset[L][i], Nbytes[L][i])
    BY <2>3 DEF TensorHash
  <2>7. \A p \in Positions : file.at[p] # Bad
    BY DEF JobInv
  <2>8. /\ Readable(file, Offset[L][i], Nbytes[L][i])
        /\ Region(file.at, Offset[L][i], Nbytes[L][i]) = manifest.sha[i]
    <3> HIDE DEF L
    <3>1. QED
      BY <2>4, <2>5, <2>6, <2>7, HeldIsThere
  <2>9. QED
    BY <2>1, <2>3, <2>8 DEF Whole
\* The file ends at or before the end of the next tensor, and before the first
\* one when there is no manifest.
<1>3. ASSUME NEW i \in Tensors(L), IF manifest = NoManifest THEN TRUE ELSE i >= b + 2
      PROVE  i \notin W
  <2>1. /\ i \in Nat /\ i >= 1 /\ i <= Count(L) /\ i \in 1 .. Count(L) + 1
        /\ Offset[L][i] \in Nat /\ Nbytes[L][i] \in Nat \ {0}
    <3>1. i \in Nat /\ i >= 1 /\ i <= Count(L) /\ i \in 1 .. Count(L) + 1
      BY <1>1, <1>3 DEF Tensors
    <3>2. QED
      BY <1>1, <3>1, LayoutTypes
  <2>2. file.len <= Offset[L][i]
    <3>1. CASE manifest = NoManifest
      <4>1. file.len <= HeaderEnd(L) /\ HeaderEnd(L) \in Nat
        BY <1>1, <3>1, LayoutTypes DEF JobInv
      <4>2. HeaderEnd(L) <= Offset[L][i]
        BY <1>1, <2>1, HeaderFirst
      <4> HIDE DEF L
      <4>3. QED
        BY <1>1, <2>1, <4>1, <4>2
    <3>2. CASE manifest # NoManifest
      <4>1. b + 1 \in Tensors(L) /\ b < Count(L) /\ i \in (b + 1) + 1 .. Count(L) + 1
        BY <1>1, <1>3, <2>1, <3>2 DEF Tensors
      <4>2. End(L, b + 1) \in Nat /\ End(L, b + 1) <= Offset[L][i]
        BY <1>1, <4>1, TensorsInOrder, LayoutTypes
      <4>3. file.len <= End(L, b + 1)
        BY <3>2, <4>1 DEF SavedAre, FirstTensors
      <4> HIDE DEF L
      <4>4. QED
        BY <1>1, <2>1, <4>2, <4>3
    <3>3. QED
      BY <3>1, <3>2
  <2>3. ~Readable(file, Offset[L][i], Nbytes[L][i])
    <3> HIDE DEF L
    <3>1. QED
      BY <1>1, <2>1, <2>2 DEF Readable
  <2>4. QED
    BY <2>3 DEF Whole
<1>4. Stored = Cardinality({i \in 1 .. Count(L) : \A j \in 1 .. i : j \in W})
  <2>1. Stored = Cardinality({i \in Tensors(L) : \A j \in 1 .. i : Whole(file, j)})
    BY DEF Stored, Whole
  <2>2. ASSUME NEW i \in 1 .. Count(L), NEW j \in 1 .. i
        PROVE  j \in Tensors(L)
    BY <1>1, <2>2 DEF Tensors
  <2>3. {i \in Tensors(L) : \A j \in 1 .. i : Whole(file, j)}
          = {i \in 1 .. Count(L) : \A j \in 1 .. i : j \in W}
    BY <2>2 DEF Tensors
  <2>4. QED
    BY <2>1, <2>3
<1>5. b + 1 \in W <=> (b < Count(L) /\ Whole(file, b + 1))
  BY <1>1 DEF Tensors
<1>6. \A i \in b + 2 .. Count(L) : i \notin W
  <2>1. ASSUME NEW i \in b + 2 .. Count(L) PROVE i \in Tensors(L) /\ i >= b + 2
    BY <1>1, <2>1 DEF Tensors
  <2>2. QED
    BY <1>3, <2>1
<1> HIDE DEF L, W
<1>7. Stored = IF b < Count(L) /\ b + 1 \in W THEN b + 1 ELSE b
  BY <1>1, <1>2, <1>4, <1>6, LeadingCount
<1>8. ASSUME manifest = NoManifest
      PROVE  Stored = 0
  <2>1. b = 0 /\ b + 1 = 1 /\ 1 \in Tensors(L)
    BY <1>1, <1>8 DEF SavedAre, Tensors
  <2>2. b + 1 \notin W
    BY <1>3, <1>8, <2>1
  <2>3. QED
    BY <1>7, <2>1, <2>2
<1>9. ASSUME manifest # NoManifest
      PROVE  Cardinality(Committed(manifest)) = b
  <2>1. Committed(manifest) = 1 .. b
    BY <1>9 DEF SavedAre, FirstTensors
  <2>2. QED
    BY <1>1, <2>1, FS_Interval
<1>10. QED
  BY <1>5, <1>7, <1>8, <1>9 DEF L

LEMMA StoredCountNext ==
    (RecordInv /\ JobInv =>
      LET L == PlanOf[fmt][source]
      IN  \A b \in 0 .. Count(L) :
            SavedAre(b) =>
              /\ Stored = IF b < Count(L) /\ Whole(file, b + 1) THEN b + 1 ELSE b
              /\ manifest = NoManifest => Stored = 0
              /\ manifest # NoManifest => Cardinality(Committed(manifest)) = b)'
  BY StoredCount, PTL

\* There is such a b.
LEMMA SavedExists ==
    ASSUME RecordInv, JobInv
    PROVE  \E b \in 0 .. Count(PlanOf[fmt][source]) : SavedAre(b)
<1>1. Count(PlanOf[fmt][source]) \in Nat
  BY JobFacts
<1>2. CASE manifest = NoManifest
  BY <1>1, <1>2 DEF SavedAre
<1>3. CASE manifest # NoManifest
  BY <1>3 DEF SavedAre, JobInv
<1>4. QED
  BY <1>2, <1>3

\* A tensor that is whole stays whole.
LEMMA WholeStays ==
    ASSUME RecordInv, JobInv, Runs, manifest # NoManifest, fmt' = fmt, source' = source,
           NEW i \in Tensors(PlanOf[fmt][source]), Whole(file, i)
    PROVE  Whole(file', i)
<1> DEFINE L == PlanOf[fmt][source]
           off == Offset[L][i]
           n == Nbytes[L][i]
<1>1. /\ L \in Plans /\ IInv /\ Recorded /\ HasManifest /\ (pc # "idle" => input = source)
      /\ off \in Nat /\ n \in Nat /\ off .. off + n - 1 \subseteq Positions
  BY JobFacts, RegionsInCapacity DEF RecordInv, HasManifest
<1>2. pc \in Writing =>
         TensorHash(fmt, source, i) = Region(Output[fmt][input], off, n)
  BY <1>1 DEF TensorHash, Writing
<1>3. file.len <= file'.len /\ file.len \in Nat /\ file'.len \in Nat
  <2>1. PlaceInv /\ PlaceInv'
    BY <1>1, PlaceNext DEF IInv, Next, Fault, Runs
  <2>2. file \in Files /\ file' \in Files /\ Capacity \in Nat
    BY <2>1, EngineAssumption DEF PlaceInv, TypeOK
  <2>3. QED
    BY <1>1, <2>2, RunKeeps DEF Files
<1>4. Readable(file, off, n) /\ Region(file.at, off, n) = TensorHash(fmt, source, i)
  BY DEF Whole
<1> HIDE DEF off, n
<1>5. Region(file'.at, off, n) = TensorHash(fmt, source, i)
  BY <1>1, <1>2, <1>4, RegionStays
<1>6. Readable(file', off, n)
  BY <1>1, <1>3, <1>4 DEF Readable
<1>7. QED
  BY <1>5, <1>6 DEF Whole, off, n

\* A step that saves nothing stores a tensor or nothing the observer sees.
LEMMA StoreOrStutter ==
    ASSUME RecordInv, JobInv, RecordInv', JobInv',
           fmt' = fmt, source' = source, manifest' = manifest,
           manifest # NoManifest => Runs \/ file' = file
    PROVE  [Job!Store]_(Job!vars)
<1> DEFINE L == PlanOf[fmt][source]
<1>1. Count(L) \in Nat /\ (manifest # NoManifest => IsManifest(manifest))
  BY JobFacts
<1>2. PICK b \in 0 .. Count(L) : SavedAre(b)
  BY SavedExists
<1>3. SavedAre(b)' /\ b \in 0 .. Count(L)'
  <2>1. CASE manifest = NoManifest
    BY <1>2, <2>1 DEF SavedAre
  <2>2. CASE manifest # NoManifest
    <3>1. PICK c \in 0 .. Count(L) : FirstTensors(c)'
      BY <2>2 DEF JobInv
    <3>2. 1 .. c = 1 .. b
      BY <1>2, <2>2, <3>1 DEF SavedAre, FirstTensors, Committed
    <3>3. c = b
      BY <1>1, <3>2
    <3>4. QED
      BY <2>2, <3>1, <3>3 DEF SavedAre
  <2>3. QED
    BY <2>1, <2>2
<1>4. /\ Stored = IF b < Count(L) /\ Whole(file, b + 1) THEN b + 1 ELSE b
      /\ manifest = NoManifest => Stored = 0
      /\ manifest # NoManifest => Cardinality(Committed(manifest)) = b
  BY <1>2, StoredCount
<1>5. /\ Stored' = IF b < Count(L) /\ Whole(file, b + 1)' THEN b + 1 ELSE b
      /\ manifest = NoManifest => Stored' = 0
  BY <1>3, StoredCountNext
<1>6. CASE Stored' = Stored
  BY <1>6 DEF Job!vars, Committed
<1>7. CASE Stored' # Stored
  <2>1. manifest # NoManifest
    BY <1>4, <1>5, <1>7
  <2>2. b < Count(L) /\ b \in Nat /\ b + 1 \in Tensors(L)
    BY <1>1, <1>4, <1>5, <1>7 DEF Tensors
  <2>3. FirstTensors(b)
    BY <1>2, <2>1 DEF SavedAre
  <2>4. manifest.status = "in_progress"
    BY <1>1, <2>1, <2>2, <2>3 DEF FirstTensors, IsManifest
  <2>5. ASSUME Whole(file, b + 1)
        PROVE  Whole(file, b + 1)'
    <3>1. Whole(file', b + 1)
      BY <2>1, <2>2, <2>5, WholeStays
    <3>2. QED
      BY <3>1 DEF Whole
  <2>6. Stored = b /\ Stored' = b + 1
    BY <1>4, <1>5, <1>7, <2>2, <2>5
  <2>7. Job!Store
    BY <1>4, <2>1, <2>2, <2>4, <2>6 DEF Job!Store, Committed
  <2>8. QED
    BY <2>7
<1>8. QED
  BY <1>6, <1>7

\* The three kinds of save are the three steps of the checkpoint.
LEMMA SaveIsStep ==
    ASSUME OneJob, RecordInv, JobInv, RecordInv', JobInv',
           SaveInitial \/ SaveCommit \/ SaveComplete
    PROVE  Job!Next
<1> DEFINE L == PlanOf[fmt][source]
<1>1. /\ pc \in {"save initial", "save commit", "tensor"} /\ pc \in Writing
      /\ fmt' = fmt /\ source' = source /\ file' = file /\ manifest' = mem'
  BY DEF SaveInitial, SaveCommit, SaveComplete, Writing
<1>2. /\ L \in Plans /\ Count(L) \in Nat \ {0} /\ IsManifest(mem) /\ mem.plan = L
      /\ tensor \in 1 .. Count(L) + 1
  BY <1>1, JobFacts
<1>3. /\ mem.status = "in_progress"
      /\ manifest # NoManifest => manifest.status = "in_progress"
  <2>1. mem.status # "complete" /\ ~Complete
    BY <1>1 DEF RecordInv, DoneInv
  <2>2. manifest # NoManifest => IsManifest(manifest)
    BY JobFacts
  <2>3. QED
    BY <1>2, <2>1, <2>2 DEF Complete, IsManifest
<1>4. Stored' = Stored
  BY <1>1 DEF Stored, Readable
<1>5. Count(PlanOf[fmt'][source']) = Count(L)
  BY <1>1
<1>6. manifest' # NoManifest
  <2>1. IsManifest(mem')
    BY <1>2 DEF SaveInitial, SaveCommit, SaveComplete, IsManifest, Committed
  <2>2. QED
    BY <1>1, <2>1 DEF OneJob
<1>7. PICK b \in 0 .. Count(L) : SavedAre(b)
  BY SavedExists
<1>8. b \in Nat /\ Stored = (IF b < Count(L) /\ Whole(file, b + 1) THEN b + 1 ELSE b)
        /\ (manifest = NoManifest => Stored = 0)
        /\ (manifest # NoManifest => Cardinality(Committed(manifest)) = b)
  BY <1>2, <1>7, StoredCount
<1>9. CASE SaveInitial
  <2>1. manifest = NoManifest /\ pc = "save initial" /\ tensor = 1 /\ manifest' = mem
    BY <1>9 DEF SaveInitial, RecordInv, Recorded, IInv, PlaceInv, InPlace
  <2>2. Committed(mem) = 1 .. tensor - 1
    BY <1>1, <2>1 DEF JobInv
  <2>3. Committed(manifest)' = {}
    <3>1. 1 .. tensor - 1 = {}
      <4>1. tensor = 1
        BY <2>1
      <4>2. QED
        BY <4>1
    <3>2. QED
      BY <2>1, <2>2, <3>1 DEF Committed
  <2>4. Cardinality(Committed(manifest)') = 0
    BY <2>3, FS_EmptySet
  <2>5. Job!Begin
    BY <1>1, <1>3, <1>4, <1>6, <2>1, <2>4 DEF Job!Begin
  <2>6. QED
    BY <2>5 DEF Job!Next
<1>10. CASE SaveCommit
  <2>1. /\ pc = "save commit" /\ manifest' = mem /\ mem' = mem /\ manifest # NoManifest
        /\ Committed(mem) = 1 .. tensor
    BY <1>1, <1>10 DEF SaveCommit, JobInv
  <2>2. tensor = b + 1
    BY <1>1, <1>7, <2>1 DEF SavedAre, FirstTensors
  <2>3. Cardinality(Committed(manifest)') = b + 1
    <3>1. Committed(manifest)' = 1 .. b + 1
      BY <2>1, <2>2 DEF Committed
    <3>2. QED
      BY <1>8, <3>1, FS_Interval
  <2>4. Stored = b + 1
    <3>1. PICK c \in 0 .. Count(PlanOf[fmt'][source']) : SavedAre(c)'
      BY <1>6 DEF JobInv, SavedAre
    <3>2. Committed(manifest)' = 1 .. c
      BY <1>6, <3>1 DEF SavedAre, FirstTensors
    <3>3. c = b + 1
      <4>1. Committed(manifest)' = 1 .. b + 1
        BY <2>1, <2>2 DEF Committed
      <4>2. c \in Nat
        BY <1>2, <1>5, <3>1
      <4>3. QED
        BY <1>8, <3>2, <4>1, <4>2
    <3>4. Stored' >= c
      <4>1. Stored' = IF c < Count(L)' /\ Whole(file, c + 1)' THEN c + 1 ELSE c
        BY <3>1, StoredCountNext
      <4>2. QED
        BY <1>8, <3>3, <4>1
    <3>5. QED
      BY <1>4, <1>8, <3>3, <3>4
  <2>5. Job!Bank
    <3>1. Cardinality(Committed(manifest)) = b /\ b < b + 1
      <4>1. b \in Nat
        BY <1>8
      <4>2. b < b + 1
        BY <4>1
      <4>3. QED
        BY <1>8, <2>1, <4>2
    <3>2. manifest'.status = "in_progress" /\ manifest.status = "in_progress"
      BY <1>3, <2>1
    <3>3. QED
      BY <1>1, <1>4, <1>6, <2>1, <2>3, <2>4, <3>1, <3>2 DEF Job!Bank, Committed
  <2>6. QED
    BY <2>5 DEF Job!Next
<1>11. CASE SaveComplete
  <2>1. /\ pc = "tensor" /\ tensor \notin Tensors(mem.plan)
        /\ mem' = [mem EXCEPT !.status = "complete"]
    BY <1>11 DEF SaveComplete
  <2>2. tensor = Count(L) + 1
    BY <1>2, <2>1 DEF Tensors
  <2>3. manifest # NoManifest
    <3>1. tensor # 1
      BY <1>2, <2>2
    <3>2. QED
      BY <2>1, <3>1 DEF JobInv
  <2>4. b = Count(L)
    <3>1. tensor = b + 1
      BY <1>1, <1>7, <2>3 DEF SavedAre, FirstTensors
    <3>2. QED
      BY <1>2, <1>8, <2>2, <3>1
  <2>5. manifest'.status = "complete"
    BY <1>1, <1>2, <2>1 DEF IsManifest
  <2>6. Committed(manifest)' = Committed(manifest)
    <3>1. Committed(mem) = 1 .. tensor - 1
      BY <1>1, <2>1 DEF JobInv
    <3>2. Committed(manifest)' = Committed(mem)
      BY <1>1, <1>2, <2>1 DEF Committed, IsManifest
    <3>3. Committed(manifest) = 1 .. b
      BY <1>7, <2>3 DEF SavedAre, FirstTensors
    <3>4. tensor - 1 = b
      BY <1>2, <1>8, <2>2, <2>4
    <3>5. QED
      BY <3>1, <3>2, <3>3, <3>4
  <2>7. Job!Finish
    BY <1>1, <1>3, <1>4, <1>6, <1>8, <2>3, <2>4, <2>5, <2>6 DEF Job!Finish
  <2>8. QED
    BY <2>7 DEF Job!Next
<1>12. QED
  BY <1>9, <1>10, <1>11

\* When kills are the only fault and the job stays the same, the saved manifest
\* has the first tensors of the plan, the file is ahead of it by one tensor at
\* most, and a run, fresh or resumed, writes the next one.
THEOREM ResumeHolds == StatIdentifies /\ OneJob /\ Spec => []ResumeInv
<1>1. OneJob => KeepsManifests
  BY DEF OneJob, KeepsManifests
<1>2. Init => JobInv
  BY JobInit
<1>3. OneJob /\ RecordInv /\ JobInv /\ [Next]_vars => JobInv'
  BY JobNext
<1>4. ResumeInv <=> RecordInv /\ JobInv
  BY DEF ResumeInv
<1>5. OneJob => []OneJob
  OBVIOUS
<1>6. QED
  BY <1>1, <1>2, <1>3, <1>4, <1>5, RecordHolds, PTL DEF Spec

\* Kills only, one model, one format: whoever looks at the manifest and at what is
\* whole in the file sees a job that stores and banks one tensor after the other
\* and never goes back, for every plan and whatever the kills leave of the buffer.
THEOREM EngineImplementsJob ==
    StatIdentifies /\ OneJob /\ Spec => ImplementsJob
<1>1. ResumeInv /\ Init => Job!Init
  <2> SUFFICES ASSUME RecordInv, JobInv, Init PROVE Job!Init
    BY DEF ResumeInv
  <2>1. JobInv /\ manifest = NoManifest
    BY DEF Init
  <2>2. Count(PlanOf[fmt][source]) \in Nat
    BY <2>1, JobFacts
  <2>3. 0 \in 0 .. Count(PlanOf[fmt][source]) /\ SavedAre(0)
    BY <2>1, <2>2 DEF SavedAre
  <2>4. Stored = 0
    BY <2>1, <2>3, StoredCount
  <2>5. QED
    BY <2>1, <2>2, <2>4 DEF Job!Init
<1>2. OneJob /\ ResumeInv /\ ResumeInv' /\ [Next]_vars => [Job!Next]_(Job!vars)
  <2> SUFFICES ASSUME OneJob, RecordInv, JobInv, RecordInv', JobInv', [Next]_vars
               PROVE  [Job!Next]_(Job!vars)
    BY DEF ResumeInv
  <2>1. CASE SaveInitial \/ SaveCommit \/ SaveComplete
    BY <2>1, SaveIsStep
  <2>2. CASE ~(SaveInitial \/ SaveCommit \/ SaveComplete)
    <3>1. fmt' = fmt
      <4>1. fmt \in Formats
        BY JobFacts
      <4>2. QED
        BY <4>1 DEF OneJob, Next, Step, Fault, vars, process, storage, Start, PrepareResume,
           AlreadyComplete, Refuse, Unreadable, Accept, BeginData, WriteHeader, BeginTensor,
           HashHeader, CheckOffset, StreamChunk, HashTensor, SaveInitial, SaveCommit,
           SaveComplete, Close, Crash, Writeback, PowerLoss, Corrupt, EditSource, Exit
    <3>2. SwapPoints = {} /\ \A x \in {"powerloss", "corrupt", "edit"} : x \notin Faults
      BY DEF OneJob
    <3>3. source' = source /\ manifest' = manifest
      BY <2>2, <3>2 DEF Next, Step, Fault, vars, process, storage, Start, PrepareResume,
         AlreadyComplete, Refuse, Unreadable, Accept, BeginData, WriteHeader, BeginTensor,
         HashHeader, CheckOffset, StreamChunk, HashTensor, Close, Crash, Writeback,
         Corrupt, EditSource
    <3>4. Runs \/ file' = file
      BY <3>2 DEF Runs, Next, Fault, vars, storage, Start, Writeback, Corrupt, EditSource
    <3>5. [Job!Store]_(Job!vars)
      BY <3>1, <3>3, <3>4, StoreOrStutter
    <3>6. QED
      BY <3>5 DEF Job!Next
  <2>3. QED
    BY <2>1, <2>2
<1>3. OneJob => []OneJob
  OBVIOUS
<1>4. QED
  BY <1>1, <1>2, <1>3, ResumeHolds, PTL DEF Spec, ImplementsJob, Job!Spec
=============================================================================
