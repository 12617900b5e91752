---------------------------- MODULE EngineProofs ----------------------------
(***************************************************************************)
(* What holds of the layout of a file and of the engine, for every plan,   *)
(* format, source and fault.                                               *)
(***************************************************************************)
EXTENDS EngineInv, Numbers, SequenceTheorems
-----------------------------------------------------------------------------
(* The layout of a file: padding to a boundary and rounding an offset up   *)
(* agree, and the offsets of a plan put the header and the tensors one     *)
(* after the other without overlap.                                        *)

LEMMA DivisionExists ==
    ASSUME NEW n \in Int
    PROVE  \E q \in Int, r \in 0 .. ALIGN - 1 : n = ALIGN * q + r
<1>1. /\ n \div ALIGN \in Int
      /\ n % ALIGN \in 0 .. ALIGN - 1
      /\ n = ALIGN * (n \div ALIGN) + (n % ALIGN)
  BY AlignAssumption, Division
<1>2. QED
  BY <1>1, Zenon

LEMMA Multiples ==
    ASSUME NEW q \in Int
    PROVE  ALIGN * q \in Int /\ q * ALIGN = ALIGN * q /\ ALIGN * (-q) = -(ALIGN * q)
  BY AlignAssumption

\* A multiple of ALIGN is where it should be already.
LEMMA AlignMultiple ==
    ASSUME NEW q \in Int
    PROVE  Align(ALIGN * q) = ALIGN * q
<1> DEFINE t == ALIGN * q
<1>1. t \in Int /\ q * ALIGN = t
  BY Multiples
<1>2. ALIGN - 1 \in 0 .. ALIGN - 1 /\ t + (ALIGN - 1) \in Int
        /\ t + (ALIGN - 1) = t + ALIGN - 1
  <2> HIDE DEF t
  <2> QED BY AlignAssumption, <1>1
<1>3. (t + (ALIGN - 1)) \div ALIGN = q
  BY DivisionUnique, AlignAssumption, <1>2
<1>4. (t + ALIGN - 1) \div ALIGN = q
  BY <1>2, <1>3
<1>5. QED
  BY <1>4, <1>1 DEF Align

\* `begin_tensor` pads a file at position n up to `_align(n)`: the two places
\* that know the alignment rule (gguf_io.py:191 and engine.py:67) agree.
THEOREM PadReachesAlign ==
    ASSUME NEW n \in Nat
    PROVE  /\ Pad(n) \in 0 .. ALIGN - 1
           /\ n + Pad(n) = Align(n)
           /\ Align(n) \in Nat
           /\ Align(n) >= n
           /\ Align(Align(n)) = Align(n)
<1>1. n + ALIGN - 1 \in Int /\ ALIGN \in Int
  BY AlignAssumption
<1>2. PICK q \in Int, r \in 0 .. ALIGN - 1 : n + ALIGN - 1 = ALIGN * q + r
  BY <1>1, DivisionExists
<1> DEFINE t == ALIGN * q
           s == ALIGN * (-q)
<1>3. t \in Int /\ s \in Int /\ s = -t /\ q * ALIGN = t
  BY Multiples
<1>4. n + ALIGN - 1 = t + r
  BY <1>2
<1>5. -n = s + (ALIGN - 1 - r)
  <2> HIDE DEF t, s
  <2> QED BY <1>4, <1>3, AlignAssumption
<1>6. -q \in Int /\ (ALIGN - 1 - r) \in 0 .. ALIGN - 1 /\ -n \in Int
  BY <1>2, AlignAssumption
<1>7. (-n) % ALIGN = ALIGN - 1 - r
  BY <1>5, <1>6, AlignAssumption, DivisionUnique
<1>8. (n + ALIGN - 1) \div ALIGN = q
  BY <1>2, <1>1, AlignAssumption, DivisionUnique
<1>9. Pad(n) = ALIGN - 1 - r /\ Align(n) = t
  BY <1>7, <1>8, <1>3 DEF Pad, Align
<1>10. Align(Align(n)) = Align(n)
  BY <1>9, AlignMultiple
<1>11. QED
  <2> HIDE DEF t
  <2> QED BY <1>9, <1>3, <1>4, <1>6, <1>10, AlignAssumption

\* Nothing is padded at a boundary.
LEMMA PadAtBoundary ==
    ASSUME NEW n \in Nat, Align(n) = n
    PROVE  Pad(n) = 0
  BY PadReachesAlign, AlignAssumption
-----------------------------------------------------------------------------
(* Order of the tensors.                                                   *)

LEMMA LayoutTypes ==
    ASSUME NEW L \in Plans
    PROVE  /\ Count(L) \in Nat \ {0}
           /\ HeaderLen[L] \in Nat \ {0}
           /\ HeaderEnd(L) \in Nat
           /\ \A i \in 1 .. Count(L) + 1 : Offset[L][i] \in Nat
           /\ \A i \in Tensors(L) : /\ Nbytes[L][i] \in Nat \ {0}
                                    /\ End(L, i) \in Nat
                                    /\ Offset[L][i] < End(L, i)
<1>1. Count(L) \in Nat \ {0} /\ HeaderLen[L] \in Nat \ {0}
  BY SizesAssumption DEF Count
<1>2. \A i \in 1 .. Count(L) + 1 : Offset[L][i] \in Nat
  BY OffsetAssumption
<1>3. \A i \in Tensors(L) : Nbytes[L][i] \in Nat \ {0}
  BY SizesAssumption DEF Tensors, Count
<1>4. HeaderEnd(L) \in Nat
  BY <1>1, PadReachesAlign DEF HeaderEnd
<1>5. QED
  BY <1>1, <1>2, <1>3, <1>4 DEF End, Tensors

\* The next tensor starts at or after the end of this one, on a boundary.
LEMMA NextOffset ==
    ASSUME NEW L \in Plans, NEW i \in Tensors(L)
    PROVE  /\ Offset[L][i + 1] \in Nat
           /\ End(L, i) <= Offset[L][i + 1]
           /\ End(L, i) + Pad(End(L, i)) = Offset[L][i + 1]
<1>1. End(L, i) \in Nat
  BY LayoutTypes
<1>2. Offset[L][i + 1] = Align(End(L, i))
  BY OffsetAssumption
<1>3. QED
  BY <1>1, <1>2, PadReachesAlign

LEMMA OffsetsAligned ==
    ASSUME NEW L \in Plans, NEW i \in 1 .. Count(L) + 1
    PROVE  Align(Offset[L][i]) = Offset[L][i] /\ Pad(Offset[L][i]) = 0
<1>1. Align(Offset[L][i]) = Offset[L][i]
  <2>1. CASE i = 1
    BY <2>1, OffsetAssumption, LayoutTypes, PadReachesAlign DEF HeaderEnd
  <2>2. CASE i # 1
    <3>1. i - 1 \in Tensors(L) /\ (i - 1) + 1 = i
      BY <2>2, LayoutTypes DEF Tensors
    <3>2. Offset[L][i] = Align(End(L, i - 1)) /\ End(L, i - 1) \in Nat
      BY <3>1, OffsetAssumption, LayoutTypes
    <3>3. QED
      BY <3>2, PadReachesAlign
  <2>3. QED
    BY <2>1, <2>2
<1>2. QED
  BY <1>1, LayoutTypes, PadAtBoundary

\* A tensor ends before every later one begins.
THEOREM TensorsInOrder ==
    ASSUME NEW L \in Plans, NEW i \in Tensors(L),
           NEW j \in i + 1 .. Count(L) + 1
    PROVE  End(L, i) <= Offset[L][j]
<1> DEFINE Late == {k \in i + 1 .. Count(L) + 1 : ~(End(L, i) <= Offset[L][k])}
<1>1. SUFFICES ASSUME Late # {}
               PROVE  FALSE
  BY Zenon
<1>2. i \in Nat /\ Count(L) \in Nat /\ Late \in SUBSET Nat
  <2>1. i \in Nat /\ Count(L) \in Nat
    BY LayoutTypes DEF Tensors
  <2>2. \A k \in i + 1 .. Count(L) + 1 : k \in Nat
    BY <2>1
  <2>3. QED
    BY <2>1, <2>2, Zenon
<1>3. PICK k \in Late : \A m \in Late : k <= m
  BY <1>1, <1>2, LeastElement
<1>4. k # i + 1
  BY <1>3, NextOffset
<1>5. k - 1 \in i + 1 .. Count(L) /\ k - 1 \in Tensors(L) /\ (k - 1) + 1 = k
  BY <1>2, <1>4 DEF Tensors
<1>6. k - 1 \notin Late
  BY <1>3, <1>5, <1>2
<1>7. End(L, i) <= Offset[L][k - 1]
  BY <1>5, <1>6, <1>2
<1>8. Offset[L][k - 1] < End(L, k - 1) /\ End(L, k - 1) <= Offset[L][k]
  BY <1>5, LayoutTypes, NextOffset
<1>9. End(L, i) \in Nat /\ Offset[L][k - 1] \in Nat /\ End(L, k - 1) \in Nat
        /\ Offset[L][k] \in Nat
  BY <1>5, <1>2, LayoutTypes DEF Tensors
<1>10. QED
  BY <1>3, <1>7, <1>8, <1>9

\* The header comes before every tensor.
LEMMA HeaderFirst ==
    ASSUME NEW L \in Plans, NEW i \in 1 .. Count(L) + 1
    PROVE  HeaderLen[L] <= HeaderEnd(L) /\ HeaderEnd(L) <= Offset[L][i]
<1>1. HeaderLen[L] <= HeaderEnd(L) /\ HeaderEnd(L) = Offset[L][1]
  BY LayoutTypes, PadReachesAlign, OffsetAssumption DEF HeaderEnd
<1>2. CASE i = 1
  BY <1>1, <1>2, LayoutTypes
<1>3. CASE i # 1
  <2>1. 1 \in Tensors(L) /\ i \in 1 + 1 .. Count(L) + 1
    BY <1>3, LayoutTypes DEF Tensors
  <2>2. End(L, 1) <= Offset[L][i] /\ Offset[L][1] < End(L, 1)
    BY <2>1, TensorsInOrder, LayoutTypes
  <2>3. QED
    BY <1>1, <2>1, <2>2, LayoutTypes
<1>4. QED
  BY <1>2, <1>3

\* Every tensor lies within the file.
LEMMA WithinSize ==
    ASSUME NEW L \in Plans, NEW i \in Tensors(L)
    PROVE  /\ End(L, i) <= Size(L)
           /\ Size(L) \in Nat
           /\ Size(L) <= Offset[L][Count(L) + 1]
<1>1. Count(L) \in Tensors(L) /\ Count(L) \in Nat
  BY LayoutTypes DEF Tensors
<1>2. Size(L) \in Nat /\ Size(L) <= Offset[L][Count(L) + 1]
  BY <1>1, LayoutTypes, NextOffset DEF Size
<1>3. CASE i = Count(L)
  BY <1>3, <1>2 DEF Size
<1>4. CASE i # Count(L)
  <2>1. Count(L) \in i + 1 .. Count(L) + 1
    BY <1>1, <1>4 DEF Tensors
  <2>2. End(L, i) <= Offset[L][Count(L)] /\ Offset[L][Count(L)] < Size(L)
    BY <2>1, <1>1, TensorsInOrder, LayoutTypes DEF Size
  <2>3. QED
    BY <2>2, <1>1, <1>2, LayoutTypes DEF Tensors
<1>5. QED
  BY <1>2, <1>3, <1>4

\* No position belongs to two tensors.
THEOREM SpansDisjoint ==
    ASSUME NEW L \in Plans, NEW i \in Tensors(L), NEW j \in Tensors(L),
           NEW p \in Span(L, i) \cap Span(L, j)
    PROVE  i = j
<1>1. p \in Int /\ Offset[L][i] <= p /\ p < End(L, i)
        /\ Offset[L][j] <= p /\ p < End(L, j)
  BY LayoutTypes DEF Span, Tensors
<1>2. CASE i < j
  <2>1. End(L, i) <= Offset[L][j]
    BY <1>2, TensorsInOrder, LayoutTypes DEF Tensors
  <2>2. QED
    BY <2>1, <1>1, LayoutTypes DEF Tensors
<1>3. CASE j < i
  <2>1. End(L, j) <= Offset[L][i]
    BY <1>3, TensorsInOrder, LayoutTypes DEF Tensors
  <2>2. QED
    BY <2>1, <1>1, LayoutTypes DEF Tensors
<1>4. QED
  BY <1>2, <1>3 DEF Tensors
-----------------------------------------------------------------------------
(* Plans and cells.                                                        *)

LEMMA PlanInCapacity ==
    ASSUME NEW L \in Plans
    PROVE  /\ Capacity \in Nat
           /\ HeaderLen[L] \in Nat \ {0}
           /\ HeaderLen[L] <= Size(L)
           /\ Size(L) \in Nat /\ Size(L) <= Capacity
           /\ \A i \in 1 .. Count(L) + 1 :
                 Offset[L][i] \in Nat /\ HeaderEnd(L) <= Offset[L][i]
           /\ \A i \in Tensors(L) : End(L, i) \in Nat /\ End(L, i) <= Size(L)
<1>1. Capacity \in Nat /\ Offset[L][Count(L) + 1] <= Capacity
  BY EngineAssumption
<1>2. 1 \in Tensors(L) /\ 1 \in 1 .. Count(L) + 1 /\ Count(L) + 1 \in 1 .. Count(L) + 1
  BY LayoutTypes DEF Tensors
<1>3. HeaderLen[L] <= HeaderEnd(L) /\ HeaderEnd(L) <= Offset[L][1]
  BY <1>2, HeaderFirst
<1>4. Offset[L][1] < End(L, 1) /\ End(L, 1) <= Size(L) /\ Size(L) \in Nat
        /\ Size(L) <= Offset[L][Count(L) + 1]
  BY <1>2, WithinSize, LayoutTypes
<1>5. /\ \A i \in 1 .. Count(L) + 1 :
            Offset[L][i] \in Nat /\ HeaderEnd(L) <= Offset[L][i]
      /\ \A i \in Tensors(L) : End(L, i) \in Nat /\ End(L, i) <= Size(L)
  BY LayoutTypes, HeaderFirst, WithinSize
<1>6. QED
  BY <1>1, <1>2, <1>3, <1>4, <1>5, LayoutTypes

LEMMA OffsetsInCapacity ==
    ASSUME NEW L \in Plans, NEW i \in 1 .. Count(L) + 1
    PROVE  Offset[L][i] \in Nat /\ Offset[L][i] <= Capacity
<1>1. CASE i = Count(L) + 1
  BY <1>1, EngineAssumption, LayoutTypes
<1>2. CASE i # Count(L) + 1
  <2>1. i \in Tensors(L)
    BY <1>2, LayoutTypes DEF Tensors
  <2>2. Offset[L][i] < End(L, i) /\ End(L, i) <= Size(L) /\ Size(L) <= Capacity
    BY <2>1, LayoutTypes, PlanInCapacity
  <2>3. QED
    BY <2>1, <2>2, LayoutTypes, PlanInCapacity
<1>3. QED
  BY <1>1, <1>2

LEMMA CellTypes ==
    /\ Zero \in Cells /\ Bad \in Cells
    /\ \A f \in Formats, v \in Versions, p \in Positions : HeaderCell(f, v, p) \in Cells
    /\ \A f \in Formats, v \in Versions, i \in Nat, k \in Positions :
          DataCell(f, v, i, k) \in Cells
  BY DEF Cells, HeaderCell, DataCell

LEMMA CellsDistinct ==
    /\ \A f, v, p : HeaderCell(f, v, p) # Zero /\ HeaderCell(f, v, p) # Bad
    /\ \A f, v, i, k : DataCell(f, v, i, k) # Zero
    /\ Zero # Bad
    /\ \A f, v, g, w, p : HeaderCell(f, v, p) = HeaderCell(g, w, p) => f = g /\ v = w
    /\ \A f, v, g, w, p, i, k : HeaderCell(f, v, p) # DataCell(g, w, i, k)
  BY DEF Zero, Bad, HeaderCell, DataCell

\* Hashes and files are made of cells.
LEMMA FlushedType ==
    ASSUME TypeOK, NEW k \in 0 .. Len(pend)
    PROVE  /\ Flushed(k) \in Files
           /\ Flushed(k).len = IF k # 0 /\ fpos + k > file.len THEN fpos + k
                               ELSE file.len
           /\ \A p \in Positions :
                 Flushed(k).at[p] = IF p \in fpos .. fpos + k - 1
                                    THEN pend[p - fpos + 1] ELSE file.at[p]
<1>1. /\ fpos \in Nat /\ pend \in Seq(Cells) /\ fpos + Len(pend) <= Capacity
      /\ file.len \in 0 .. Capacity /\ file.at \in [Positions -> Cells]
      /\ file = [len |-> file.len, at |-> file.at]
  BY DEF TypeOK, Files, tell
<1>2. Len(pend) \in Nat /\ Capacity \in Nat /\ k \in Nat /\ k <= Len(pend)
  BY <1>1, EngineAssumption
<1>3. \A p \in fpos .. fpos + k - 1 : p - fpos + 1 \in 1 .. Len(pend)
  BY <1>1, <1>2
<1>4. \A p \in fpos .. fpos + k - 1 : pend[p - fpos + 1] \in Cells
  BY <1>1, <1>3
<1>5. CASE k = 0
  <2>1. Flushed(k) = file
    BY <1>5 DEF Flushed
  <2>2. \A p \in Positions : p \notin fpos .. fpos + k - 1
    BY <1>5, <1>1 DEF Positions
  <2>3. QED
    BY <2>1, <2>2, <1>1, <1>5 DEF Files
<1>6. CASE k # 0
  <2> DEFINE l == IF fpos + k > file.len THEN fpos + k ELSE file.len
             a == [p \in Positions |->
                     IF p \in fpos .. fpos + k - 1 THEN pend[p - fpos + 1]
                     ELSE file.at[p]]
  <2>1. Flushed(k) = [len |-> l, at |-> a]
    BY <1>6 DEF Flushed
  <2>2. l \in 0 .. Capacity
    BY <1>1, <1>2
  <2>3. a \in [Positions -> Cells]
    BY <1>1, <1>4
  <2> HIDE DEF l, a
  <2>4. Flushed(k) \in Files /\ Flushed(k).len = l /\ Flushed(k).at = a
    BY <2>1, <2>2, <2>3 DEF Files
  <2>5. QED
    BY <2>4, <1>6 DEF l, a
<1>7. QED
  BY <1>5, <1>6

LEMMA FlushAllType ==
    ASSUME TypeOK
    PROVE  FlushAll \in Files /\ Len(pend) \in 0 .. Len(pend)
<1>1. Len(pend) \in 0 .. Len(pend)
  BY DEF TypeOK
<1>2. QED
  BY <1>1, FlushedType DEF FlushAll
-----------------------------------------------------------------------------
(* Types and positions.                                                    *)

LEMMA TypeFacts ==
    ASSUME TypeOK
    PROVE  /\ PlanOf[fmt][input] \in Plans
           /\ Len(pend) \in Nat /\ tell \in Nat /\ tell <= Capacity
           /\ pc \in Writing => IsManifest(mem) /\ mem.plan \in Plans
           /\ manifest # NoManifest => IsManifest(manifest) /\ manifest.plan \in Plans
<1>1. PlanOf[fmt][input] \in Plans
  BY EngineAssumption DEF TypeOK
<1>2. Len(pend) \in Nat /\ tell \in Nat /\ tell <= Capacity
  BY DEF TypeOK, tell
<1>3. \A m : IsManifest(m) => m.plan \in Plans
  BY DEF IsManifest
<1>4. QED
  BY <1>1, <1>2, <1>3 DEF TypeOK

\* A run that ends leaves no trace in memory.
LEMMA ExitPlace ==
    ASSUME PlaceInv, Exit,
           file' \in Files,
           manifest' = NoManifest \/ IsManifest(manifest'),
           durable' = NoManifest \/ IsManifest(durable'),
           source' \in Versions,
           code' \in Outcomes \ {"drift"}
    PROVE  PlaceInv'
<1>1. TypeOK'
  <2>1. pend' \in Seq(Cells) /\ tell' = 0 /\ 0 <= Capacity
    BY EngineAssumption DEF Exit, tell
  <2>2. QED
    BY <2>1 DEF PlaceInv, TypeOK, Exit, ControlPoints, Writing
<1>2. InPlace'
  BY DEF Exit, InPlace, Writing
<1>3. NoDrift'
  BY DEF NoDrift
<1>4. QED
  BY <1>1, <1>2, <1>3 DEF PlaceInv

LEMMA PlaceInit == Init => PlaceInv
<1> SUFFICES ASSUME Init PROVE PlaceInv
  OBVIOUS
<1>1. file \in Files
  BY CellTypes, EngineAssumption DEF Init, EmptyFile, Files
<1>2. TypeOK
  <2>1. pend \in Seq(Cells) /\ tell = 0 /\ 0 <= Capacity
    BY EngineAssumption DEF Init, tell
  <2>2. QED
    BY <1>1, <2>1 DEF Init, TypeOK, ControlPoints, Outcomes, Writing
<1>3. InPlace /\ NoDrift
  BY DEF Init, InPlace, Writing, NoDrift
<1>4. QED
  BY <1>2, <1>3 DEF PlaceInv

LEMMA PlaceStart ==
    ASSUME PlaceInv, NEW resume \in BOOLEAN, NEW f \in Formats, Start(resume, f)
    PROVE  PlaceInv'
<1>1. TypeOK'
  BY DEF PlaceInv, TypeOK, Start, storage, ControlPoints, Outcomes, Writing, tell
<1>2. InPlace'
  BY DEF PlaceInv, InPlace, Start, Writing
<1>3. NoDrift'
  BY DEF Start, NoDrift
<1>4. QED
  BY <1>1, <1>2, <1>3 DEF PlaceInv

LEMMA PlacePrepareResume ==
    ASSUME PlaceInv, PrepareResume
    PROVE  PlaceInv'
<1>1. CASE AlreadyComplete \/ Refuse \/ Unreadable
  <2>1. Exit /\ UNCHANGED storage
          /\ code' \in {"already", "refused", "unreadable"}
    BY <1>1 DEF AlreadyComplete, Refuse, Unreadable
  <2>2. QED
    BY <2>1, ExitPlace DEF PlaceInv, TypeOK, storage, Outcomes
<1>2. ASSUME NEW i \in 1 .. Count(manifest.plan) + 1, Accept(i)
      PROVE  PlaceInv'
  <2>1. /\ pc = "verify" /\ manifest # NoManifest /\ IsManifest(manifest)
        /\ manifest.plan \in Plans /\ resuming
    BY TypeFacts DEF PrepareResume, PlaceInv, TypeOK, InPlace
  <2>2. IsManifest(mem') /\ mem'.plan = manifest.plan
    BY <2>1, <1>2 DEF Accept, IsManifest, Without, Committed
  <2>3. /\ Offset[mem'.plan][i] \in Nat /\ Offset[mem'.plan][i] <= Capacity
        /\ Pad(Offset[mem'.plan][i]) = 0
    BY <2>1, <2>2, OffsetsInCapacity, OffsetsAligned
  <2>4. /\ pend = <<>> /\ row = 0 /\ pc' = "tensor" /\ tensor' = i
        /\ fpos' = Offset[mem'.plan][i]
        /\ UNCHANGED <<fmt, input, resuming, row, pend, storage, code>>
    BY <1>2, <2>1, <2>2 DEF Accept, PlaceInv, InPlace, Writing
  <2>5. i \in Nat /\ Len(pend') = 0
    BY <2>1, <2>4, LayoutTypes
  <2>6. tell' = Offset[mem'.plan][i] /\ tell' + Pad(tell') = Offset[mem'.plan][i]
    BY <2>3, <2>4, <2>5 DEF tell
  <2>7. TypeOK'
    BY <2>2, <2>3, <2>4, <2>5, <2>6
       DEF PlaceInv, TypeOK, storage, ControlPoints, Writing
  <2>8. Reached' <= tell'
    <3>1. CASE i = 1
      BY <3>1, <2>1, <2>2, <2>4, <2>6, HeaderFirst, LayoutTypes DEF Reached
    <3>2. CASE i # 1
      <4>1. i - 1 \in Tensors(mem'.plan) /\ i \in (i - 1) + 1 .. Count(mem'.plan) + 1
        BY <3>2, <2>1, <2>2, LayoutTypes DEF Tensors
      <4>2. End(mem'.plan, i - 1) <= Offset[mem'.plan][i]
        BY <4>1, <2>1, <2>2, TensorsInOrder
      <4>3. QED
        BY <4>2, <3>2, <2>4, <2>6 DEF Reached
    <3>3. QED
      BY <3>1, <3>2
  <2>9. InPlace'
    BY <2>1, <2>2, <2>4, <2>6, <2>8 DEF InPlace, Writing
  <2>10. NoDrift'
    BY <2>4 DEF PlaceInv, NoDrift
  <2>11. QED
    BY <2>7, <2>9, <2>10 DEF PlaceInv
<1>3. QED
  BY <1>1, <1>2 DEF PrepareResume

LEMMA PlaceBeginData ==
    ASSUME PlaceInv, BeginData
    PROVE  PlaceInv'
<1> DEFINE L == PlanOf[fmt][input]
           n == HeaderLen[L]
           cells == [k \in 1 .. n |-> HeaderCell(fmt, input, k - 1)]
<1>1. L \in Plans /\ n \in Nat /\ n <= Capacity
  BY TypeFacts, PlanInCapacity DEF PlaceInv
<1>2. cells \in Seq(Cells) /\ Len(cells) = n
  <2>1. \A k \in 1 .. n : k - 1 \in Positions
    BY <1>1, EngineAssumption DEF Positions
  <2>2. \A k \in 1 .. n : HeaderCell(fmt, input, k - 1) \in Cells
    BY <2>1, CellTypes DEF PlaceInv, TypeOK
  <2> HIDE DEF n
  <2>3. QED
    BY <2>2, <1>1
<1>3. pend = <<>> /\ pend' = <<>> \o cells /\ fpos = 0 /\ fpos' = 0
        /\ mem = NoManifest /\ mem' = NoManifest /\ ~resuming
        /\ tensor = 1 /\ row = 0
        /\ pc' = "header" /\ file' = EmptyFile
        /\ UNCHANGED <<fmt, input, resuming, tensor, row, manifest, durable,
                       source, code>>
  BY DEF BeginData, Write, PlaceInv, TypeOK, InPlace, Writing
<1>4. pend' = cells /\ tell' = n
  BY <1>2, <1>3, <1>1 DEF tell
<1>5. EmptyFile \in Files
  BY CellTypes, EngineAssumption DEF EmptyFile, Files
<1>6. TypeOK'
  <2> HIDE DEF n, cells
  <2> QED
    BY <1>1, <1>2, <1>3, <1>4, <1>5
       DEF PlaceInv, TypeOK, ControlPoints, Writing
<1>7. InPlace'
  <2>1. Len(pend') = HeaderLen[PlanOf[fmt'][input']]
    BY <1>2, <1>3, <1>4
  <2>2. QED
    BY <2>1, <1>3 DEF InPlace, Writing
<1>8. NoDrift'
  BY <1>3 DEF PlaceInv, NoDrift
<1>9. QED
  BY <1>6, <1>7, <1>8 DEF PlaceInv

\* A flush moves no position and empties the buffer.
LEMMA FlushPlace ==
    ASSUME TypeOK, Flush
    PROVE  /\ file' \in Files
           /\ fpos' \in Nat /\ fpos' = tell
           /\ pend' = <<>> /\ pend' \in Seq(Cells)
           /\ tell' = tell
<1>1. tell \in Nat
  BY TypeFacts
<1>2. fpos' = tell /\ pend' = <<>> /\ file' \in Files
  BY FlushAllType DEF Flush
<1>3. tell' = fpos' + 0 /\ pend' \in Seq(Cells)
  BY <1>2 DEF tell
<1>4. QED
  BY <1>1, <1>2, <1>3

LEMMA PlaceWriteHeader ==
    ASSUME PlaceInv, WriteHeader
    PROVE  PlaceInv'
<1> DEFINE L == PlanOf[fmt][input]
<1>1. L \in Plans /\ tell \in Nat /\ tell <= Capacity
  BY TypeFacts DEF PlaceInv
<1>2. IsManifest(mem') /\ mem'.plan = L
  BY <1>1 DEF WriteHeader, NewManifest, IsManifest, Committed, PlaceInv, TypeOK
<1>3. /\ file' \in Files /\ fpos' \in Nat /\ fpos' = tell
      /\ pend' = <<>> /\ pend' \in Seq(Cells) /\ tell' = tell
  BY FlushPlace DEF WriteHeader, PlaceInv
<1>4. /\ tensor = 1 /\ row = 0 /\ ~resuming /\ fpos = 0 /\ pc = "header" /\ pc' = "tensor"
      /\ Len(pend) = HeaderLen[L]
      /\ UNCHANGED <<fmt, input, resuming, tensor, row, manifest, durable, source, code>>
  BY DEF WriteHeader, PlaceInv, InPlace, Writing
<1>5. tell = HeaderLen[L]
  BY <1>4, <1>1, PlanInCapacity DEF tell
<1>6. tell + Pad(tell) = Offset[L][1] /\ 1 \in 1 .. Count(L) + 1
  <2>1. tell + Pad(tell) = Align(tell)
    BY <1>1, PadReachesAlign
  <2>2. Offset[L][1] = Align(HeaderLen[L])
    BY <1>1, OffsetAssumption DEF HeaderEnd
  <2>3. QED
    BY <2>1, <2>2, <1>1, <1>5, LayoutTypes
<1>7. TypeOK'
  BY <1>1, <1>2, <1>3, <1>4 DEF PlaceInv, TypeOK, ControlPoints, Writing
<1>8. Reached' = HeaderLen[L]
  BY <1>2, <1>4 DEF Reached
<1>9. InPlace'
  BY <1>1, <1>2, <1>3, <1>4, <1>5, <1>6, <1>8 DEF InPlace, Writing
<1>10. NoDrift'
  BY <1>4 DEF PlaceInv, NoDrift
<1>11. QED
  BY <1>7, <1>9, <1>10 DEF PlaceInv

\* Appending to the buffer.
LEMMA WritePlace ==
    ASSUME TypeOK, NEW n \in Nat, NEW c \in Seq(Cells), Len(c) = n, Write(c),
           fpos' = fpos
    PROVE  pend' \in Seq(Cells) /\ Len(pend') = Len(pend) + n /\ tell' = tell + n
<1>1. fpos \in Nat /\ pend \in Seq(Cells) /\ pend' = pend \o c
  BY DEF TypeOK, Write
<1>2. pend \o c \in Seq(Cells) /\ Len(pend \o c) = Len(pend) + Len(c)
  <2>1. pend \in Seq(Cells) /\ c \in Seq(Cells)
    BY <1>1
  <2>2. QED
    BY Zenon, <2>1, ConcatProperties
<1>3. Len(pend) \in Nat
  BY <1>1
<1>4. QED
  BY <1>1, <1>2, <1>3 DEF tell

LEMMA PlaceBeginTensor ==
    ASSUME PlaceInv, BeginTensor
    PROVE  PlaceInv'
<1> DEFINE L == mem.plan
           n == Pad(tell)
           cells == [k \in 1 .. n |-> Zero]
<1>1. /\ pc = "tensor" /\ tensor \in Tensors(L) /\ pend = <<>> /\ row = 0
      /\ L \in Plans /\ tell \in Nat /\ IsManifest(mem)
      /\ tell + Pad(tell) = Offset[L][tensor]
  BY TypeFacts DEF BeginTensor, PlaceInv, InPlace, Writing
<1>2. n \in Nat
  BY <1>1, PadReachesAlign, AlignAssumption
<1>3. cells \in Seq(Cells) /\ Len(cells) = n
  <2> HIDE DEF n
  <2> QED BY <1>2, CellTypes
<1>4. /\ Write(cells)
      /\ pc' = IF ~resuming /\ tensor = 1 THEN "initial" ELSE "check"
      /\ UNCHANGED <<fmt, input, resuming, mem, tensor, row, fpos, storage, code>>
  BY DEF BeginTensor
<1>5. pend' \in Seq(Cells) /\ tell' = tell + n
  <2> HIDE DEF n, cells
  <2> QED BY <1>2, <1>3, <1>4, WritePlace DEF PlaceInv
<1>6. tell' = Offset[L][tensor] /\ tell' <= Capacity /\ tensor \in 1 .. Count(L) + 1
  <2>1. tensor \in 1 .. Count(L) + 1
    BY <1>1, LayoutTypes DEF Tensors
  <2>2. tell' = Offset[L][tensor]
    BY <1>1, <1>5
  <2>3. QED
    BY <1>1, <2>1, <2>2, OffsetsInCapacity
<1>7. TypeOK'
  BY <1>1, <1>4, <1>5, <1>6 DEF PlaceInv, TypeOK, storage, ControlPoints, Writing
<1>8. InPlace'
  BY <1>1, <1>4, <1>6 DEF InPlace, Writing
<1>9. NoDrift'
  BY <1>4 DEF PlaceInv, NoDrift
<1>10. QED
  BY <1>7, <1>8, <1>9 DEF PlaceInv

LEMMA PlaceHashHeader ==
    ASSUME PlaceInv, HashHeader
    PROVE  PlaceInv'
<1> DEFINE L == mem.plan
<1>1. /\ pc = "initial" /\ tensor \in Tensors(L) /\ tensor = 1
      /\ tensor \in 1 .. Count(L) + 1
      /\ L \in Plans /\ IsManifest(mem)
      /\ tell = Offset[L][tensor]
  BY TypeFacts DEF HashHeader, PlaceInv, InPlace, Writing
<1>2. IsManifest(mem') /\ mem'.plan = L
  BY <1>1 DEF HashHeader, IsManifest, Committed
<1>3. /\ file' \in Files /\ fpos' \in Nat
      /\ pend' = <<>> /\ pend' \in Seq(Cells) /\ tell' = tell
  BY FlushPlace DEF HashHeader, PlaceInv
<1>4. /\ pc' = "save initial"
      /\ UNCHANGED <<fmt, input, resuming, tensor, row, manifest, durable, source, code>>
  BY DEF HashHeader
<1>5. TypeOK'
  BY <1>1, <1>2, <1>3, <1>4 DEF PlaceInv, TypeOK, ControlPoints, Writing
<1>6. InPlace'
  BY <1>1, <1>2, <1>3, <1>4 DEF InPlace, Writing
<1>7. NoDrift'
  BY <1>4 DEF PlaceInv, NoDrift
<1>8. QED
  BY <1>5, <1>6, <1>7 DEF PlaceInv

LEMMA PlaceSaveInitial ==
    ASSUME PlaceInv, SaveInitial
    PROVE  PlaceInv'
<1>1. TypeOK'
  BY DEF PlaceInv, SaveInitial, TypeOK, ControlPoints, Writing, tell
<1>2. InPlace'
  BY DEF PlaceInv, SaveInitial, InPlace, Writing, tell
<1>3. NoDrift'
  BY DEF PlaceInv, SaveInitial, NoDrift
<1>4. QED
  BY <1>1, <1>2, <1>3 DEF PlaceInv

\* The drift branch is dead: the writer is at the planned offset.
LEMMA PlaceCheckOffset ==
    ASSUME PlaceInv, CheckOffset
    PROVE  PlaceInv'
<1> DEFINE L == mem.plan
<1>1. /\ pc = "check" /\ tensor \in Tensors(L) /\ tensor \in 1 .. Count(L) + 1
      /\ L \in Plans /\ tell = Offset[L][tensor]
  BY TypeFacts DEF CheckOffset, PlaceInv, InPlace, Writing
<1>2. /\ pc' = "stream" /\ row' = 0
      /\ UNCHANGED <<fmt, input, resuming, mem, tensor, fpos, pend, storage, code>>
  BY <1>1 DEF CheckOffset
<1>3. /\ tell' = tell /\ Nbytes[L][tensor] \in Nat /\ tell \in Nat
      /\ fpos' <= Offset[L][tensor]
  <2>1. tell' = tell /\ Nbytes[L][tensor] \in Nat /\ tell \in Nat
    BY <1>1, <1>2, LayoutTypes, TypeFacts DEF tell, PlaceInv
  <2>2. fpos <= tell
    BY TypeFacts DEF tell, PlaceInv, TypeOK
  <2>3. QED
    BY <2>1, <2>2, <1>1, <1>2
<1>4. TypeOK'
  BY <1>1, <1>2, <1>3 DEF PlaceInv, TypeOK, storage, ControlPoints, Writing
<1>5. InPlace'
  BY <1>1, <1>2, <1>3 DEF InPlace, Writing
<1>6. NoDrift'
  BY <1>2 DEF PlaceInv, NoDrift
<1>7. QED
  BY <1>4, <1>5, <1>6 DEF PlaceInv

LEMMA PlaceStreamChunk ==
    ASSUME PlaceInv, NEW n \in 1 .. Capacity, StreamChunk(n)
    PROVE  PlaceInv'
<1> DEFINE L == mem.plan
           cells == [k \in 1 .. n |-> DataCell(fmt, input, tensor, row + k - 1)]
<1>1. /\ pc = "stream" /\ tensor \in Tensors(L) /\ tensor \in 1 .. Count(L) + 1
      /\ L \in Plans /\ tell \in Nat /\ IsManifest(mem)
      /\ row \in Nat /\ row + n <= Nbytes[L][tensor]
      /\ tell = Offset[L][tensor] + row
      /\ fpos <= Offset[L][tensor]
  BY TypeFacts DEF StreamChunk, PlaceInv, TypeOK, InPlace, Writing
<1>2. n \in Nat /\ n > 0 /\ Capacity \in Nat
  BY EngineAssumption
<1>3. /\ Offset[L][tensor] \in Nat /\ Nbytes[L][tensor] \in Nat
      /\ Offset[L][tensor] + Nbytes[L][tensor] <= Capacity
  BY <1>1, LayoutTypes, PlanInCapacity DEF End
<1>4. cells \in Seq(Cells) /\ Len(cells) = n
  <2>1. tensor \in Nat /\ \A k \in 1 .. n : row + k - 1 \in Positions
    BY <1>1, <1>2, <1>3 DEF Positions, Tensors
  <2>2. \A k \in 1 .. n : DataCell(fmt, input, tensor, row + k - 1) \in Cells
    BY <2>1, CellTypes DEF PlaceInv, TypeOK
  <2>3. QED
    BY <1>2, <2>2
<1>5. /\ Write(cells) /\ row' = row + n
      /\ UNCHANGED <<pc, fmt, input, resuming, mem, tensor, fpos, storage, code>>
  BY DEF StreamChunk
<1>6. pend' \in Seq(Cells) /\ tell' = tell + n
  <2> HIDE DEF cells
  <2> QED BY <1>2, <1>4, <1>5, WritePlace DEF PlaceInv
<1> HIDE DEF cells
<1>7. /\ row + n \in Nat
      /\ tell' = Offset[L][tensor] + (row + n)
      /\ tell' <= Capacity
  <2>1. tell = Offset[L][tensor] + row /\ tell' = tell + n
          /\ row \in Nat /\ row + n <= Nbytes[L][tensor]
    BY <1>1, <1>6
  <2> HIDE DEF L
  <2>2. QED
    BY <2>1, <1>2, <1>3
<1>8. TypeOK'
  BY <1>1, <1>5, <1>6, <1>7
     DEF PlaceInv, TypeOK, storage, ControlPoints, Writing
<1>9. InPlace'
  BY <1>1, <1>5, <1>6, <1>7 DEF InPlace, Writing
<1>10. NoDrift'
  BY <1>5 DEF PlaceInv, NoDrift
<1>11. QED
  BY <1>8, <1>9, <1>10 DEF PlaceInv

\* The manifest with one more hash.
LEMMA CommitType ==
    ASSUME NEW m, IsManifest(m), NEW i \in Tensors(m.plan), NEW hash
    PROVE  LET n == WithHash(m, i, hash)
           IN  /\ IsManifest(n)
               /\ n.plan = m.plan /\ n.stat = m.stat /\ n.fmt = m.fmt
               /\ n.header = m.header /\ n.status = m.status
               /\ Committed(n) = Committed(m) \cup {i}
               /\ n.sha[i] = hash
               /\ \A j \in Committed(m) \ {i} : n.sha[j] = m.sha[j]
  BY DEF IsManifest, Committed, WithHash

LEMMA PlaceHashTensor ==
    ASSUME PlaceInv, HashTensor
    PROVE  PlaceInv'
<1> DEFINE L == mem.plan
           hash == Region(FlushAll.at, Offset[L][tensor], Nbytes[L][tensor])
<1>1. /\ pc = "stream" /\ tensor \in Tensors(L) /\ tensor \in 1 .. Count(L) + 1
      /\ L \in Plans /\ tell \in Nat /\ IsManifest(mem)
      /\ row = Nbytes[L][tensor]
      /\ tell = Offset[L][tensor] + row
  BY TypeFacts DEF HashTensor, PlaceInv, InPlace, Writing
<1>2. mem' = WithHash(mem, tensor, hash)
  BY DEF HashTensor
<1>3. IsManifest(mem') /\ mem'.plan = L
  <2>1. IsManifest(mem) /\ tensor \in Tensors(mem.plan)
    BY <1>1
  <2> HIDE DEF hash
  <2>2. QED
    BY <2>1, <1>2, CommitType
<1>4. /\ file' \in Files /\ fpos' \in Nat
      /\ pend' = <<>> /\ pend' \in Seq(Cells) /\ tell' = tell
  BY FlushPlace DEF HashTensor, PlaceInv
<1>5. /\ pc' = "save commit"
      /\ UNCHANGED <<fmt, input, resuming, tensor, row, manifest, durable, source, code>>
  BY DEF HashTensor
<1>6. TypeOK'
  BY <1>1, <1>3, <1>4, <1>5 DEF PlaceInv, TypeOK, ControlPoints, Writing
<1>7. InPlace'
  BY <1>1, <1>3, <1>4, <1>5 DEF InPlace, Writing, End
<1>8. NoDrift'
  BY <1>5 DEF PlaceInv, NoDrift
<1>9. QED
  BY <1>6, <1>7, <1>8 DEF PlaceInv

LEMMA PlaceSaveCommit ==
    ASSUME PlaceInv, SaveCommit
    PROVE  PlaceInv'
<1> DEFINE L == mem.plan
<1>1. /\ pc = "save commit" /\ tensor \in Tensors(L) /\ pend = <<>>
      /\ L \in Plans /\ IsManifest(mem) /\ tell = End(L, tensor)
  BY TypeFacts DEF SaveCommit, PlaceInv, InPlace, Writing
<1>2. /\ manifest' = mem /\ tensor' = tensor + 1 /\ row' = 0 /\ pc' = "tensor"
      /\ UNCHANGED <<fmt, input, resuming, mem, fpos, pend, file, durable, source, code>>
  BY DEF SaveCommit
<1>3. tell' = tell /\ tell \in Nat
  BY <1>2, TypeFacts DEF tell, PlaceInv
<1>4. /\ tensor + 1 \in 1 .. Count(L) + 1 /\ tensor + 1 # 1
      /\ (tensor + 1) - 1 = tensor /\ tensor + 1 \in Nat
  <2>1. Count(L) \in Nat \ {0}
    BY <1>1, LayoutTypes
  <2>2. tensor \in 1 .. Count(L)
    BY <1>1 DEF Tensors
  <2>3. QED
    BY <2>1, <2>2
<1>5. tell + Pad(tell) = Offset[L][tensor + 1]
  BY <1>1, NextOffset
<1>6. TypeOK'
  BY <1>1, <1>2, <1>3, <1>4 DEF PlaceInv, TypeOK, ControlPoints, Writing
<1>7. Reached' = tell /\ Reached' <= tell'
  <2>1. Reached' = End(L, tensor)
    BY <1>2, <1>4 DEF Reached
  <2>2. tell = End(L, tensor)
    BY <1>1
  <2>3. QED
    BY <2>1, <2>2, <1>3
<1>8. InPlace'
  BY <1>1, <1>2, <1>3, <1>4, <1>5, <1>7 DEF InPlace, Writing
<1>9. NoDrift'
  BY <1>2 DEF PlaceInv, NoDrift
<1>10. QED
  BY <1>6, <1>8, <1>9 DEF PlaceInv

LEMMA PlaceSaveComplete ==
    ASSUME PlaceInv, SaveComplete
    PROVE  PlaceInv'
<1>1. /\ pc = "tensor" /\ tensor \notin Tensors(mem.plan) /\ pend = <<>>
      /\ IsManifest(mem)
  BY TypeFacts DEF SaveComplete, PlaceInv, InPlace, Writing
<1>2. /\ mem' = [mem EXCEPT !.status = "complete"] /\ manifest' = mem'
      /\ pc' = "close"
      /\ UNCHANGED <<fmt, input, resuming, tensor, row, fpos, pend, file,
                     durable, source, code>>
  BY DEF SaveComplete
<1>3. IsManifest(mem') /\ mem'.plan = mem.plan
  BY <1>1, <1>2 DEF IsManifest, Committed
<1>4. tell' = tell
  BY <1>2 DEF tell
<1>5. TypeOK'
  BY <1>1, <1>2, <1>3, <1>4 DEF PlaceInv, TypeOK, ControlPoints, Writing
<1>6. Reached' = Reached
  BY <1>2, <1>3 DEF Reached
<1>7. InPlace'
  BY <1>1, <1>2, <1>3, <1>4, <1>6 DEF PlaceInv, InPlace, Writing
<1>8. NoDrift'
  BY <1>2 DEF PlaceInv, NoDrift
<1>9. QED
  BY <1>5, <1>7, <1>8 DEF PlaceInv

LEMMA PlaceClose ==
    ASSUME PlaceInv, Close
    PROVE  PlaceInv'
<1>1. file' \in Files
  BY FlushAllType DEF PlaceInv, Close
<1>2. QED
  BY <1>1, ExitPlace DEF Close, PlaceInv, TypeOK, Outcomes

LEMMA PlaceFault ==
    ASSUME PlaceInv, Fault
    PROVE  PlaceInv'
<1>1. ASSUME NEW k \in 0 .. Len(pend), Crash(k)
      PROVE  PlaceInv'
  <2>1. file' \in Files
    BY <1>1, FlushedType DEF PlaceInv, Crash
  <2>2. QED
    BY <1>1, <2>1, ExitPlace DEF Crash, PlaceInv, TypeOK, Outcomes
<1>2. CASE Writeback
  BY <1>2 DEF PlaceInv, Writeback, process, TypeOK, InPlace, NoDrift, tell, Reached
<1>3. ASSUME NEW len \in 0 .. file.len, NEW lost \in SUBSET (0 .. len - 1),
             NEW m \in {manifest, durable}, PowerLoss(len, lost, m)
      PROVE  PlaceInv'
  <2>1. file' \in Files
    <3>1. file.len \in 0 .. Capacity /\ file.at \in [Positions -> Cells]
      BY DEF PlaceInv, TypeOK, Files
    <3>2. len \in 0 .. Capacity
      BY <3>1, EngineAssumption
    <3>3. QED
      BY <1>3, <3>1, <3>2, CellTypes DEF PowerLoss, Files
  <2>2. QED
    BY <1>3, <2>1, ExitPlace DEF PowerLoss, PlaceInv, TypeOK, Outcomes
<1>4. ASSUME NEW p \in Positions, Corrupt(p)
      PROVE  PlaceInv'
  <2>1. file' \in Files
    BY <1>4, CellTypes DEF PlaceInv, TypeOK, Corrupt, Files
  <2>2. QED
    BY <1>4, <2>1
       DEF Corrupt, process, PlaceInv, TypeOK, InPlace, NoDrift, Outcomes, tell, Reached
<1>5. ASSUME NEW v \in Versions \ {source}, EditSource(v)
      PROVE  PlaceInv'
  <2>1. UNCHANGED <<process, file, manifest, durable>> /\ source' \in Versions
          /\ (code' = "none" \/ code' = code)
    BY <1>5 DEF EditSource
  <2>2. TypeOK'
    BY <2>1 DEF process, PlaceInv, TypeOK, Outcomes, tell
  <2>3. InPlace'
    BY <2>1 DEF process, PlaceInv, InPlace, tell, Reached
  <2>4. NoDrift'
    BY <2>1 DEF PlaceInv, NoDrift
  <2>5. QED
    BY <2>2, <2>3, <2>4 DEF PlaceInv
<1>6. QED
  BY <1>1, <1>2, <1>3, <1>4, <1>5 DEF Fault

LEMMA PlaceNext ==
    ASSUME PlaceInv, [Next]_vars
    PROVE  PlaceInv'
<1>1. CASE UNCHANGED vars
  BY <1>1 DEF vars, process, storage, PlaceInv, TypeOK, InPlace, NoDrift, tell, Reached
<1>2. CASE Step
  BY <1>2, PlacePrepareResume, PlaceBeginData, PlaceWriteHeader, PlaceBeginTensor,
     PlaceHashHeader, PlaceSaveInitial, PlaceCheckOffset, PlaceStreamChunk,
     PlaceHashTensor, PlaceSaveCommit, PlaceSaveComplete, PlaceClose DEF Step
<1>3. QED
  BY <1>1, <1>2, PlaceStart, PlaceFault DEF Next

\* For every plan, every history of crashes, power losses, corruptions,
\* edits and reruns, and even for a source whose stat identifies nothing:
\* the variables keep their types.
THEOREM TypeCorrect == Spec => []TypeOK
<1>1. PlaceInv => TypeOK
  BY DEF PlaceInv
<1>2. QED
  BY <1>1, PlaceInit, PlaceNext, PTL DEF Spec

\* Under the same conditions the writer reaches every tensor at its planned
\* offset, in fresh and in resumed runs: the check of engine.py:288 never
\* fires.
THEOREM OffsetsNeverDrift == Spec => []NoDrift
<1>1. PlaceInv => NoDrift
  BY DEF PlaceInv
<1>2. QED
  BY <1>1, PlaceInit, PlaceNext, PTL DEF Spec
=============================================================================
