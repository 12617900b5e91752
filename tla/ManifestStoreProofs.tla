------------------------- MODULE ManifestStoreProofs -------------------------
(***************************************************************************)
(* The manifest path never leads to half a manifest, and saving is an      *)
(* atomic register, for any number of savers, manifests and files, and     *)
(* with every fault.                                                       *)
(***************************************************************************)
EXTENDS ManifestStore, TLAPS

\* A saver's file is its own, and neither the current nor the durable one.
LEMMA SaverFile ==
    ASSUME StoreInv, NEW p \in Active
    PROVE  /\ p \in Savers /\ tmp[p] \in Inodes /\ tmp[p] \in names
           /\ tmp[p] # entry /\ tmp[p] # stable
  BY DEF StoreInv, TypeOK, Active

LEMMA StoreInit == Init => StoreInv
  BY StoreAssumption DEF Init, StoreInv, TypeOK, Active

LEMMA MkstempStep ==
    ASSUME StoreInv, NEW p \in Savers, NEW v \in Values, NEW i \in Inodes,
           Mkstemp(p, v, i)
    PROVE  StoreInv'
<1>1. /\ i \notin names /\ i # entry /\ i # stable
      /\ UNCHANGED <<entry, stable>>
      /\ names' = names \cup {i}
      /\ i # None
  BY StoreAssumption DEF Mkstemp, Fresh
<1>2. Active' = Active \cup {p} /\ p \notin Active
  BY DEF Mkstemp, Active, StoreInv, TypeOK
<1>3. TypeOK'
  BY StoreAssumption DEF StoreInv, TypeOK, Mkstemp
<1>4. tmp'[p] = i /\ \A q \in Active : tmp'[q] = tmp[q] /\ tmp[q] # i
  BY <1>1, <1>2 DEF Mkstemp, StoreInv, TypeOK, Active
<1>5. /\ data'[i].of = v
      /\ \A j \in Inodes \ {i} : data'[j] = data[j] /\ disk'[j] = disk[j]
  BY DEF Mkstemp, StoreInv, TypeOK
<1>6. \A q \in Active' : tmp'[q] \in names'
  BY <1>1, <1>2, <1>4 DEF StoreInv
<1>7. \A q, r \in Active' : tmp'[q] = tmp'[r] => q = r
  BY <1>2, <1>4 DEF StoreInv
<1>8. \A q \in Active : tmp[q] \in Inodes
  BY SaverFile
<1>9. \A q \in Active' : data'[tmp'[q]].of \in Values
  BY <1>2, <1>4, <1>5, <1>8 DEF StoreInv
<1>10. \A q \in Savers : pc'[q] = "synced" =>
          data'[tmp'[q]].len = Size /\ disk'[tmp'[q]] = Size
  <2>1. \A q \in Savers : pc'[q] = "synced" => q \in Active /\ pc[q] = "synced"
    BY DEF Mkstemp, StoreInv, TypeOK, Active
  <2>2. QED
    BY <2>1, <1>4, <1>5, <1>8 DEF StoreInv
<1>11. {entry', stable'} \cap names' = {}
  BY <1>1 DEF StoreInv
<1>12. \A j \in {entry', stable'} \ {None} :
          data'[j].len = Size /\ disk'[j] = Size /\ data'[j].of \in Values
  BY <1>1, <1>5 DEF StoreInv, TypeOK
<1>13. QED
  BY <1>3, <1>6, <1>7, <1>9, <1>10, <1>11, <1>12 DEF StoreInv

\* What Write and Fsync have in common: they touch the saver's own file only.
LEMMA OwnFileStep ==
    ASSUME StoreInv, NEW p \in Active, TypeOK',
           UNCHANGED <<tmp, names, entry, stable>>,
           \A j \in Inodes \ {tmp[p]} : data'[j] = data[j] /\ disk'[j] = disk[j],
           data'[tmp[p]].of = data[tmp[p]].of,
           \A q \in Savers \ {p} : pc'[q] = pc[q],
           pc'[p] # "idle",
           pc'[p] = "synced" => data'[tmp[p]].len = Size /\ disk'[tmp[p]] = Size
    PROVE  StoreInv'
<1>1. Active' = Active
  BY DEF Active
<1>2. \A q \in Active \ {p} : tmp[q] \in Inodes \ {tmp[p]}
  BY SaverFile DEF StoreInv
<1>3. \A q \in Active' : data'[tmp'[q]].of \in Values
  BY <1>1, <1>2 DEF StoreInv
<1>4. ASSUME NEW q \in Savers, pc'[q] = "synced"
      PROVE  data'[tmp'[q]].len = Size /\ disk'[tmp'[q]] = Size
  <2>1. CASE q = p
    BY <1>4, <2>1
  <2>2. CASE q # p
    <3>1. q \in Active /\ pc[q] = "synced"
      BY <1>4, <2>2 DEF Active
    <3>2. QED
      BY <3>1, <2>2, <1>2 DEF StoreInv
  <2>3. QED
    BY <2>1, <2>2
<1>5. \A j \in {entry, stable} \ {None} : j \in Inodes \ {tmp[p]}
  BY SaverFile DEF StoreInv, TypeOK
<1>6. QED
  BY <1>1, <1>3, <1>4, <1>5 DEF StoreInv

LEMMA WriteStep ==
    ASSUME StoreInv, NEW p \in Savers, Write(p)
    PROVE  StoreInv'
<1>1. p \in Active /\ tmp[p] \in Inodes /\ pc[p] = "writing"
  BY SaverFile DEF Write, Active
<1>2. TypeOK'
  <2>1. data[tmp[p]].len + 1 \in 0 .. Size
    BY <1>1, StoreAssumption DEF Write, StoreInv, TypeOK
  <2>2. data' \in [Inodes -> [of : Values \cup {None}, len : 0 .. Size]]
    BY <1>1, <2>1 DEF Write, StoreInv, TypeOK
  <2>3. QED
    BY <2>2 DEF Write, StoreInv, TypeOK
<1>3. /\ \A j \in Inodes \ {tmp[p]} : data'[j] = data[j] /\ disk'[j] = disk[j]
      /\ data'[tmp[p]].of = data[tmp[p]].of
      /\ UNCHANGED <<pc, tmp, names, entry, stable>>
  BY <1>1 DEF Write, StoreInv, TypeOK
<1>4. QED
  BY <1>1, <1>2, <1>3, OwnFileStep

LEMMA FsyncStep ==
    ASSUME StoreInv, NEW p \in Savers, Fsync(p)
    PROVE  StoreInv'
<1>1. p \in Active /\ tmp[p] \in Inodes /\ data[tmp[p]].len = Size
  BY SaverFile DEF Fsync, Active
<1>2. TypeOK'
  BY <1>1, StoreAssumption DEF Fsync, StoreInv, TypeOK
<1>3. /\ \A j \in Inodes \ {tmp[p]} : data'[j] = data[j] /\ disk'[j] = disk[j]
      /\ data' = data /\ disk'[tmp[p]] = Size
      /\ UNCHANGED <<tmp, names, entry, stable>>
      /\ pc'[p] = "synced" /\ \A q \in Savers \ {p} : pc'[q] = pc[q]
  BY <1>1 DEF Fsync, StoreInv, TypeOK
<1>4. QED
  BY <1>1, <1>2, <1>3, OwnFileStep

\* A saver that leaves takes nothing from the others.
LEMMA LeaveStep ==
    ASSUME StoreInv, NEW p \in Active, Leave(p), UNCHANGED <<data, disk>>,
           names \ {tmp[p]} \subseteq names', names' \subseteq names
    PROVE  /\ Active' = Active \ {p}
           /\ names' \subseteq Inodes
           /\ pc' \in [Savers -> {"idle", "writing", "synced"}]
           /\ tmp' \in [Savers -> Inodes \cup {None}]
           /\ \A q \in Active' : tmp'[q] \in names'
           /\ \A q, r \in Active' : tmp'[q] = tmp'[r] => q = r
           /\ \A q \in Active' : data'[tmp'[q]].of \in Values
           /\ \A q \in Savers : pc'[q] = "synced" =>
                 data'[tmp'[q]].len = Size /\ disk'[tmp'[q]] = Size
<1>1. Active' = Active \ {p}
  BY DEF Leave, Active, StoreInv, TypeOK
<1>2. \A q \in Active \ {p} : tmp'[q] = tmp[q] /\ pc'[q] = pc[q] /\ tmp[q] # tmp[p]
  BY DEF Leave, Active, StoreInv, TypeOK
<1>3. \A q \in Savers : pc'[q] = "synced" => q \in Active \ {p}
  BY DEF Leave, Active, StoreInv, TypeOK
<1>4. /\ pc' \in [Savers -> {"idle", "writing", "synced"}]
      /\ tmp' \in [Savers -> Inodes \cup {None}]
  BY DEF Leave, StoreInv, TypeOK
<1>5. \A q \in Savers : pc'[q] = "synced" =>
         data'[tmp'[q]].len = Size /\ disk'[tmp'[q]] = Size
  BY <1>2, <1>3 DEF StoreInv, Active
<1>6. QED
  BY <1>1, <1>2, <1>4, <1>5 DEF StoreInv, TypeOK

LEMMA ReplaceStep ==
    ASSUME StoreInv, NEW p \in Savers, Replace(p)
    PROVE  StoreInv'
<1>1. p \in Active /\ pc[p] = "synced"
  BY DEF Replace, Active
<1>2. /\ tmp[p] \in Inodes /\ tmp[p] \in names
      /\ entry' = tmp[p] /\ stable' = stable /\ names' = names \ {tmp[p]}
      /\ Leave(p) /\ UNCHANGED <<data, disk, strays>>
  BY <1>1, SaverFile DEF Replace
<1>3. /\ data[tmp[p]].len = Size /\ disk[tmp[p]] = Size /\ data[tmp[p]].of \in Values
  BY <1>1 DEF StoreInv
<1>4. \A j \in {entry', stable'} \ {None} :
         data'[j].len = Size /\ disk'[j] = Size /\ data'[j].of \in Values
  BY <1>2, <1>3 DEF StoreInv
<1>5. {entry', stable'} \cap names' = {}
  BY <1>2 DEF StoreInv
<1>6. TypeOK'
  BY <1>1, <1>2, LeaveStep DEF StoreInv, TypeOK
<1>7. QED
  BY <1>1, <1>2, <1>4, <1>5, <1>6, LeaveStep DEF StoreInv

LEMMA FailStep ==
    ASSUME StoreInv, NEW p \in Savers, Fail(p) \/ Kill(p)
    PROVE  StoreInv'
<1>1. p \in Active
  BY DEF Fail, Kill, Active
<1>2. /\ names \ {tmp[p]} \subseteq names' /\ names' \subseteq names
      /\ UNCHANGED <<entry, stable, data, disk>> /\ Leave(p)
  BY DEF Fail, Kill
<1>7. strays' \subseteq Inodes
  BY <1>1, SaverFile DEF Fail, Kill, StoreInv, TypeOK
<1>3. TypeOK'
  BY <1>1, <1>2, <1>7, LeaveStep DEF StoreInv, TypeOK
<1>4. {entry', stable'} \cap names' = {}
  BY <1>2 DEF StoreInv
<1>5. \A j \in {entry', stable'} \ {None} :
         data'[j].len = Size /\ disk'[j] = Size /\ data'[j].of \in Values
  BY <1>2 DEF StoreInv
<1>6. QED
  BY <1>1, <1>2, <1>3, <1>4, <1>5, LeaveStep DEF StoreInv

LEMMA WritebackStep ==
    ASSUME StoreInv, NEW i \in Inodes, WritebackData(i)
    PROVE  StoreInv'
<1>1. /\ disk' = [disk EXCEPT ![i] = @ + 1]
      /\ disk[i] \in 0 .. Size /\ data[i].len \in 0 .. Size /\ disk[i] < data[i].len
      /\ UNCHANGED <<pc, tmp, names, entry, stable, data, strays>>
  BY DEF WritebackData, StoreInv, TypeOK
<1>2. disk[i] + 1 \in 0 .. Size /\ disk[i] # Size
  BY <1>1, StoreAssumption
<1>3. disk' \in [Inodes -> 0 .. Size]
  BY <1>1, <1>2 DEF StoreInv, TypeOK
<1>4. \A j \in Inodes : disk[j] = Size => disk'[j] = Size
  BY <1>1, <1>2 DEF StoreInv, TypeOK
<1>5. Active' = Active
  BY <1>1 DEF Active
<1>6. \A p \in Savers : pc[p] = "synced" => tmp[p] \in Inodes
  BY SaverFile DEF Active
<1>7. \A p \in Savers : pc'[p] = "synced" =>
         data'[tmp'[p]].len = Size /\ disk'[tmp'[p]] = Size
  BY <1>1, <1>4, <1>6 DEF StoreInv
<1>8. \A j \in {entry, stable} \ {None} : j \in Inodes
  BY DEF StoreInv, TypeOK
<1>9. QED
  BY <1>1, <1>3, <1>4, <1>5, <1>7, <1>8 DEF StoreInv, TypeOK

LEMMA PowerLossStep ==
    ASSUME StoreInv, PowerLoss
    PROVE  StoreInv'
<1>1. Active' = {}
  BY DEF PowerLoss, Active
<1>2. TypeOK'
  BY DEF PowerLoss, StoreInv, TypeOK
<1>3. {entry', stable'} \cap names' = {}
  BY StoreAssumption DEF PowerLoss, StoreInv, TypeOK
<1>4. /\ entry' = stable /\ stable' = stable /\ disk' = disk
      /\ \A j \in Inodes : data'[j].len = disk[j] /\ data'[j].of = data[j].of
  BY DEF PowerLoss, StoreInv, TypeOK
<1>5. \A j \in {entry', stable'} \ {None} :
         data'[j].len = Size /\ disk'[j] = Size /\ data'[j].of \in Values
  BY <1>4 DEF StoreInv, TypeOK
<1>6. \A p \in Savers : pc'[p] = "idle"
  BY DEF PowerLoss
<1>7. QED
  BY <1>1, <1>2, <1>3, <1>5, <1>6 DEF StoreInv

LEMMA StoreStep == StoreInv /\ [Next]_vars => StoreInv'
<1> SUFFICES ASSUME StoreInv, [Next]_vars PROVE StoreInv'
  OBVIOUS
<1>1. ASSUME NEW p \in Savers, NEW v \in Values, NEW i \in Inodes, Mkstemp(p, v, i)
      PROVE  StoreInv'
  BY <1>1, MkstempStep
<1>2. ASSUME NEW p \in Savers, Write(p) \/ Fsync(p) \/ Replace(p) \/ Fail(p) \/ Kill(p)
      PROVE  StoreInv'
  BY <1>2, WriteStep, FsyncStep, ReplaceStep, FailStep
<1>3. ASSUME NEW i \in Inodes, WritebackData(i)
      PROVE  StoreInv'
  BY <1>3, WritebackStep
<1>4. ASSUME WritebackEntry
      PROVE  StoreInv'
  BY <1>4 DEF WritebackEntry, StoreInv, TypeOK, Active
<1>5. ASSUME PowerLoss
      PROVE  StoreInv'
  BY <1>5, PowerLossStep
<1>6. CASE UNCHANGED vars
  BY <1>6 DEF vars, StoreInv, TypeOK, Active
<1>7. QED
  BY <1>1, <1>2, <1>3, <1>4, <1>5, <1>6 DEF Next

THEOREM StoreInvariant == Spec => []StoreInv
  BY StoreInit, StoreStep, PTL DEF Spec

\* The manifest path never leads to half a manifest (manifest.py:64), for any
\* number of processes that save, fail, are killed and lose power.
THEOREM ManifestNeverTorn == Spec => []NeverTorn
<1>1. StoreInv => NeverTorn
  BY DEF StoreInv, NeverTorn
<1>2. QED
  BY <1>1, StoreInvariant, PTL
-----------------------------------------------------------------------------
(* Temporary files.                                                        *)

Owned == {tmp[q] : q \in Active}

LEMMA StraysStep == StoreInv /\ NoStrays /\ [Next]_vars => NoStrays'
<1> SUFFICES ASSUME StoreInv, NoStrays, [Next]_vars PROVE NoStrays'
  OBVIOUS
<1>1. ASSUME NEW p \in Savers, NEW v \in Values, NEW i \in Inodes, Mkstemp(p, v, i)
      PROVE  NoStrays'
  <2>1. Active' = Active \cup {p} /\ p \notin Active
    BY <1>1 DEF Mkstemp, Active, StoreInv, TypeOK
  <2>2. tmp'[p] = i /\ \A q \in Active : tmp'[q] = tmp[q]
    BY <1>1, <2>1 DEF Mkstemp, StoreInv, TypeOK, Active
  <2>3. Owned' = Owned \cup {i}
    BY <2>1, <2>2, Zenon DEF Owned
  <2>4. i \notin names /\ names' = names \cup {i} /\ strays' = strays
    BY <1>1 DEF Mkstemp, Fresh
  <2>5. QED
    BY <2>1, <2>2, <2>3, <2>4 DEF NoStrays, Owned
<1>2. ASSUME NEW p \in Savers, Write(p) \/ Fsync(p)
      PROVE  NoStrays'
  <2>1. Active' = Active
    BY <1>2 DEF Write, Fsync, Active, StoreInv, TypeOK
  <2>2. UNCHANGED <<tmp, names, strays>>
    BY <1>2 DEF Write, Fsync
  <2>3. QED
    BY <2>1, <2>2 DEF NoStrays
<1>3. ASSUME NEW p \in Savers, Replace(p) \/ Fail(p) \/ Kill(p)
      PROVE  NoStrays'
  <2>1. p \in Active
    BY <1>3 DEF Replace, Fail, Kill, Active
  <2>2. Active' = Active \ {p}
    BY <1>3 DEF Replace, Fail, Kill, Leave, Active, StoreInv, TypeOK
  <2>3. \A q \in Active' : tmp'[q] = tmp[q] /\ tmp[q] # tmp[p]
    BY <1>3, <2>1, <2>2 DEF Replace, Fail, Kill, Leave, Active, StoreInv, TypeOK
  <2>4. Owned' = Owned \ {tmp[p]}
    BY <2>1, <2>2, <2>3, Zenon DEF Owned
  <2>5. tmp[p] \notin strays /\ tmp[p] \in Owned
    BY <2>1, Zenon DEF NoStrays, Owned
  <2>6. \/ names' = names \ {tmp[p]} /\ strays' = strays
        \/ names' = names /\ strays' = strays \cup {tmp[p]}
    BY <1>3 DEF Replace, Fail, Kill
  <2>7. names' = strays' \cup Owned'
    BY <2>4, <2>5, <2>6 DEF NoStrays, Owned
  <2>8. \A q \in Active' : tmp'[q] \notin strays'
    BY <2>2, <2>3, <2>6 DEF NoStrays
  <2>9. QED
    BY <2>7, <2>8 DEF NoStrays, Owned
<1>4. ASSUME \/ WritebackEntry
             \/ \E i \in Inodes : WritebackData(i)
             \/ UNCHANGED vars
      PROVE  NoStrays'
  <2>1. UNCHANGED <<pc, tmp, names, strays>>
    BY <1>4 DEF WritebackEntry, WritebackData, vars
  <2>2. Active' = Active
    BY <2>1 DEF Active
  <2>3. QED
    BY <2>1, <2>2 DEF NoStrays
<1>5. ASSUME PowerLoss
      PROVE  NoStrays'
  <2>1. Active' = {} /\ strays' = names'
    BY <1>5 DEF PowerLoss, Active
  <2>2. Owned' = {}
    BY <2>1, Zenon DEF Owned
  <2>3. QED
    BY <2>1, <2>2 DEF NoStrays, Owned
<1>6. QED
  BY <1>1, <1>2, <1>3, <1>4, <1>5 DEF Next

\* A failed save never leaves its temporary file, nor takes another saver's
\* (manifest.py:76): only kills and power losses leave any.
THEOREM OnlyKillsLeaveStrays == Spec => []NoStrays
<1>1. Init => NoStrays
  BY DEF Init, NoStrays, Active
<1>2. QED
  BY <1>1, StoreInvariant, StraysStep, PTL DEF Spec
-----------------------------------------------------------------------------
(* The register.                                                           *)

value == IF entry = None THEN None ELSE Parsed(entry, data[entry].len)
stableValue == IF stable = None THEN None ELSE Parsed(stable, disk[stable])

\* Both files are whole, so both are what their saver meant.
LEMMA WholeValues ==
    StoreInv => /\ value = IF entry = None THEN None ELSE data[entry].of
                /\ stableValue = IF stable = None THEN None ELSE data[stable].of
  BY DEF StoreInv, TypeOK, value, stableValue, Parsed

LEMMA WholeValuesNext ==
    (StoreInv => /\ value = IF entry = None THEN None ELSE data[entry].of
                 /\ stableValue = IF stable = None THEN None ELSE data[stable].of)'
  BY WholeValues, PTL

\* Saving is atomic for whoever looks through the path: every step of the
\* savers and of the file system is a step of ManifestRegister, or none.
THEOREM StoreImplementsRegister == Spec => ImplementsRegister
<1>1. Init => Register!Init
  BY DEF Init, Register!Init, Parsed
<1>2. StoreInv /\ [Next]_vars => [Register!Next]_Register!vars
  <2> SUFFICES ASSUME StoreInv, [Next]_vars
               PROVE  [Register!Next]_<<value, stableValue>>
    BY DEF Register!vars, value, stableValue
  <2>0. /\ value = IF entry = None THEN None ELSE data[entry].of
        /\ stableValue = IF stable = None THEN None ELSE data[stable].of
        /\ value' = IF entry' = None THEN None ELSE data'[entry'].of
        /\ stableValue' = IF stable' = None THEN None ELSE data'[stable'].of
    BY WholeValues, WholeValuesNext, StoreStep
  <2>1. ASSUME NEW p \in Savers, NEW v \in Values, NEW i \in Inodes, Mkstemp(p, v, i)
        PROVE  UNCHANGED <<value, stableValue>>
    BY <2>1, <2>0 DEF Mkstemp, Fresh, StoreInv, TypeOK
  <2>2. ASSUME NEW p \in Savers, Write(p)
        PROVE  UNCHANGED <<value, stableValue>>
    <3>1. tmp[p] \in Inodes /\ tmp[p] # entry /\ tmp[p] # stable
      BY <2>2, <2>0, SaverFile DEF Write, Active
    <3>2. QED
      BY <2>2, <2>0, <3>1 DEF Write, StoreInv, TypeOK
  <2>3. ASSUME NEW p \in Savers, Fsync(p) \/ Fail(p) \/ Kill(p)
        PROVE  UNCHANGED <<value, stableValue>>
    BY <2>3, <2>0 DEF Fsync, Fail, Kill
  <2>4. ASSUME NEW p \in Savers, Replace(p)
        PROVE  Register!Next
    <3>1. tmp[p] \in Inodes /\ data[tmp[p]].of \in Values /\ tmp[p] # None
      BY <2>4, <2>0, SaverFile, StoreAssumption DEF Replace, Active, StoreInv
    <3>2. value' = data[tmp[p]].of /\ stableValue' = stableValue
      BY <2>4, <2>0, <3>1 DEF Replace
    <3>3. Register!Save(data[tmp[p]].of)
      BY <3>2 DEF Register!Save, value, stableValue
    <3>4. QED
      BY <3>1, <3>3 DEF Register!Next
  <2>5. ASSUME NEW i \in Inodes, WritebackData(i)
        PROVE  UNCHANGED <<value, stableValue>>
    BY <2>5, <2>0 DEF WritebackData
  <2>6. ASSUME WritebackEntry
        PROVE  Register!Next
    <3>1. stableValue' = value /\ value' = value
      BY <2>6, <2>0 DEF WritebackEntry
    <3>2. Register!Writeback
      BY <3>1 DEF Register!Writeback, value, stableValue
    <3>3. QED
      BY <3>2 DEF Register!Next
  <2>7. ASSUME PowerLoss
        PROVE  Register!Next
    <3>1. \A j \in Inodes : data'[j].of = data[j].of
      BY <2>7, <2>0 DEF PowerLoss, StoreInv, TypeOK
    <3>2. value' = stableValue /\ stableValue' = stableValue
      BY <2>7, <2>0, <3>1 DEF PowerLoss, StoreInv, TypeOK
    <3>3. Register!PowerLoss
      BY <3>2 DEF Register!PowerLoss, value, stableValue
    <3>4. QED
      BY <3>3 DEF Register!Next
  <2>8. CASE UNCHANGED vars
    BY <2>8, <2>0 DEF vars
  <2>9. QED
    BY <2>1, <2>2, <2>3, <2>4, <2>5, <2>6, <2>7, <2>8 DEF Next
<1>3. QED
  BY <1>1, <1>2, StoreInvariant, PTL DEF Spec, ImplementsRegister, Register!Spec
=============================================================================
