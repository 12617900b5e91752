------------------------------ MODULE MCEngine ------------------------------
(***************************************************************************)
(* Small instances of Engine for TLC.  Plans are numbers; plan tables are  *)
(* written out except for the offsets, which are computed by the source's  *)
(* recurrence.                                                             *)
(***************************************************************************)
EXTENDS EngineInv, TLC

CONSTANTS q8, q4, v1, v2

MCALIGN == 3

\* Plan 1: unaligned header and tensors, padding of one and of two bytes.
\* Plan 2: the other format; everything aligned, no padding at all.
\* Plan 3: two small tensors, for the runs whose faults have most outcomes.
\* Plan 4: plan 1 with a last tensor of another size.
MCHeaderLen == <<2, 3, 1, 2>>
MCNbytes == <<<<4, 1, 3>>, <<3, 3>>, <<1, 2>>, <<4, 1, 2>>>>

RoundUp(n) == ((n + 2) \div 3) * 3
MCOffset ==
    [L \in 1 .. 4 |->
        LET O[i \in 1 .. Len(MCNbytes[L]) + 1] ==
              IF i = 1 THEN RoundUp(MCHeaderLen[L])
              ELSE RoundUp(O[i - 1] + MCNbytes[L][i - 1])
        IN  O]
MCCapacity == 15

\* Two formats, two versions of a GGUF file: its stat tells them apart.
Both == {q8, q4}
OneFormat == {q8}
TwoVersions == {v1, v2}
OneVersion == {v1}

FileStat == [v \in Versions |-> v]
FilePlans ==
    [f \in Formats |-> [v \in Versions |->
        IF f = q4 THEN 2 ELSE IF v = v1 THEN 1 ELSE 4]]

\* A directory of shards: rewriting a shard in place changes neither the
\* size nor the mtime of the directory.
DirStat == [v \in Versions |-> v1]
SamePlans == [f \in Formats |-> [v \in Versions |-> 1]]

SmallPlans == [f \in Formats |-> [v \in Versions |-> 3]]

Crashes == {"crash"}
CrashesAndEdits == {"crash", "edit"}
AllButPower == {"crash", "corrupt", "edit"}
CrashesAndReruns == {"crash", "rerun"}
PowerLosses == {"powerloss"}
AllOnOneFile == FaultKinds \ {"edit"}
=============================================================================
