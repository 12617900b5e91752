------------------------------- MODULE Engine -------------------------------
(***************************************************************************)
(* The quantization job of featherquant: `quantize_model` with             *)
(* `_prepare_resume`, the two writers of gguf_io.py, and what survives the *)
(* process that runs them: the output file and its sidecar manifest.       *)
(*                                                                         *)
(* A run is started by a user or a script (Start), fresh or with --resume, *)
(* walks through the plan tensor by tensor, and ends by itself or because  *)
(* it is killed, raises, or the machine loses power.  The next run finds   *)
(* whatever the last one left behind.                                      *)
(*                                                                         *)
(* Abstractions.                                                           *)
(*  - A byte is a cell that says where its value comes from (format,       *)
(*    version of the source, tensor, index in the tensor).  Two files are  *)
(*    equal when their cells are.                                          *)
(*  - A sha256 is the hashed region itself, a function on positions, so    *)
(*    two hashes are equal exactly when the regions are.                   *)
(*  - os.stat of the source is Stat[v]: (path, size, mtime) for version v. *)
(*  - The Python write buffer may spill early.  Nobody but the process     *)
(*    sees the difference until it dies, so Crash(k) lets any prefix of    *)
(*    the buffer reach the file.                                           *)
(*  - Manifest.save is atomic: ManifestStore refines that step.            *)
(*  - Progress events, stats and the working budget are left out; which    *)
(*    chunk sizes the budget allows is left open (StreamChunk(n), any n).  *)
(***************************************************************************)
EXTENDS Layout, FiniteSets

CONSTANTS
    Formats,    \* output formats (--format)
    Versions,   \* contents the source may have over time
    Stat,       \* Stat[v]: what os.stat reports of the source holding v
    PlanOf,     \* PlanOf[f][v]: the plan computed for format f, source v
    Capacity,   \* a bound on the positions of a file, beyond every plan
    MaxBad,     \* bound: bytes that may be bad at the same time
    Faults,     \* which of the faults below may happen
    SwapPoints, \* where in a run the source may be replaced under it
    NoManifest, \* the manifest file does not exist
    NoHash      \* a hash that has not been computed yet

VARIABLES
    \* the process
    pc,         \* what it does next; "idle" when no process runs
    fmt,        \* format of this or the last run
    input,      \* content of the source this or the last run has opened
    resuming,   \* quantize_model's `resuming`
    mem,        \* the Manifest object in memory
    tensor,     \* index of the tensor being written
    row,        \* how much of it has been written
    fpos,       \* position of the file below the write buffer
    pend,       \* the write buffer: bytes not yet given to the OS
    \* what survives it
    file,       \* output file as the OS shows it: length and cells
    manifest,   \* manifest file as the OS shows it
    durable,    \* manifest file as it is on stable storage
    source,     \* content of the source model, as its path leads to it
    \* what the caller saw
    code        \* how the last run ended

process == <<pc, fmt, input, resuming, mem, tensor, row, fpos, pend>>
storage == <<file, manifest, durable, source>>
vars == <<process, storage, code>>

FaultKinds == {"crash", "powerloss", "corrupt", "edit", "rerun"}

ControlPoints == {"idle", "verify", "begin", "header", "tensor", "initial",
                  "save initial", "check", "stream", "save commit", "close"}

\* A run has a manifest in memory from the header to the end.
Writing == {"tensor", "initial", "save initial", "check", "stream",
            "save commit", "close"}

ASSUME EngineAssumption ==
    /\ Faults \subseteq FaultKinds
    /\ SwapPoints \subseteq ControlPoints \ {"idle"}
    /\ Capacity \in Nat
    /\ \A L \in Plans : Offset[L][Count(L) + 1] <= Capacity
    /\ PlanOf \in [Formats -> [Versions -> Plans]]
-----------------------------------------------------------------------------
(* Cells, regions and hashes.                                              *)

Positions == 0 .. Capacity - 1

Zero == <<"zero">>
Bad == <<"bad">>
HeaderCell(f, v, p) == <<"header", f, v, p>>
DataCell(f, v, i, k) == <<"data", f, v, i, k>>

Cells == {Zero, Bad} \cup ({"header"} \X Formats \X Versions \X Positions)
                    \cup ({"data"} \X Formats \X Versions \X Nat \X Positions)

Files == [len : 0 .. Capacity, at : [Positions -> Cells]]
EmptyFile == [len |-> 0, at |-> [p \in Positions |-> Zero]]

\* What `sha256_file_region` tells of the n bytes at off; it raises unless
\* Readable.
Region(cells, off, n) == [p \in off .. off + n - 1 |-> cells[p]]
Readable(F, off, n) == off + n <= F.len

\* The file an uninterrupted run makes of source v in format f: the
\* reference every property below compares with.
Output ==
    [f \in Formats |-> [v \in Versions |->
        LET L == PlanOf[f][v]
            Of(p) == {i \in Tensors(L) : p \in Span(L, i)}
        IN  [p \in Positions |->
                IF p < HeaderLen[L] THEN HeaderCell(f, v, p)
                ELSE IF Of(p) = {} THEN Zero
                ELSE LET i == CHOOSE i \in Of(p) : TRUE
                     IN  DataCell(f, v, i, p - Offset[L][i])]]]

IsOutput(F, f, v) ==
    /\ F.len = Size(PlanOf[f][v])
    /\ \A p \in 0 .. F.len - 1 : F.at[p] = Output[f][v][p]

HeaderHash(f, v) == Region(Output[f][v], 0, HeaderEnd(PlanOf[f][v]))
TensorHash(f, v, i) ==
    LET L == PlanOf[f][v] IN Region(Output[f][v], Offset[L][i], Nbytes[L][i])
-----------------------------------------------------------------------------
(* The writers.  tell() counts the buffered bytes; a flush gives them to   *)
(* the OS; writing past the end of the file leaves a hole of zeros.        *)

tell == fpos + Len(pend)

Flushed(k) ==
    IF k = 0 THEN file
    ELSE [len |-> IF fpos + k > file.len THEN fpos + k ELSE file.len,
          at  |-> [p \in Positions |->
                     IF p \in fpos .. fpos + k - 1 THEN pend[p - fpos + 1]
                     ELSE file.at[p]]]

FlushAll == Flushed(Len(pend))

Flush ==
    /\ file' = FlushAll
    /\ fpos' = tell
    /\ pend' = <<>>

Write(cells) == pend' = pend \o cells

\* Mutant: the manifest object outlives the run.
ExitKeepingManifest ==
    /\ pc' = "idle"
    /\ resuming' = FALSE
    /\ tensor' = 1 /\ row' = 0
    /\ fpos' = 0 /\ pend' = <<>>
    /\ UNCHANGED <<fmt, input, mem>>

\* The process is gone: nothing of its memory is left.
Exit ==
    /\ pc' = "idle"
    /\ mem' = NoManifest
    /\ resuming' = FALSE
    /\ tensor' = 1 /\ row' = 0
    /\ fpos' = 0 /\ pend' = <<>>
    /\ UNCHANGED <<fmt, input>>
-----------------------------------------------------------------------------
Init ==
    /\ pc = "idle" /\ fmt \in Formats /\ resuming = FALSE
    /\ mem = NoManifest /\ tensor = 1 /\ row = 0
    /\ fpos = 0 /\ pend = <<>>
    /\ file = EmptyFile
    /\ manifest = NoManifest /\ durable = NoManifest
    /\ source \in Versions /\ input = source
    /\ code = "none"

\* A run begins.  Without --resume, or when there is no manifest, it starts
\* afresh; a fresh run over the manifest of an earlier job is the "rerun"
\* fault.  It opens the source and plans from it.  The writer of a fresh run opens no file yet.
Start(resume, f) ==
    /\ pc = "idle"
    /\ resume \/ manifest = NoManifest \/ "rerun" \in Faults
    /\ fmt' = f /\ input' = source
    /\ resuming' = (resume /\ manifest # NoManifest)
    /\ pc' = IF resuming' THEN "verify" ELSE "begin"
    /\ code' = "running"
    /\ UNCHANGED <<mem, tensor, row, fpos, pend, storage>>
-----------------------------------------------------------------------------
(* _prepare_resume: read the manifest, compare it with the job as planned  *)
(* now, and find the first tensor that is not verified.                    *)

\* Names, types and sizes of the plan; the offsets follow from them and from
\* the manifest's own header_end.
SamePlan(L, M) == Nbytes[L] = Nbytes[M]

Identity(m) ==
    /\ m.stat = Stat[source]
    /\ m.fmt = fmt
    /\ SamePlan(m.plan, PlanOf[fmt][input])

HeaderReadable(m) == Readable(file, 0, HeaderEnd(m.plan))
HeaderMatches(m) ==
    HeaderReadable(m) /\ Region(file.at, 0, HeaderEnd(m.plan)) = m.header

Committed(m) == DOMAIN m.sha
TensorReadable(m, i) ==
    Readable(file, Offset[m.plan][i], Nbytes[m.plan][i])
TensorMatches(m, i) ==
    /\ TensorReadable(m, i)
    /\ Region(file.at, Offset[m.plan][i], Nbytes[m.plan][i]) = m.sha[i]

\* Mutant: a committed tensor is trusted unread.
VerifiedUnread(m, i) == i \in Committed(m)

Verified(m, i) == i \in Committed(m) /\ TensorMatches(m, i)

\* Mutant: the last verified tensor is written again.
ScanStopsBefore(m, i) ==
    /\ \A j \in 1 .. i : Verified(m, j)
    /\ i + 1 \in Tensors(m.plan) => ~Verified(m, i + 1)

\* The scan of lines 112-120 stops at i (Count + 1: it reached the end).
ScanStopsAt(m, i) ==
    /\ \A j \in 1 .. i - 1 : Verified(m, j)
    /\ i \in Tensors(m.plan) => ~Verified(m, i)

AlreadyComplete ==
    /\ manifest.status = "complete"
    /\ code' = "already"
    /\ Exit
    /\ UNCHANGED storage

Refuse ==
    /\ manifest.status # "complete"
    /\ \/ ~Identity(manifest)
       \/ HeaderReadable(manifest) /\ ~HeaderMatches(manifest)
    /\ code' = "refused"
    /\ Exit
    /\ UNCHANGED storage

\* Hashing stops with an error where the file is shorter than the region.
Unreadable ==
    /\ manifest.status # "complete"
    /\ Identity(manifest)
    /\ \/ ~HeaderReadable(manifest)
       \/ /\ HeaderMatches(manifest)
          /\ \E i \in Committed(manifest) :
                ScanStopsAt(manifest, i) /\ ~TensorReadable(manifest, i)
    /\ code' = "unreadable"
    /\ Exit
    /\ UNCHANGED storage

\* Mutant: the tensors after the bad one are forgotten as well.
WithoutRest(m, i) ==
    [m EXCEPT !.sha = [j \in {k \in DOMAIN m.sha : k < i} |-> m.sha[j]]]

\* A tensor whose hash does not match loses it in memory, and the file is
\* reopened for update at the offset of the first tensor to write.
Without(m, i) == [m EXCEPT !.sha = [j \in DOMAIN m.sha \ {i} |-> m.sha[j]]]

\* Mutant: the output is reopened with "wb", which truncates it.
AcceptTruncating(i) ==
    /\ manifest.status # "complete"
    /\ Identity(manifest)
    /\ HeaderMatches(manifest)
    /\ ScanStopsAt(manifest, i)
    /\ i \in Committed(manifest) => TensorReadable(manifest, i)
    /\ mem' = Without(manifest, i)
    /\ tensor' = i
    /\ fpos' = Offset[manifest.plan][i]
    /\ file' = EmptyFile
    /\ pc' = "tensor"
    /\ UNCHANGED <<fmt, input, resuming, row, pend, manifest, durable, source, code>>

Accept(i) ==
    /\ manifest.status # "complete"
    /\ Identity(manifest)
    /\ HeaderMatches(manifest)
    /\ ScanStopsAt(manifest, i)
    /\ i \in Committed(manifest) => TensorReadable(manifest, i)
    /\ mem' = Without(manifest, i)
    /\ tensor' = i
    /\ fpos' = Offset[manifest.plan][i]
    /\ pc' = "tensor"
    /\ UNCHANGED <<fmt, input, resuming, row, pend, storage, code>>
-----------------------------------------------------------------------------
(* A fresh run: header, then the manifest in memory.  begin_data truncates *)
(* the output; a manifest left by an earlier job is not touched.           *)

\* Mutant: the output is opened without truncating it.
BeginDataOver ==
    /\ pc = "begin"
    /\ LET n == HeaderLen[PlanOf[fmt][input]]
       IN  Write([k \in 1 .. n |-> HeaderCell(fmt, input, k - 1)])
    /\ pc' = "header"
    /\ UNCHANGED <<fmt, input, resuming, mem, tensor, row, fpos, storage, code>>

BeginData ==
    /\ pc = "begin"
    /\ file' = EmptyFile
    /\ LET n == HeaderLen[PlanOf[fmt][input]]
       IN  Write([k \in 1 .. n |-> HeaderCell(fmt, input, k - 1)])
    /\ pc' = "header"
    /\ UNCHANGED <<fmt, input, resuming, mem, tensor, row, fpos, manifest, durable,
                   source, code>>

NewManifest ==
    [stat |-> Stat[source], fmt |-> fmt, plan |-> PlanOf[fmt][input],
     header |-> NoHash, sha |-> [i \in {} |-> NoHash],
     status |-> "in_progress"]

WriteHeader ==
    /\ pc = "header"
    /\ Flush
    /\ mem' = NewManifest
    /\ pc' = "tensor"
    /\ UNCHANGED <<fmt, input, resuming, tensor, row, manifest, durable, source, code>>
-----------------------------------------------------------------------------
(* The loop over the plan (lines 274-309).                                 *)

BeginTensor ==
    /\ pc = "tensor"
    /\ tensor \in Tensors(mem.plan)
    /\ Write([k \in 1 .. Pad(tell) |-> Zero])
    /\ pc' = IF ~resuming /\ tensor = 1 THEN "initial" ELSE "check"
    /\ UNCHANGED <<fmt, input, resuming, mem, tensor, row, fpos, storage, code>>

\* The first padding completes the header region: hash it ...
HashHeader ==
    /\ pc = "initial"
    /\ Flush
    /\ mem' = [mem EXCEPT
                 !.header = Region(FlushAll.at, 0, HeaderEnd(mem.plan))]
    /\ pc' = "save initial"
    /\ UNCHANGED <<fmt, input, resuming, tensor, row, manifest, durable, source, code>>

\* ... and write the initial checkpoint.
SaveInitial ==
    /\ pc = "save initial"
    /\ manifest' = mem
    /\ pc' = "check"
    /\ UNCHANGED <<fmt, input, resuming, mem, tensor, row, fpos, pend, file, durable,
                   source, code>>

\* "offset drift" raises; the writer is closed, which flushes it.
CheckOffset ==
    /\ pc = "check"
    /\ IF tell = Offset[mem.plan][tensor]
       THEN /\ pc' = "stream" /\ row' = 0
            /\ UNCHANGED <<fmt, input, resuming, mem, tensor, fpos, pend, storage, code>>
       ELSE /\ code' = "drift"
            /\ file' = FlushAll
            /\ Exit
            /\ UNCHANGED <<manifest, durable, source>>

\* Mutant: each chunk is read through the path again.
StreamReopened(n) ==
    /\ pc = "stream"
    /\ row + n <= Nbytes[mem.plan][tensor]
    /\ Write([k \in 1 .. n |-> DataCell(fmt, source, tensor, row + k - 1)])
    /\ row' = row + n
    /\ UNCHANGED <<pc, fmt, input, resuming, mem, tensor, fpos, storage, code>>

\* One chunk of _stream_quantize or _stream_copy, of any size.
StreamChunk(n) ==
    /\ pc = "stream"
    /\ row + n <= Nbytes[mem.plan][tensor]
    /\ Write([k \in 1 .. n |-> DataCell(fmt, input, tensor, row + k - 1)])
    /\ row' = row + n
    /\ UNCHANGED <<pc, fmt, input, resuming, mem, tensor, fpos, storage, code>>

\* The manifest with the hash of one more tensor.
WithHash(m, i, hash) ==
    [m EXCEPT !.sha = [j \in DOMAIN m.sha \cup {i} |->
                         IF j = i THEN hash ELSE m.sha[j]]]

\* Mutants of the commit: the region is hashed before the flush, or the hash
\* is taken of the written data while it is still in the buffer.
HashUnflushed ==
    /\ pc = "stream"
    /\ row = Nbytes[mem.plan][tensor]
    /\ Flush
    /\ LET hash == Region(file.at, Offset[mem.plan][tensor],
                          Nbytes[mem.plan][tensor])
       IN  mem' = WithHash(mem, tensor, hash)
    /\ pc' = "save commit"
    /\ UNCHANGED <<fmt, input, resuming, tensor, row, manifest, durable, source, code>>

HashBuffered ==
    /\ pc = "stream"
    /\ row = Nbytes[mem.plan][tensor]
    /\ LET hash == Region(FlushAll.at, Offset[mem.plan][tensor],
                          Nbytes[mem.plan][tensor])
       IN  mem' = WithHash(mem, tensor, hash)
    /\ pc' = "save commit"
    /\ UNCHANGED <<fmt, input, resuming, tensor, row, fpos, pend, storage, code>>

\* Commit: flush the data, hash the written region ...
HashTensor ==
    /\ pc = "stream"
    /\ row = Nbytes[mem.plan][tensor]
    /\ Flush
    /\ LET hash == Region(FlushAll.at, Offset[mem.plan][tensor],
                          Nbytes[mem.plan][tensor])
       IN  mem' = WithHash(mem, tensor, hash)
    /\ pc' = "save commit"
    /\ UNCHANGED <<fmt, input, resuming, tensor, row, manifest, durable, source, code>>

\* ... checkpoint, and go on to the next tensor.
SaveCommit ==
    /\ pc = "save commit"
    /\ manifest' = mem
    /\ tensor' = tensor + 1
    /\ row' = 0
    /\ pc' = "tensor"
    /\ UNCHANGED <<fmt, input, resuming, mem, fpos, pend, file, durable, source, code>>

\* Mutant: an off-by-one in the loop leaves the last tensor out.
SaveCompleteEarly ==
    /\ pc = "tensor"
    /\ tensor >= Count(mem.plan)
    /\ mem' = [mem EXCEPT !.status = "complete"]
    /\ manifest' = mem'
    /\ pc' = "close"
    /\ UNCHANGED <<fmt, input, resuming, tensor, row, fpos, pend, file, durable,
                   source, code>>

SaveComplete ==
    /\ pc = "tensor"
    /\ tensor \notin Tensors(mem.plan)
    /\ mem' = [mem EXCEPT !.status = "complete"]
    /\ manifest' = mem'
    /\ pc' = "close"
    /\ UNCHANGED <<fmt, input, resuming, tensor, row, fpos, pend, file, durable,
                   source, code>>

Close ==
    /\ pc = "close"
    /\ file' = FlushAll
    /\ code' = "ok"
    /\ Exit
    /\ UNCHANGED <<manifest, durable, source>>
-----------------------------------------------------------------------------
(* What the environment does.                                              *)

\* The process is killed, or raises and closes its writer on the way out:
\* some prefix of the buffer reaches the file.
Crash(k) ==
    /\ "crash" \in Faults
    /\ pc # "idle"
    /\ file' = Flushed(k)
    /\ code' = "died"
    /\ Exit
    /\ UNCHANGED <<manifest, durable, source>>

\* The kernel writes the renamed directory entry back.
Writeback ==
    /\ "powerloss" \in Faults
    /\ durable # manifest
    /\ durable' = manifest
    /\ UNCHANGED <<process, file, manifest, source, code>>

\* The machine stops: the output file, which is never synced, may lose its
\* tail and any page; the manifest is the current or an older durable one.
PowerLoss(len, lost, m) ==
    /\ file' = [len |-> len,
                at  |-> [p \in Positions |->
                           IF p < len /\ p \notin lost THEN file.at[p] ELSE Zero]]
    /\ manifest' = m
    /\ durable' = m
    /\ code' = "died"
    /\ Exit
    /\ UNCHANGED source

\* Between runs: a byte of the header or of a tensor goes bad.  (Padding is
\* covered by no hash, so a bad byte there would stay.)
Corrupt(p) ==
    /\ "corrupt" \in Faults
    /\ pc = "idle"
    /\ file.at[p] \notin {Zero, Bad}
    /\ Cardinality({q \in Positions : file.at[q] = Bad}) < MaxBad
    /\ file' = [file EXCEPT !.at[p] = Bad]
    /\ code' = "none"
    /\ UNCHANGED <<process, manifest, durable, source>>

\* The source model is replaced: between two runs, or under a run that is at
\* one of the SwapPoints.  The run goes on reading the file it has opened, the
\* next one opens what its path leads to.
EditSource(v) ==
    /\ \/ "edit" \in Faults /\ pc = "idle" /\ code' = "none"
       \/ pc \in SwapPoints /\ UNCHANGED code
    /\ source' = v
    /\ UNCHANGED <<process, file, manifest, durable>>
-----------------------------------------------------------------------------
PrepareResume ==
    /\ pc = "verify"
    /\ \/ AlreadyComplete
       \/ Refuse
       \/ Unreadable
       \/ \E i \in 1 .. Count(manifest.plan) + 1 : Accept(i)

\* One step of the process.
Step ==
    \/ PrepareResume
    \/ BeginData \/ WriteHeader
    \/ BeginTensor \/ HashHeader \/ SaveInitial \/ CheckOffset
    \/ \E n \in 1 .. Capacity : StreamChunk(n)
    \/ HashTensor \/ SaveCommit
    \/ SaveComplete \/ Close

Fault ==
    \/ \E k \in 0 .. Len(pend) : Crash(k)
    \/ Writeback
    \/ /\ "powerloss" \in Faults
       /\ \E len \in 0 .. file.len :
            \E lost \in SUBSET (0 .. len - 1), m \in {manifest, durable} :
               PowerLoss(len, lost, m)
    \/ \E p \in Positions : Corrupt(p)
    \/ \E v \in Versions \ {source} : EditSource(v)

Next ==
    \/ \E resume \in BOOLEAN, f \in Formats : Start(resume, f)
    \/ Step
    \/ Fault

Spec == Init /\ [][Next]_vars

\* A process that runs is scheduled, and somebody keeps starting it with
\* --resume, as scripts/kill_resume_test.sh does.
FairSpec ==
    /\ Spec
    /\ WF_vars(Step)
    /\ WF_vars(\E f \in Formats : Start(TRUE, f))
-----------------------------------------------------------------------------
(* Types.                                                                  *)

Outcomes == {"none", "running", "ok", "already", "refused", "unreadable",
             "drift", "died"}

IsManifest(m) ==
    /\ m \in [stat : {Stat[v] : v \in Versions}, fmt : Formats, plan : Plans,
              header : {m.header}, sha : {m.sha},
              status : {"in_progress", "complete"}]
    /\ m.sha = [i \in Committed(m) |-> m.sha[i]]
    /\ Committed(m) \subseteq Tensors(m.plan)

\* Every variable has its type, and each phase of a run has the manifest,
\* the tensor index and the room in the file it is written for.
TypeOK ==
    /\ pc \in ControlPoints
    /\ fmt \in Formats
    /\ input \in Versions
    /\ resuming \in BOOLEAN
    /\ manifest = NoManifest \/ IsManifest(manifest)
    /\ durable = NoManifest \/ IsManifest(durable)
    /\ IF pc \in Writing THEN IsManifest(mem) ELSE mem = NoManifest
    /\ pc = "verify" => manifest # NoManifest
    /\ tensor \in Nat /\ row \in Nat
    /\ fpos \in Nat /\ pend \in Seq(Cells) /\ tell <= Capacity
    /\ file \in Files
    /\ source \in Versions
    /\ code \in Outcomes
-----------------------------------------------------------------------------
(* Safety.                                                                 *)

\* A run that reports success leaves exactly the file an uninterrupted run
\* would have made of the source it read: same length, every byte,
\* whatever happened to the earlier runs it resumed (the promise of
\* _prepare_resume and of scripts/kill_resume_test.sh).
SuccessMeansIdentical == code = "ok" => IsOutput(file, fmt, input)

Truthful(m) ==
    \A v \in Versions :
        Stat[v] = m.stat =>
            /\ m.plan = PlanOf[m.fmt][v]
            /\ m.header = HeaderHash(m.fmt, v)
            /\ \A i \in Committed(m) : m.sha[i] = TensorHash(m.fmt, v, i)

\* Every hash in the manifest is the hash of the bytes an uninterrupted run
\* writes there, for the source the manifest names: the manifest may lag
\* behind the file or outlive it, it never vouches for anything else
\* (Manifest.save after each commit, engine.py:298-302).
ManifestTruthful == manifest # NoManifest => Truthful(manifest)

\* The n bytes at off are those of the hash, or have gone bad since.
Holds(hash, off, n) ==
    Readable(file, off, n) /\ \A p \in off .. off + n - 1 : file.at[p] \in {hash[p], Bad}

\* A committed tensor is in the file: the flush of engine.py:299 comes before
\* the checkpoint of line 302, and a resumed run that goes back to a bad
\* tensor writes the same bytes over the committed ones after it.
CommittedBytesPresent ==
    manifest # NoManifest =>
        /\ Holds(manifest.header, 0, HeaderEnd(manifest.plan))
        /\ \A i \in Committed(manifest) :
              Holds(manifest.sha[i], Offset[manifest.plan][i], Nbytes[manifest.plan][i])

\* A run that answers "already complete; nothing to resume" tells the truth:
\* the job the manifest describes was done, and but for bytes that have gone
\* bad since the output is whole.
CompleteIsTrue ==
    code = "already" =>
        \E v \in Versions :
            /\ Stat[v] = manifest.stat
            /\ file.len = Size(manifest.plan)
            /\ Holds(Output[manifest.fmt][v], 0, file.len)

\* A resume of the same job over an intact header never stops at a committed
\* tensor: "first bad/missing hash is the resume point (a corrupt middle tensor
\* forces rewrite from there on)" (engine.py:110-111).
BadHashIsResumePoint ==
    code = "unreadable" => ~Identity(manifest) \/ ~HeaderMatches(manifest)

\* The offset the writer reaches is always the planned one, after every kind
\* of restart: "offset drift" (engine.py:288-291) cannot be raised.
NoDrift == code # "drift"
-----------------------------------------------------------------------------
(* Action properties.                                                      *)

\* Nothing the program does makes the saved manifest forget a tensor, as long
\* as it is about the same job: progress once banked stays banked.
Forgets == /\ manifest # NoManifest
           /\ manifest' # NoManifest => ~(Committed(manifest) \subseteq Committed(manifest)')
NeverUncommit == [][~Forgets]_vars

\* No step of a run changes a byte of a committed tensor that is intact, nor
\* of an intact header: a resumed run writes only from its resume point on,
\* and what it rewrites it rewrites with the same bytes.
CommittedUntouched ==
    [][Step /\ manifest # NoManifest =>
         /\ HeaderMatches(manifest) =>
               Region(file'.at, 0, HeaderEnd(manifest.plan)) = manifest.header
         /\ \A i \in Committed(manifest) :
               TensorMatches(manifest, i) =>
                  Region(file'.at, Offset[manifest.plan][i],
                         Nbytes[manifest.plan][i]) = manifest.sha[i]]_vars
-----------------------------------------------------------------------------
(* Liveness.                                                               *)

Complete == manifest # NoManifest /\ manifest.status = "complete"

\* Kills may strike at any moment, any number of times; once they stop, the
\* loop that restarts the program with --resume gets the job done.
ResumeCompletes == []<><<Fault>>_vars \/ <>[](Complete /\ IsOutput(file, fmt, source))
-----------------------------------------------------------------------------
(* What a caller who sees only the manifest, and which tensors are whole in  *)
(* the file, sees of the job.                                              *)

Stored ==
    LET L == PlanOf[fmt][source]
        Whole(i) == /\ Readable(file, Offset[L][i], Nbytes[L][i])
                    /\ Region(file.at, Offset[L][i], Nbytes[L][i])
                         = TensorHash(fmt, source, i)
    IN  Cardinality({i \in Tensors(L) : \A j \in 1 .. i : Whole(j)})

Job == INSTANCE ResumableJob WITH
    total  <- Count(PlanOf[fmt][source]),
    status <- IF manifest = NoManifest THEN "absent" ELSE manifest.status,
    stored <- Stored,
    banked <- IF manifest = NoManifest THEN 0
              ELSE Cardinality(Committed(manifest))

\* The engine, killed and resumed at will, implements the job that is never
\* interrupted: tensors are stored and banked one by one, in order.
ImplementsJob == Job!Spec
=============================================================================
