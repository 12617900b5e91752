------------------------------ MODULE EngineInv ------------------------------
(***************************************************************************)
(* The inductive invariants behind the theorems of EngineProofs and        *)
(* EngineOutputProofs, in a module of their own so that TLC checks them.   *)
(***************************************************************************)
EXTENDS Engine

-----------------------------------------------------------------------------
(* Where the writer is.                                                    *)

\* The end of what comes before the tensor to write.
Reached == IF tensor = 1 THEN HeaderLen[mem.plan] ELSE End(mem.plan, tensor - 1)

InPlace ==
    /\ pc \notin Writing => tensor = 1 /\ row = 0 /\ fpos = 0
    /\ pc \in {"idle", "verify", "begin", "tensor", "save initial",
               "save commit", "close"} => pend = <<>>
    /\ pc = "verify" => resuming
    /\ pc \in {"begin", "header"} => ~resuming
    /\ pc = "header" => Len(pend) = HeaderLen[PlanOf[fmt][input]]
    /\ pc \in Writing => tensor \in 1 .. Count(mem.plan) + 1
    /\ pc \in Writing \ {"tensor", "close"} => tensor \in Tensors(mem.plan)
    /\ pc \in {"tensor", "close"} =>
          /\ Reached <= tell
          /\ tell + Pad(tell) = Offset[mem.plan][tensor]
    /\ pc = "tensor" => row = 0
    /\ pc = "close" => tensor \notin Tensors(mem.plan)
    /\ pc \in {"initial", "save initial"} => tensor = 1
    /\ pc \in {"initial", "save initial", "check"} =>
          tell = Offset[mem.plan][tensor]
    /\ pc = "stream" => /\ row <= Nbytes[mem.plan][tensor]
                        /\ tell = Offset[mem.plan][tensor] + row
                        /\ fpos <= Offset[mem.plan][tensor]
    /\ pc = "save commit" => tell = End(mem.plan, tensor)

\* With the types, inductive for every kind of fault and of source.
PlaceInv == TypeOK /\ InPlace /\ NoDrift
-----------------------------------------------------------------------------
(* What the files hold.                                                    *)

\* Nothing but zeros beyond the end; and a file that begins with the header
\* of a job is no longer than its output and has zeros wherever that output
\* has padding, which no hash covers.
FileOK(F) ==
    /\ \A p \in Positions : p >= F.len => F.at[p] = Zero
    /\ \A f \in Formats, v \in Versions :
          F.at[0] = HeaderCell(f, v, 0) =>
              /\ F.len <= Size(PlanOf[f][v])
              /\ \A p \in Positions :
                    Output[f][v][p] = Zero => F.at[p] = Zero

HeaderPending == pc \in {"tensor", "initial"} /\ ~resuming /\ tensor = 1

\* The manifest in memory is about this run, and truthful as far as it goes.
MemInv ==
    pc \in Writing =>
        /\ mem.stat = Stat[input] /\ mem.fmt = fmt
        /\ mem.plan = PlanOf[fmt][input]
        /\ HeaderPending \/ mem.header = HeaderHash(fmt, input)
        /\ \A i \in Committed(mem) : mem.sha[i] = TensorHash(fmt, input, i)

\* All that has been written is what an uninterrupted run writes, in the
\* file and in the buffer, and what has been passed over was there already.
RunInv ==
    /\ pc # "idle" => code = "running"
    /\ pc \notin Writing => pc = "idle" \/ input = source
    /\ pc = "header" => file = EmptyFile
    /\ pc \in Writing =>
          /\ fpos > 0
          /\ \A p \in 0 .. fpos - 1 : file.at[p] = Output[fmt][input][p]
    /\ pc \in Writing \cup {"header"} =>
          \A k \in 1 .. Len(pend) : pend[k] = Output[fmt][input][fpos + k - 1]
    /\ pc \in {"tensor", "close"} /\ tensor > 1 =>
          file.len >= End(mem.plan, tensor - 1)
    /\ pc = "save commit" => file.len >= End(mem.plan, tensor)

ContentInv ==
    /\ FileOK(file)
    /\ MemInv
    /\ RunInv
    /\ manifest # NoManifest => Truthful(manifest)
    /\ durable # NoManifest => Truthful(durable)
    /\ SuccessMeansIdentical

\* The source is one file, which stat identifies, and which is not replaced
\* between the moment a run opens it and the one its stat is taken
\* (engine.py:153 to 84 or 259).
StatIdentifies ==
    /\ SwapPoints \subseteq Writing
    /\ \A v, w \in Versions : Stat[v] = Stat[w] => v = w

\* Inductive when StatIdentifies.
IInv == PlaceInv /\ ContentInv
-----------------------------------------------------------------------------
(* What is recorded, and what is there of it.                              *)

\* No loss of power takes a manifest away, nobody starts afresh over one, and a
\* missing manifest is not mistaken for one.
KeepsManifests ==
    /\ "powerloss" \notin Faults /\ "rerun" \notin Faults
    /\ ~IsManifest(NoManifest)

\* A fresh run has no manifest before its first checkpoint; afterwards the
\* manifest in memory is about the saved one's job and knows all it knows, but
\* perhaps for the tensor that is being written again.
Recorded ==
    /\ pc \in {"begin", "header", "initial", "save initial"} => manifest = NoManifest
    /\ pc = "tensor" /\ ~resuming /\ tensor = 1 => manifest = NoManifest
    /\ pc \in Writing /\ manifest # NoManifest =>
          /\ mem.stat = manifest.stat /\ mem.fmt = manifest.fmt /\ mem.plan = manifest.plan
          /\ Committed(manifest) \subseteq Committed(mem) \cup {tensor}
    /\ pc = "save commit" /\ manifest # NoManifest => Committed(manifest) \subseteq Committed(mem)

\* The n bytes at off of file F are those of the hash, or have gone bad.
Held(F, hash, off, n) ==
    Readable(F, off, n) /\ \A p \in off .. off + n - 1 : F.at[p] \in {hash[p], Bad}

HeaderHeld(F, m) == Held(F, m.header, 0, HeaderEnd(m.plan))
TensorsHeld(F, m) ==
    \A i \in Committed(m) : Held(F, m.sha[i], Offset[m.plan][i], Nbytes[m.plan][i])

\* Both manifests vouch for bytes that are in the file; the header of a fresh
\* run has no hash yet, but is in the file up to the writer's position.
BackedInv ==
    /\ manifest # NoManifest => HeaderHeld(file, manifest) /\ TensorsHeld(file, manifest)
    /\ pc \in Writing => TensorsHeld(file, mem)
    /\ pc \in Writing /\ ~HeaderPending => HeaderHeld(file, mem)
    /\ HeaderPending \/ pc = "initial" => fpos <= file.len

\* The output the manifest describes is in the file, but for bad bytes.
WholeOutput ==
    \E v \in Versions :
        /\ Stat[v] = manifest.stat
        /\ file.len = Size(manifest.plan)
        /\ Held(file, Output[manifest.fmt][v], 0, file.len)

\* Nothing is written after the job has been recorded as complete, and "already
\* complete" is said of such a record only.
DoneInv ==
    /\ Complete => pc \in {"idle", "verify", "close"}
    /\ Complete /\ pc # "close" => WholeOutput
    /\ pc \in Writing \ {"close"} => mem.status # "complete"
    /\ code = "already" => Complete

\* Inductive when StatIdentifies and KeepsManifests.
RecordInv == IInv /\ Recorded /\ BackedInv /\ DoneInv
-----------------------------------------------------------------------------
(* The job as a whole.                                                     *)

\* One model in one format, which stays; kills are the only faults.
OneJob ==
    /\ Faults \subseteq {"crash"} /\ SwapPoints = {}
    /\ \A f, g \in Formats : f = g
    /\ ~IsManifest(NoManifest)

\* The saved manifest has the hashes of the first b tensors, and in the file
\* there is nothing behind the next one, which is the one a run writes.
FirstTensors(b) ==
    LET L == PlanOf[fmt][source]
    IN  /\ Committed(manifest) = 1 .. b
        /\ b < Count(L) => file.len <= End(L, b + 1)
        /\ manifest.status = "complete" => b = Count(L)
        /\ pc \in Writing => tensor = b + 1

\* A run reads what its path leads to.  Before the first checkpoint no tensor is
\* in the file; afterwards the file is ahead of the manifest by one tensor at
\* most, and the manifest in memory says how far the run is.
JobInv ==
    /\ pc # "idle" => input = source
    /\ \A p \in Positions : file.at[p] # Bad
    /\ pc \in {"check", "stream", "save commit", "close"} => manifest # NoManifest
    /\ pc = "tensor" /\ (resuming \/ tensor # 1) => manifest # NoManifest
    /\ manifest = NoManifest => file.len <= HeaderEnd(PlanOf[fmt][source])
    /\ manifest # NoManifest =>
          /\ manifest.stat = Stat[source] /\ manifest.fmt = fmt
          /\ \E b \in 0 .. Count(PlanOf[fmt][source]) : FirstTensors(b)
    /\ pc \in Writing =>
          Committed(mem) = 1 .. IF pc = "save commit" THEN tensor ELSE tensor - 1

\* Inductive when StatIdentifies and OneJob.
ResumeInv == RecordInv /\ JobInv
=============================================================================
