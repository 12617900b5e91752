# FeatherQuant, verified

FeatherQuant quantizes language models that are larger than the memory of the
machine: it streams one tensor after the other from a GGUF file or a directory
of safetensors shards through a bounded amount of memory into a quantized GGUF
file, and checkpoints after every tensor so that a killed run can be resumed.

This directory holds TLA+ models of that program, TLC configurations that check
them on small instances, and proofs, checked by TLAPS, of what matters most for
every instance. Paths such as `engine.py:299` are relative to `featherquant/`
in the repository; `README.md` in a citation of a finding is the program's.

To run everything: `tlc -config X.cfg MCmodule.tla` for a configuration
`MCmodule*.cfg`, `tlapm M.tla` for a proof module.

## 1. Inventory

| Part | State it keeps | Operations | What makes it correct |
|---|---|---|---|
| `engine.py` `quantize_model`, `_prepare_resume` | the plan, the manifest in memory, the index of the tensor, the output file, `<output>.manifest.json` | plan; header; per tensor: pad, stream, flush, hash, checkpoint; complete; resume | a run that succeeds has made the file of an uninterrupted run; a checkpoint vouches only for bytes that are there; progress once banked stays banked; killed again and again, the job still ends |
| `engine.py` `_stream_quantize`, `_stream_copy`; `controller.py` `BlockController` | working budget, read buffer, position in the tensor, estimated cost of a row, statistics | size a chunk, read, quantize, write, measure, back off | no chunk is empty, overflows the buffer or passes the end; after a breach the next chunk is not larger; every row is written once; every run ends |
| `manifest.py` | one JSON file, temporary files beside it | `save` (mkstemp, write, fsync, rename, unlink on error), `load`, hashing | never torn, for any mix of kills, errors, power loss and concurrent saves; no stray files after an error |
| `ggml_backend.py` `quantize_rows` | output buffer shared by threads | split, run kernels in parallel, sum, compare | windows partition the rows: no race, no gap; the size check never fires; every call returns |
| `gguf_io.py` writers | write buffer, file position | header, pad, write, flush, tell, reopen for resume, close | positions equal the planned offsets, in a fresh and in a resumed run |
| `gguf_io.py` `TensorSource`, `st_source.py` | the open files, the tensor table, metadata, one read buffer | parse shard headers, map names, read rows and raw bytes, release metadata | no partial model; each byte of each tensor once, in order, from the file that was opened; no metadata lost |
| `formats.py` | none | which tensors are quantized and to which type | what is planned can be streamed; the plan is the one of the reference tools |
| `q8_0.py` | none | pack blocks of 32 floats | bounded error, layout (not modelled, section 6) |
| `events.py`, `ui.py`, `cli.py` | progress bar, live view, exit code | parse options, add events up, close on the way out | the bar is byte-accurate, also after a resume; the terminal is restored; exit code 0 means done |
| `featherquant.sh` | venv, stamp, the answers of the wizard | bootstrap, wizard, exec | no stamp without an install; no work is lost that nobody gave up |
| `scripts/` | none | the kill/resume loop, benchmarks | the loop is the environment of the engine |

**How they interact.** `cli` calls `quantize_model`, which opens a source, asks
`formats` for the plan, and owns one writer and one manifest. The streaming
loops pull rows from the source into one reused buffer, call a kernel (numpy, or
`quantize_rows`, which fans out to threads and joins them), and push packed
bytes into the writer. The manifest is saved by the engine only, between two
tensors. Events are callbacks into the reporter; they change nothing in the
engine, but an exception in one ends the run. Between runs, only the output file
and the manifest file carry state. `featherquant.sh` makes the environment, looks
at the manifest to offer a resume, and becomes the command line by `exec`.

**What is hard.** The process may die at any instruction and the machine at any
time, and the two files survive differently: the manifest is fsynced, the
output is not. A resumed run trusts what an earlier one left. Two pieces of code
compute the same offsets in different ways. Kernels write one buffer from
several threads without the interpreter lock. The controller reacts to
measurements that owe it nothing. Rows alias a buffer the next read overwrites.
The launcher may be interrupted between an install and the stamp that vouches for
it. All these hazards, each at its line, are in
`PROJECT.json`, with the properties that cover them.

## 2. Modules

| Module | Models | Abstract counterpart |
|---|---|---|
| `Layout` | offsets, alignment and padding of the output | |
| `Engine` | the job: fresh and resumed runs, both writers, the two files, faults | `ResumableJob`, by refinement |
| `EngineInv` | the inductive invariants of `Engine` | |
| `ManifestStore` | `Manifest.save`, step by step, on a disk that forgets | `ManifestRegister`, by refinement; its steps are what `Engine` does to `manifest` and `durable` |
| `KernelPool` | `GgmlLib.quantize_rows` | |
| `Streaming` | working budget, chunk loops, `BlockController`, statistics | |
| `Formats` | the type and the packed size of every tensor: `formats.py` and the planning loop | |
| `Sources` | both sources, metadata, and the reads of the streaming loops | |
| `Cli` | `main`, events and reporter, manifest status, exit codes of one process | |
| `Launcher` | `featherquant.sh`: bootstrap, wizard, `exec` into `Cli` | |
| `MC*` | small instances for TLC | |
| `Numbers` | lemmas on division and multiplication, induction over sets of numbers, and what recursive definitions, sums and products define | |
| `*Proofs` | theorems about the module they are named after; `EngineProofs` has `Layout`, types and positions, `EngineOutputProofs` contents | |

Composition: `Engine` extends `Layout`; it takes a save of the manifest as one
step, which `ManifestStore` shows to be sound through `ManifestRegister`; it
leaves the size of every chunk open (`StreamChunk(n)`, any `n`), so that
whatever `Streaming` chooses is among its behaviours; and it takes the bytes of
a chunk as a function of the rows, which `KernelPool` shows of the parallel
kernels, fed with the rows `Sources` shows to arrive. `Sources` extends `Formats`:
the plan it streams is the one the rules make of the tensors it found. `Launcher`
extends `Cli`: its last step is the first of the process. `Cli` sees the manifest
as a status and a set of hashed tensors, which `Engine` relates to bytes.

### Engine and Layout

| Variable | In the code |
|---|---|
| `pc` | where `quantize_model` is; `"idle"` when no process runs |
| `fmt`, `input` | `--format`; the content of the source the run has opened |
| `resuming`, `tensor`, `row` | `resuming`; the loop index; progress within the tensor |
| `mem` | the `Manifest` object |
| `fpos`, `pend` | position of the file below Python's write buffer; the buffer |
| `file`, `manifest`, `durable` | output and manifest as the operating system shows them; the manifest that would survive a loss of power |
| `source` | the content the source path leads to now |
| `code` | how the last run ended |

Actions follow the code: `Start`; `AlreadyComplete`, `Refuse`, `Unreadable`,
`Accept` are the ways out of `_prepare_resume`; `BeginData`, `WriteHeader` the
header of a fresh run; `BeginTensor`, `HashHeader`, `SaveInitial`,
`CheckOffset`, `StreamChunk`, `HashTensor`, `SaveCommit` the loop;
`SaveComplete`, `Close` the end. The environment: `Crash` (SIGKILL, or an
exception that closes the writer; any prefix of the buffer may reach the file),
`PowerLoss` (any tail and any pages of the output are gone, the manifest falls
back to a durable one), `Writeback`, `Corrupt` (a byte goes bad), `EditSource`
(between runs, or under a run at the control points in `SwapPoints`, which the run
does not notice: it goes on with `input`). Which of the others may happen is the
constant `Faults`.

Bytes are cells that say where their value comes from, a sha256 is the hashed
region itself (no collisions), and `os.stat` is the constant function `Stat` on
versions of the source. `Output[f][v]` is the file of an uninterrupted run, the
reference for everything.

### ManifestStore

One saver per process; `data` and `disk` are the pieces of each inode that have
been written and that have reached the disk, `entry` and `stable` the inode the
manifest path leads to now and on the disk. Each step of `save` is an action;
`Fail` is its `except BaseException`, `Kill` a SIGKILL, `PowerLoss` keeps what is
on the disk. Nothing locks an output, so several savers are legal. `mkstemp`
draws names that are not in use, so names are identified with inodes.

### KernelPool

A call is given an array and its `n_per_row`: `Refuse` is the `ValueError` for what
is not whole rows of float32 and whole blocks (`Fits`), `Call` makes the buffer for
the rows of any other. Each worker packs the rows of its window
one at a time, in any interleaving; `Join` waits for the workers in order, as
`sum(ex.map(...))` does; `Return` makes the size check. A row's packed bytes are
its number, so `out[r] = r` says that row `r` was packed into place `r`. A single
worker runs in the calling thread; its window is the whole chunk.

### Streaming

`Start` computes the working budget after metadata is released and may give up;
`OpenTensor` sizes the buffer or gives up, which it also does for a tensor
without rows that is to be packed; `AdaptiveChunk` and `PlainChunk` are
one turn of the loops with and without a controller (the caller may
switch it off, and `_stream_copy` has none);
`Commit` samples RSS after a tensor; `Report` ends the run. RSS is chosen by the
environment at every reading. The controller's float estimate is a positive
whole number of units; a blend that falls between two may go either way.

### Formats and Sources

`Formats` has no state: `Quantizable`, `UseMoreBits`, `Q80Rule`, `Q4KMRule`,
`TargetType` and `PackedBytes` are the functions of `formats.py` and of the
planning loop (`engine.py:175-186`), with the element and byte counts of ggml's
blocks as they are.

`Sources` is one run on a given model: `Start` (the checks before a source is
opened), `OpenShard` for each shard, `Opened` (one unmapped name refuses the
model), `MakePlan`, `CopyMetadata`, `ReleaseAndDeclare` (the fields are cleared,
then the tensors are declared, which refuses a name twice), and the loops:
`BeginTensor` (a tensor without elements can be copied but not packed, and ends
the run), `Read` (seek, `readinto`, the check for a short read), `Pack` (the
kernel or the copy consumes what the buffer holds), `NextTensor`, `Finish`.
`Replace` puts another file under a shard's path at any time but while shards are
opened. A byte is where it comes from: the shard, which of the files that were at
its path, and its offset. `out` is what the kernels and the writer were given, in
order. Parsing the header of a shard and opening it for data are one step, so the
window between the two `open` calls (`st_source.py`) is not covered. `NameMap`
and `RoleOf` are constants: gguf-py's tables and the regular expressions on names.
Only fresh runs are modelled here, a resumed one starts at a later tensor; the
budget is `Streaming`'s.

### Cli and Launcher

| Variable | In the code |
|---|---|
| `pc`, `code`, `args` | where `main` is, `"out"` without a process; its exit code; its options |
| `status`, `banked` | status of the manifest, tensors with a hash in it |
| `resuming`, `next`, `part` | locals of `quantize_model` |
| `bar`, `live`, `reported` | total and completed of the bar; the live view; the `--report` file |
| `lpc`, `mode`, `cmd`, `declined` | where `featherquant.sh` is; arguments or wizard; the command line it builds; whether the offer to resume was declined |
| `project`, `python`, `deps`, `stamp` | the last edit of `pyproject.toml`; the interpreter; what is installed, negative while it is being installed; what the stamp vouches for |
| `raced` | not in the code: a history variable, the edits made since the last install read `pyproject.toml` and before its stamp was touched |

`Main` parses and makes the reporter, `ReadModel` to `Return` follow
`quantize_model` and the events it emits, `Raise` is any exception at any point
and `main`'s `finally`, `Kill` a SIGKILL. `Launch`, `EnsureVenv`, `CheckStamp`,
`BeginInstall` (uv has read `pyproject.toml`), `Install`, `Touch`, `Ready` are the
bootstrap, `AskModel` to `AskResume` the
wizard, `Exec` its end; `Die` is `die`, a command that fails under `set -e`, or
Ctrl-C, at any point; `EditProject`, at any time, and `LoseVenv` are what happens
around it. `parse_size` takes bare numbers as bytes, the wizard as GB (`MiB`,
`RamOf`).
Abstractions: making the reporter and entering the `try` is one step; an install
reads `pyproject.toml` once, when it begins; a prompt that asks again is no step; `ensure_uv` is part of the step
that needs it; one output path; the test seams (`FQ_*` variables) are off. The
memory gauge and the JSON reporter keep no state a property is about.

## 3. Runs

The runs of this table pass, with deadlock checked in all of them: the end of a
run, a save or a call is not the end of the system, which can begin another.

| Run | Instance | Shows |
|---|---|---|
| `engine_faults` | two formats, two versions of a GGUF file, kills at any step, up to two bad bytes, the source edited between runs and replaced under a run at any point after its stat has been taken | `SuccessMeansIdentical`: success means the file of an uninterrupted run; `ManifestTruthful`: no checkpoint vouches for anything else; `CommittedBytesPresent`: what it vouches for is in the file; `CompleteIsTrue`: "already complete" is no lie; `NoDrift`; `NeverUncommit`: a checkpoint never forgets a tensor; `CommittedUntouched`: an intact committed tensor is never touched; the types, and the inductive invariant `RecordInv` |
| `engine_power` | one small plan, power loss, kills, bad bytes, fresh runs over old manifests | the inductive invariant `IInv`, although data and manifest survive differently: it contains `SuccessMeansIdentical`, and the manifest and its durable copy are truthful |
| `engine_resume` | kills under the restart loop | `ResumeCompletes`: the job ends once the kills stop; `ImplementsJob`: killed and resumed, it looks like a slow job; `ResumeInv`: the inductive invariant of that refinement |
| `manifest_store` | two savers, four inodes, every fault, with symmetry of savers and inodes | `NeverTorn`, the inductive `StoreInv`, `NoStrays`, `ImplementsRegister` |
| `kernel_pool` | 0 to 7 rows, -1 to 4 threads, and an array each of another type, with a part of a row, and with rows of a part of a block | `ResultIsWhole`, `NeverRaises`, `RaceFree`, the inductive `PoolInv`, `Returns` |
| `streaming` | four tensors, one of them empty, four RSS levels, with and without the controller | `ChunkFits`, `BackOff`, `WrittenAsPlanned`, the inductive `StreamInv`, `Ends` |
| `sources` | fourteen models: GGUF files of every kind of tensor, of 28 layers, with an alignment of their own and with empty tensors; sharded and single checkpoints; and checkpoints with an index that lists too much, a tensor in two shards, a truncated and a missing shard, a type and a name nobody knows, another architecture, no vocab GGUF; both formats, with and without libggml, shards replaced under the run | `BytesInOrder`: each byte once, in order, from the file that was opened; `ModelIsWhole`: no partial model, no name twice, no metadata lost; `PlanCanBeStreamed`: whole blocks, known sizes, a kernel for the type; `PlanIsReference`: the two-step conversion and the reference dump arrive at the same types; the types |
| `launcher` | two tensors, command lines and wizard answers of every kind, edits of `pyproject.toml` at any time, also during an install, interrupts, kills and errors at any step, lost venvs | `StampIsTrue`: an up-to-date stamp vouches for a whole install, which misses no edit but those made while it ran; `ProgressOnlyGivenUp`: recorded work is dropped only by a run without `--resume`; `BarHonest`; `CleanExit`; the types |

The symmetry set leaves the manifests alone, so that the refinement sees the same
value in equivalent states.

### Bounds, and why they are enough

* `Layout`: `ALIGN = 3` and four plans with padding of zero, one and two bytes
  after the header and after tensors, two and three tensors of one to four
  bytes. Everything in the engine is about the order of regions and about where
  a write is cut, and every such cut occurs. `Capacity = 15` is the end of the
  largest plan and never stops an action short. `MaxBad = 2` lets two tensors be
  bad at once, or one tensor and the header. `engine_power` uses the small plan
  because every subset of pages may be lost.
* `ManifestStore`: `Size = 2`, because torn means some but not all pieces; two
  savers, because the only interference is between a pair; four inodes, so that
  the current file, the durable one and both temporary files can differ.
* `KernelPool`: every relation between rows and threads: fewer, equal, more,
  dividing or not, none, and thread counts below one; `Blk = 2`, one block per
  row, since a kernel packs whole rows.
* `Streaming`: 40 units with a reserve of 8. The readings are two ordinary ones
  less than a row apart, one inside the emergency margin, one over the limit;
  jobs have partial last chunks, a copied tensor that is no multiple of the copy
  buffer and rows of different cost. The estimate is not bounded by hand: a job
  has finitely many chunks.
* `Sources`: `COPY_CHUNK = 100` where the source has 8 MiB, so that copies take
  several reads with a shorter last one; shapes are small but the blocks are the
  real ones (32, 256), with rows that a block divides and rows it does not, and
  any number of rows per read. The model of 28 layers is there because the layer
  schedule repeats only on a deep model; it is compared with
  `tests/data/qwen3-0.6b-q4_k_m-types.json`.
* `Launcher`: two tensors of different size tell a bar that counts committed
  tensors from one that counts those before the resume point; `MaxEdits = 3`
  lets an edit come before, one during and one after an install; the sizes go from
  nothing to 2 GB, bare and with units, at the prompt and on the command line,
  below and above a MiB, and include what is no size.

### Fairness

* `Engine`: a running process takes steps (`WF(Step)`), and somebody keeps
  starting it with `--resume`, which is the loop of
  `scripts/kill_resume_test.sh:18-28`. Nothing is assumed of the faults:
  `ResumeCompletes` says that either they go on for ever or the job is done and
  the file is right.
* `KernelPool`: every thread is scheduled, and the calling thread (join, check)
  too. Nobody is obliged to call.
* `Streaming`: the loop goes on; it waits for nobody.
* `ManifestStore`, `Sources` and `Launcher` have safety only: nothing obliges a
  user, and the loops of `Sources` end for the reason those of `Streaming` do.

## 4. What the code does not do

Each of these runs finds a behaviour of the code that contradicts a sentence of
the documentation; `PROJECT.json` quotes it under `findings`.

| Run | Sentence | Behaviour |
|---|---|---|
| `engine_rerun` | a partially written model is never treated as complete | a fresh run over a completed job truncates the output before it replaces the manifest; killed in between, a resume answers "already complete" |
| `engine_directory` | never resumes into a file that does not provably match (`engine.py:76`) | rewriting a shard in place changes no stat of the directory; versions get mixed |
| `engine_short` | the first bad or missing hash is the resume point (`engine.py:110-111`) | a loss of power leaves the output, which is not synced, shorter than a tensor that the synced manifest vouches for: hashing it raises, at every later resume too |
| `sources_alignment` | data lands exactly at the precomputed offsets (`gguf_io.py:139-140`) | `general.alignment` of the source is copied to the output while the writer aligns to 32: a reader looks elsewhere for the tensors |

Reading the code for the models turned up more of the kind, which no run states:

* Any identity mismatch raises (`engine.py:75`), but the status is looked at before; a violation halves the next
  chunk (`controller.py:8`), but not when the buffer is what limits the chunk.
* `flush` (`gguf_io.py:203`) says "to disk" and does not sync, while the manifest is
  synced; the stat of the source is taken by path after the source was opened
  (`engine.py:259`), so a source replaced in between is recorded in the place of
  the one that is read, and a later resume takes the two for one (no run has this
  window); a budget too small for the largest tensor is noticed when
  that tensor is reached (`engine.py:349`), not early; the peak RSS of the report
  is sampled after tensors, violations after chunks too.
* A tensor that the index lists and no shard holds is left out in silence: only the
  shard names are taken from the index (`st_source.py:150`).
* A tensor without elements is planned like any other. When it is to be packed, its
  0 rows are taken for a budget too small (`engine.py:348-352`), or a row of 0
  elements is a division by zero (`engine.py:345`); when it is to be copied, all is
  well. `Streaming` and `Sources` say so; `Layout` and `Engine` are about tensors
  that have bytes.
* `pyproject.toml` edited during an install is older than the stamp that follows
  (`featherquant.sh:82-83`), and the dependencies of that edit are not installed by
  the next start: `StampIsTrue` names these edits (`raced`) as the ones that may be
  missing, and proves that no other is.
* The wizard takes every number with a unit (`featherquant.sh:208`); `parse_size`
  refuses less than a MiB (`cli.py:33`), so `512K` or `0` is not asked again but ends
  the run with exit code 2 ("anything unparseable re-asks instead of exploding
  later", `featherquant.sh:198-199`). Both sides are in the model.
* An interrupt between the construction of
  the dashboard and the `try` of `main` leaves the live view on.
* A kill between the last save and the exit leaves a complete job, and every further
  resume of it exits with 1 ("already complete"). The loop of
  `scripts/kill_resume_test.sh:18-28` waits for a 0 and then ends only by its limit
  of 200 tries.

## 5. Proofs

Everything here holds for every value of the constants that satisfies the named
`ASSUME`s: any plan, alignment, number of tensors, formats, versions; any number
of savers, inodes, rows, threads; any job, budget and readings; any models, shards, names and shapes; any tensors,
command lines and answers.

Several of these properties are sums, products or folds over data. A prover here
cannot instantiate an induction over predicates, but it can instantiate one over
sets of numbers: `SetInduction` takes the set of all `n` for which something holds,
and `RecursiveFunction` (both in `Numbers`) concludes from it that a definition
`f[n] == ... f[n - 1] ...` is the function that satisfies its equation. What the
recursive definitions of the models compute is proved from that.

**Layout** (`EngineProofs`, first part). `PadReachesAlign`: the padding
`begin_tensor` writes is what `_align` computes. `TensorsInOrder`,
`SpansDisjoint`: no byte belongs to two tensors. They rest on the uniqueness of
quotient and remainder and on the least element of a set of numbers.

**Engine, types and positions** (`EngineProofs`). `TypeCorrect` and
`OffsetsNeverDrift` need no assumption on the source or the faults. The
invariant is `PlaceInv`: at each control point the writer is where the plan says
(`InPlace`). `NoDrift` alone is not inductive, because the offset comparison
looks at `tell` after padding, which is right only if `tell` was at the end of
the previous tensor, which in turn depends on how far the stream has got.

**Engine, contents** (`EngineOutputProofs`). `SuccessIsIdentical` and
`ManifestIsTruthful`, when `StatIdentifies`: versions with the same stat are the
same, and the source is not replaced before the run has a manifest in memory, that
is, between being opened and its stat being taken (`SwapPoints \subseteq Writing`).
The run `engine_directory` shows that the first half cannot be dropped. After that
point it may be replaced at will, and under kills: the run keeps what it has opened,
and a resume compares the stat. The invariant
`ContentInv` strengthens both in three ways. `MemInv`: the manifest in memory
is truthful. `RunInv`: all that is behind the write position, in the file and in
the buffer, is what an uninterrupted run writes, and a run goes past a tensor only
if it is in the file. `FileOK`: a file with the header of a job has zeros
wherever that job's output has padding; without it, a resume, which verifies
hashes of header and tensors and never of padding, could not conclude that the
whole file is right. It also implies that a file is never longer than the output.

**Engine, the record** (`EngineOutputProofs`, last part). What the manifest says
and what the file holds, when in addition `KeepsManifests`: no loss of power, and
nobody starts afresh over a manifest (`engine_rerun` shows why; a loss of power
may take unsynced data the manifest vouches for). `NeverForgets` needs only
`Recorded`: from the first checkpoint of a run the manifest in memory knows all
the saved one knows, except perhaps the tensor being rewritten, and it knows that
one again when it is saved. `CommittedIsPresent`, `CommittedStays`
and `AlreadyCompleteIsTrue` follow from `RecordHolds`, the
invariant `RecordInv`, which adds to that: `BackedInv`, what either manifest
vouches for is in the file but for bad bytes; and `DoneInv`, after the job is
recorded as complete the file is whole and nothing writes to it. The step they
share is `RunKeeps`: what a step or a crash changes in the file becomes what the
output has there, so no region a truthful hash covers is ever damaged.

**Engine, the refinement** (`EngineOutputProofs`, end). `EngineImplementsJob`: killed
at any step and resumed, the engine implements `ResumableJob`, when
`StatIdentifies` and `OneJob`: one source, never replaced, in one format, and kills the only
faults (and `NoManifest` is no manifest). The invariant is `ResumeInv` (`ResumeHolds`): `JobInv` adds to the record
that the manifest has the hashes of the first `b` tensors, that the file is ahead
of it by one tensor at most, and that a run writes tensor `b + 1`. Without the
last part the resume scan could start anywhere, and `Stored`, which counts the
tensors that are in the file, could pass what is banked by more than one. The
first save is `Begin`, a checkpoint `Bank`, the last save `Finish`; a step or a
kill that changes the file is `Store` or a stutter (`StoreOrStutter`), because a
tensor that is whole stays whole (`WholeStays`); nothing else is visible.

**Manifest** (`ManifestStoreProofs`). `ManifestNeverTorn` from `StoreInvariant`:
savers own their temporary files exclusively, none of them is a file the path
leads to or may fall back to, and those are whole and on the disk.
`OnlyKillsLeaveStrays` says of the temporary files that each belongs to an active
saver or was left by a kill or a power loss. `StoreImplementsRegister` is the refinement: with that invariant a rename is a
save, a loss of power is a fall-back, and everything else is a stutter. It is
what entitles `Engine` to treat a save as one step.

**Kernel pool** (`KernelPoolProofs`). `WindowsPartition`: the bounds
`n * i // k` cut `0 .. n - 1` into consecutive windows. From it, `PoolInvariant`:
each worker has filled exactly the part of its window it went through, and the
sum so far is the bound of the next worker to join. Hence `WholeResult`,
`NoSizeMismatch` and `NoRace`.

**Streaming** (`StreamingProofs`). `StreamInvariant` has two parts. `ChunkInv`
gives `ChunksFit` and `BacksOff`. The core of the second is a lemma about the
controller: one observation never takes more than three tenths off the estimate
(`DoublingMakesUp`), so doubling it afterwards leaves it no lower than before, and
a higher estimate with fewer rows left never gives a larger chunk
(`NextRowsBounds`). `WrittenInv` says what has been written at each point, the
tensors before this one and the rows before this chunk, and gives `WritesThePlan`.
`NoStepIsIdle` is the part of `Ends` that needs no fairness: whatever RSS is
measured and however far the estimate has grown, a step of a run ends it, opens a
tensor, moves on to the next, or takes at least one of the rows that are left.

**Sources** (`SourcesProofs`), for any models, shards, shapes, names and files
replaced. Assumed is what the formats promise (`ModelsAssumption`): a tensor of a
type that can be read has the bytes of its elements, a name that is mapped has a
role, and the names of shards can be sorted. Nothing is assumed of where data ends,
of which shards exist, of what an index lists or of names being distinct, since
these are what the code has to find out. The argument has three parts, each on top
of the one before:

* `OpenInv`: each tensor is a candidate (`Candidates`: the type, elements and range
  that its header entry gives it), and the tensors are exactly the mapped entries
  of the shards opened so far (`Complete`). With `HeaderInv`, the keys that are
  still in the source or already in the header, it gives `NothingIsLost`.
* `PlanIsFeasible` and `PlanOfTheReference` need only that the plan is `PlanOf` of
  candidates, and lemmas on shapes and blocks: the first and the last dimension
  divide the number of elements (`ElementsOf`, a product), rows of whole blocks
  pack to the size of the whole (`RowsPack`), and a tensor that the rules choose
  has such rows (`Packable`). The second compares the two ways to a type by cases
  (`TwoSteps`) and the layer schedule at 28 layers (`MoreBitsOf28`).
* `StreamInv`: the last range handed on ends at the position in the tensor (`At`),
  and what came before is in order. It needs that the rows of a tensor are exactly
  its bytes (`GoalOf`) and that a read is never empty and never passes the end
  (`ReadSizesOf`), and gives `EveryByteOnce`. `BytesInOrder` alone is not inductive,
  because it does not say what the buffer holds between a read and the kernel that
  consumes it.

`TypeCorrect` follows from the three invariants `OpenInv`, `HeaderInv` and
`StreamInv`: that the position is inside the tensor is part of `TypeOK`.

**Launcher** (`LauncherProofs`), for any tensors, command lines, answers and number
of edits. `StampVouches` from `VenvInv`: a stamp vouches for a whole install, and
every edit between the installed one and the stamp is one of `raced`; the launcher
is about to touch it only with an install that has ended, while every edit since
it began is in `raced`. `OnlyGivenUpWorkIsLost` from `JobInv`: a process that is about to
start afresh found no manifest, or was started without `--resume`, from the
wizard only after a declined offer. `ExitsCleanly` from `ExitInv`: at the report
every tensor is committed, and the live view is off before the process can end
with 0. `TypeCorrect` is their type invariant. `BarAddsUp` from `BarInv`: while a
tensor is streamed, what the bar has counted is `UpTo[next - 1] + part`, the bytes
of the tensors before it and of its own chunks, in a resumed run too; that the bar
ends at its total needs `UpTo` to be the sum it is written as.

**Only model-checked.** `ResumeCompletes`, `Returns` and `Ends`: liveness under
fairness is out of the prover's reach. Every other property that a passing run checks
is a theorem.

## 6. Not modelled, and the plan

Left out for good: rendering and wording of progress and help; the kernels of
`libggml`; the bytes of the GGUF header; loading a shared library; benchmark
scripts. `q8_0.py` is IEEE float32 arithmetic from end to end (a scale that is
rounded to float16, a division by it, a rounding half away from zero): over
integers only the layout of 34 bytes per 32 elements is left, which `Formats` has,
and an error bound proved of integers would say nothing of the code. The order of
rows and windows around it is `KernelPool`'s. Two runs that write one output at
the same time are modelled for the manifest only.

Done, the most important behaviour first: `Layout`, `Engine`, `ResumableJob`;
`ManifestStore` and `ManifestRegister`, `KernelPool`, `Streaming`; `Formats` and
`Sources`; `Cli` and `Launcher`; the proofs of section 5. What is left:

1. resumed runs in `Sources`, and the window between parsing and opening a shard;
2. empty tensors in `Layout` and `Engine`, where two tensors would share an offset;
3. for `KernelPool` and `Engine` what `NoStepIsIdle` is for `Streaming`: that each
   step of a call or of a run gets nearer to its end, as an action property.
