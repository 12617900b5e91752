------------------------------ MODULE Sources -------------------------------
(***************************************************************************)
(* From a model on disk to the bytes the kernels get: `TensorSource` (a    *)
(* GGUF file) and `SafetensorsSource` (a directory of shards with a vocab  *)
(* GGUF), the plan made from what they found, the metadata that is copied  *)
(* and then released, and the reads of the streaming loops into one shared *)
(* buffer.                                                                 *)
(*                                                                         *)
(* Abstractions.                                                           *)
(*  - A model is a record of what its files hold; a GGUF file is a model   *)
(*    with the one shard GgufFile.                                         *)
(*  - A range of bytes is the file it lies in, which of the successive     *)
(*    files under that path, and its two ends.  Widening values to float32 *)
(*    and packing them is not modelled here: KernelPool splits the rows.   *)
(*  - Parsing the header of a shard and opening it again for its data is   *)
(*    one step: nothing replaces the shard in between.                     *)
(***************************************************************************)
EXTENDS Formats, SequencesExt

CONSTANTS
    Models,     \* the models a run may be given
    ShardOrder, \* all shard names, sorted
    GgufFile,   \* the one file of a GGUF model
    NoIndex,    \* there is no model.safetensors.index.json
    NoVocab,    \* --vocab-gguf was not given
    SupportedArchs,
    NameMap,    \* NameMap[hf]: the GGUF name of a known HF name
    RoleOf,     \* RoleOf[n]: the role and the layer (-1: none) in GGUF name n
    COPY_CHUNK  \* bytes of one verbatim copy (8 MiB in the source)

VARIABLES
    pc,       \* what the run does next; "idle" when no run is going on
    code,     \* how the last run ended
    model,    \* the model given to the run
    fmt, lib, \* the output format; whether libggml could be loaded
    current,  \* current[s]: which file the path of shard s leads to now
    opened,   \* opened[s]: which file the source has open
    tensors,  \* source.tensors
    unmapped, \* names without a mapping were met
    fields,   \* keys of source.reader.fields
    header,   \* keys of the output's header
    plan,     \* the plan
    index,    \* the tensor that is streamed
    pos,      \* how many of its bytes have been read
    buf,      \* what the read buffer holds: the range read last
    out       \* the ranges handed on so far, in order

given == <<model, fmt, lib>>
source == <<opened, tensors, unmapped>>
stream == <<index, pos, buf, out>>
vars == <<pc, code, given, current, source, fields, header, plan, stream>>

Kind == IF model.gguf THEN "gguf" ELSE "shards"

\* The shards of a model: those its index names.
ShardsOf(m) ==
    IF m.gguf THEN {GgufFile}
    ELSE IF m.weightMap = NoIndex THEN {"model.safetensors"}
    ELSE Range(m.weightMap)

Shards == ShardsOf(model)
Unopened == Shards \ DOMAIN opened

\* They are opened in the order of their names.
NextShard ==
    ShardOrder[CHOOSE i \in DOMAIN ShardOrder :
                  /\ ShardOrder[i] \in Unopened
                  /\ \A j \in 1 .. i - 1 : ShardOrder[j] \notin Unopened]

\* The GGUF name of a header entry.
NameOf(m, e) == IF m.gguf THEN e.name ELSE NameMap[e.name]

\* What the two formats promise of a file: a tensor of a type that can be read
\* has the bytes of its elements, and it may have none.  Where its data ends in
\* the file, and whether a shard is there at all, is another matter.
EntryOK(e) ==
    /\ e.shape \in Seq(Nat)
    /\ e.start \in Nat /\ e.end \in Nat /\ e.start <= e.end
    /\ e.type \in DOMAIN ITEMSIZE => e.end - e.start = Elements(e.shape) * ITEMSIZE[e.type]

ASSUME CopyAssumption == COPY_CHUNK \in Nat \ {0}

ASSUME ModelsAssumption ==
    \A m \in Models :
        /\ m.gguf \in BOOLEAN /\ m.layers \in Nat
        /\ DOMAIN m.shards \cup ShardsOf(m) \subseteq Range(ShardOrder)
        /\ \A s \in DOMAIN m.shards :
              LET entries == m.shards[s].entries
              IN  /\ m.shards[s].len \in Nat
                  /\ entries \in Seq(Range(entries))
                  /\ \A e \in Range(entries) :
                        /\ EntryOK(e)
                        /\ m.gguf \/ e.name \in DOMAIN NameMap => NameOf(m, e) \in DOMAIN RoleOf

ASSUME OrderAssumption == ShardOrder \in Seq(Range(ShardOrder))
ASSUME RoleAssumption == \A n \in DOMAIN RoleOf : RoleOf[n].layer \in Int

Extent(s, from, to) == [shard |-> s, file |-> opened[s], from |-> from, to |-> to]
Extents == [shard : Range(ShardOrder), file : {1, 2}, from : Nat, to : Nat]
Nothing == [shard |-> GgufFile, file |-> 0, from |-> 0, to |-> 0]
-----------------------------------------------------------------------------
Init ==
    /\ pc = "idle" /\ code = "none"
    /\ model \in Models /\ fmt \in OutputFormats /\ lib \in BOOLEAN
    /\ current = [s \in Range(ShardOrder) |-> 1]
    /\ opened = [s \in {} |-> 0] /\ tensors = <<>> /\ unmapped = FALSE
    /\ fields = {} /\ header = {} /\ plan = <<>>
    /\ index = 1 /\ pos = 0 /\ buf = Nothing /\ out = <<>>

\* A run ends with code c: source and writer are closed.
End(c) == pc' = "idle" /\ code' = c

\* What a run is refused for before it opens a shard: no libggml for the
\* format, no vocab GGUF, or one of an architecture that does not map 1:1.
Exits(m, f, l) == (NeedsGgml(f) /\ ~l) \/ (~m.gguf /\ m.arch = NoVocab)
Unsupported(m) == ~m.gguf /\ m.arch \notin SupportedArchs

Start(m, f, l) ==
    /\ pc = "idle"
    /\ model' = m /\ fmt' = f /\ lib' = l
    /\ opened' = [s \in {} |-> 0] /\ tensors' = <<>> /\ unmapped' = FALSE
    /\ fields' = m.keys /\ header' = {} /\ plan' = <<>>
    /\ index' = 1 /\ pos' = 0 /\ buf' = Nothing /\ out' = <<>>
    /\ IF Exits(m, f, l) THEN End("exit")
       ELSE IF Unsupported(m) THEN End("refused")
       ELSE pc' = "open" /\ code' = "running"
    /\ UNCHANGED current

\* The tensor a header entry of shard s becomes.
TensorOf(e, s) ==
    LET n == NameOf(model, e)
    IN  [name |-> n, role |-> RoleOf[n].role, layer |-> RoleOf[n].layer,
         shape |-> IF model.gguf THEN e.shape ELSE Reverse(e.shape),
         elements |-> Elements(e.shape),
         type |-> e.type, start |-> e.start, end |-> e.end, shard |-> s]

Mapped(e) == model.gguf \/ e.name \in DOMAIN NameMap
Supported(e) == model.gguf \/ e.type \in DOMAIN ITEMSIZE

\* The loop over the entries of shard s: those with a mapping become tensors.
Found(s) ==
    LET entries == model.shards[s].entries
        found[k \in 0 .. Len(entries)] ==
            IF k = 0 THEN tensors
            ELSE IF Mapped(entries[k]) THEN Append(found[k - 1], TensorOf(entries[k], s))
            ELSE found[k - 1]
    IN  found[Len(entries)]

\* The next shard: parse its header, open it, map its names.  A shard that is
\* missing, or holds a type that cannot be read, raises.
OpenShard ==
    /\ pc = "open"
    /\ Unopened # {}
    /\ LET s == NextShard
           entries == model.shards[s].entries
       IN  IF s \notin DOMAIN model.shards \/ \E k \in DOMAIN entries : ~Supported(entries[k])
           THEN End("refused") /\ UNCHANGED source
           ELSE /\ opened' = [x \in DOMAIN opened \cup {s} |->
                                IF x = s THEN current[s] ELSE opened[x]]
                /\ tensors' = Found(s)
                /\ unmapped' = (unmapped \/ \E k \in DOMAIN entries : ~Mapped(entries[k]))
                /\ UNCHANGED <<pc, code>>
    /\ UNCHANGED <<given, current, fields, header, plan, stream>>

\* Mutant: tensors without a mapping are left out.
OpenedAnyway ==
    /\ pc = "open"
    /\ Unopened = {}
    /\ pc' = "plan" /\ UNCHANGED code
    /\ UNCHANGED <<given, current, source, fields, header, plan, stream>>

\* All shards are open; one tensor without a mapping refuses the model.
Opened ==
    /\ pc = "open"
    /\ Unopened = {}
    /\ IF unmapped THEN End("refused") ELSE pc' = "plan" /\ UNCHANGED code
    /\ UNCHANGED <<given, current, source, fields, header, plan, stream>>

MakePlan ==
    /\ pc = "plan"
    /\ plan' = PlanOf(Kind, fmt, model.layers, tensors)
    /\ pc' = "metadata"
    /\ UNCHANGED <<code, given, current, source, fields, header, stream>>
-----------------------------------------------------------------------------
(* The header of the output, for a fresh run.                              *)

OwnKeys == {"general.architecture", "general.file_type", "general.quantization_version"}

\* The writer copies what the source has and sets the keys it owns.
CopyMetadata ==
    /\ pc = "metadata"
    /\ header' = fields \cup OwnKeys
    /\ pc' = "release"
    /\ UNCHANGED <<code, given, current, source, fields, plan, stream>>

\* Metadata is released and the tensors are declared; GGUFWriter refuses a
\* name it has seen.
ReleaseAndDeclare ==
    /\ pc = "release"
    /\ fields' = {}
    /\ IF \E i, j \in DOMAIN plan : i # j /\ plan[i].tensor.name = plan[j].tensor.name
       THEN End("duplicate")
       ELSE pc' = "tensor" /\ UNCHANGED code
    /\ UNCHANGED <<given, current, source, header, plan, stream>>
-----------------------------------------------------------------------------
(* The streaming loops.                                                    *)

Job == plan[index]
T == Job.tensor
RowBytes == T.shape[1] * ITEMSIZE[T.type]
Quantizing == Job.type # T.type
Goal == IF Quantizing THEN Rows(T) * RowBytes ELSE SourceBytes(T)

Smaller(a, b) == IF a < b THEN a ELSE b

\* Mutant: the last read of a copy is as long as the others.
FullReads ==
    IF Quantizing THEN {n * RowBytes : n \in 1 .. (Goal - pos) \div RowBytes}
    ELSE {COPY_CHUNK}

\* Sizes of the next read: any number of rows, or what a copy takes.
ReadSizes ==
    IF Quantizing THEN {n * RowBytes : n \in 1 .. (Goal - pos) \div RowBytes}
    ELSE {Smaller(COPY_CHUNK, Goal - pos)}

\* A tensor without elements can be copied, but not packed: the number of its
\* rows is 0, which is taken for a budget too small, or a division by 0.
BeginTensor ==
    /\ pc = "tensor"
    /\ index \in DOMAIN plan
    /\ pos' = 0
    /\ IF Quantizing /\ T.elements = 0 THEN End("empty")
       ELSE /\ pc' = IF Goal = 0 THEN "done" ELSE "read"
            /\ UNCHANGED code
    /\ UNCHANGED <<given, current, source, fields, header, plan, index, buf, out>>

\* Mutant: the next chunk is read before the last one has been consumed.
ReadAhead(n) ==
    /\ pc \in {"read", "pack"}
    /\ n <= Goal - pos
    /\ LET from == T.start + pos
       IN  IF from + n > model.shards[T.shard].len
           THEN End("short read") /\ UNCHANGED <<pos, buf>>
           ELSE /\ buf' = Extent(T.shard, from, from + n)
                /\ pos' = pos + n
                /\ pc' = "pack" /\ UNCHANGED code
    /\ UNCHANGED <<given, current, source, fields, header, plan, index, out>>

\* seek, readinto, and the check of what was read.
Read(n) ==
    /\ pc = "read"
    /\ LET from == T.start + pos
       IN  IF from + n > model.shards[T.shard].len
           THEN End("short read") /\ UNCHANGED <<pos, buf>>
           ELSE /\ buf' = Extent(T.shard, from, from + n)
                /\ pos' = pos + n
                /\ pc' = "pack" /\ UNCHANGED code
    /\ UNCHANGED <<given, current, source, fields, header, plan, index, out>>

\* The kernel, or the copy, takes the rows out of the buffer they alias.
Pack ==
    /\ pc = "pack"
    /\ out' = Append(out, [tensor |-> index, bytes |-> buf])
    /\ pc' = IF pos < Goal THEN "read" ELSE "done"
    /\ UNCHANGED <<code, given, current, source, fields, header, plan, index, pos, buf>>

NextTensor ==
    /\ pc = "done"
    /\ index' = index + 1
    /\ pc' = "tensor"
    /\ UNCHANGED <<code, given, current, source, fields, header, plan, pos, buf, out>>

Finish ==
    /\ pc = "tensor"
    /\ index \notin DOMAIN plan
    /\ End("ok")
    /\ UNCHANGED <<given, current, source, fields, header, plan, stream>>

\* A new file is put in the place of a shard (the old one lives on as long as
\* it is open), at any time but while the shards are being opened.
Replace(s) ==
    /\ pc # "open"
    /\ current' = [current EXCEPT ![s] = 3 - @]
    /\ UNCHANGED <<pc, code, given, source, fields, header, plan, stream>>

Next ==
    \/ \E m \in Models, f \in OutputFormats, l \in BOOLEAN : Start(m, f, l)
    \/ OpenShard \/ Opened \/ MakePlan
    \/ CopyMetadata \/ ReleaseAndDeclare
    \/ BeginTensor
    \/ /\ pc \in {"read", "pack"}
       /\ \E n \in ReadSizes : Read(n)
    \/ Pack \/ NextTensor \/ Finish
    \/ \E s \in DOMAIN model.shards : Replace(s)

Spec == Init /\ [][Next]_vars
-----------------------------------------------------------------------------
Streaming == {"tensor", "read", "pack", "done"}

\* Every variable has its type, and the position is inside the tensor.
TypeOK ==
    /\ pc \in {"idle", "open", "plan", "metadata", "release"} \cup Streaming
    /\ code \in {"none", "running", "ok", "exit", "refused", "duplicate", "empty", "short read"}
    /\ model \in Models /\ fmt \in OutputFormats /\ lib \in BOOLEAN
    /\ current \in [Range(ShardOrder) -> {1, 2}]
    /\ DOMAIN opened \subseteq Shards /\ \A s \in DOMAIN opened : opened[s] \in {1, 2}
    /\ unmapped \in BOOLEAN
    /\ fields \subseteq model.keys /\ header \subseteq model.keys \cup OwnKeys
    /\ index \in 1 .. Len(plan) + 1
    /\ pc \in Streaming \ {"tensor"} => index <= Len(plan) /\ pos \in 0 .. Goal
    /\ out \in Seq([tensor : Nat, bytes : Extents])

\* The k-th range handed on begins, or ends, the tensor it was read for.
Begins(k) == out[k].bytes.from = plan[out[k].tensor].tensor.start
Ends(k) == out[k].bytes.to = plan[out[k].tensor].tensor.end

\* It goes on where the one before it stopped.
Continues(k) ==
    \/ /\ out[k].tensor = out[k - 1].tensor
       /\ out[k].bytes.from = out[k - 1].bytes.to
    \/ /\ out[k].tensor > out[k - 1].tensor
       /\ Ends(k - 1) /\ Begins(k)

\* However the reads are cut, the kernels get the bytes of the tensors in the
\* order of the plan, each byte once, from the file that was open when its
\* header was read, and never bytes a file does not have (read_st_rows,
\* read_rows_f32, read_raw and the buffer they share).
BytesInOrder ==
    /\ out # <<>> => Begins(1)
    /\ \A k \in 2 .. Len(out) : Continues(k)
    /\ \A i \in 1 .. index - 1 :
          \/ plan[i].tensor.start = plan[i].tensor.end
          \/ \E k \in DOMAIN out : out[k].tensor = i /\ Ends(k)
    /\ \A k \in DOMAIN out :
          LET t == plan[out[k].tensor].tensor
              b == out[k].bytes
          IN  /\ out[k].tensor \in 1 .. Smaller(index, Len(plan))
              /\ b.shard = t.shard /\ b.file = opened[t.shard]
              /\ t.start <= b.from /\ b.from < b.to /\ b.to <= t.end
              /\ b.to <= model.shards[t.shard].len

\* No partial model (st_source.py:183-187), and no metadata lost although it
\* is released before data is streamed (engine.py:225-233): every entry of
\* every shard that was opened is planned, under a name of its own, and every
\* key of the source is in the header.
ModelIsWhole ==
    pc \in Streaming =>
        /\ \A s \in Shards : \A k \in DOMAIN model.shards[s].entries :
              LET e == model.shards[s].entries[k]
              IN  Mapped(e) /\ \E i \in DOMAIN plan : plan[i].tensor = TensorOf(e, s)
        /\ IsInjective([i \in DOMAIN plan |-> plan[i].tensor.name])
        /\ model.keys \subseteq header

\* Whatever is to be packed and not empty can be: its rows can be read, hold
\* whole blocks, so that packing them in chunks gives the planned size, and
\* there is a kernel for the type (the assertion of engine.py:378).
PlanCanBeStreamed ==
    pc \in Streaming =>
        \A i \in DOMAIN plan :
            LET t == plan[i].tensor
                tt == plan[i].type
            IN  tt # t.type /\ t.elements # 0 =>
                    /\ t.type \in DOMAIN ITEMSIZE
                    /\ t.shape[1] % BlockSize[tt] = 0
                    /\ plan[i].bytes = Rows(t) * PackedBytes(t.shape[1], tt)
                    /\ tt \notin {"Q8_0", "F32"} => lib

\* What convert_hf_to_gguf.py --outtype bf16 makes of a tensor.
Converted(t) ==
    IF Len(t.shape) = 1 THEN [t EXCEPT !.type = "F32", !.start = 0, !.end = 4 * t.elements]
    ELSE [t EXCEPT !.type = "BF16"]

\* Layers whose attn_v and ffn_down are Q6_K in the reference dump
\* tests/data/qwen3-0.6b-q4_k_m-types.json.
ReferenceLayers == {0, 1, 2, 5, 8, 11, 14, 17, 20, 23, 24, 25, 26, 27}

\* The plan is the one the reference tools arrive at: made of the shards of a
\* BF16 model it is the plan of the GGUF file they convert to (engine.py:180),
\* and of 28 layers those get more bits that do in the reference dump.
PlanIsReference ==
    pc \in Streaming =>
        /\ LET twoStep == PlanOf("gguf", fmt, model.layers,
                                 [i \in DOMAIN tensors |-> Converted(tensors[i])])
           IN  /\ Kind = "shards"
               /\ \A i \in DOMAIN tensors : Len(tensors[i].shape) # 1 => tensors[i].type = "BF16"
               => \A i \in DOMAIN plan : /\ plan[i].type = twoStep[i].type
                                        /\ plan[i].bytes = twoStep[i].bytes
        /\ fmt = "q4_k_m" /\ model.layers = 28 =>
              \A i \in DOMAIN plan :
                  LET t == plan[i].tensor
                  IN  Quantizable(t, QK_K) /\ t.layer < model.layers =>
                        (plan[i].type = "Q6_K" <=>
                            \/ t.role = "output"
                            \/ t.role \in {"attn_v", "ffn_down"} /\ t.layer \in ReferenceLayers)
-----------------------------------------------------------------------------
(* What the writer says of its output and does not do for every source.    *)

\* Where the writer puts the first tensor, and where a reader of the file
\* looks for it: at the alignment the header states.
RoundUp(n, a) == ((n + a - 1) \div a) * a
StatedAlignment == IF "general.alignment" \in header THEN model.align ELSE 32

\* "data lands exactly at the precomputed offsets" (gguf_io.py:137-140).
DataWhereReadersLook ==
    pc \in Streaming => RoundUp(model.headerLen, 32) = RoundUp(model.headerLen, StatedAlignment)
=============================================================================
